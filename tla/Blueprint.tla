------------------------------ MODULE Blueprint ------------------------------
(***************************************************************************)
(* BlueprintService over SqliteBlueprintRepository,                        *)
(* src/src/extendcodeagent/blueprint/service.py: immutable plan revisions, *)
(* a status per revision and the pointer to the active one, in one project *)
(* scope of a database that several services may have open.                *)
(*                                                                         *)
(* Every repository call is a transaction or a SELECT of its own, so an    *)
(* operation is a check and then one write after another; what it has read *)
(* may be outdated when it writes, and a crash may come in between.  What  *)
(* never changes once it is written, the payload, is read at the check.    *)
(*                                                                         *)
(* MayActivateReviewed and PriorIgnored are no part of the model: each is  *)
(* a plausible mistake in the operator after it, swapped in by             *)
(* PROJECT.json.                                                           *)
(***************************************************************************)
EXTENDS Naturals

CONSTANTS
  Services,       (* BlueprintService objects on the database.              *)
  MaxRevisions    (* Bound: revisions saved in a behaviour.                 *)

ASSUME MaxRevisionsAssumption == MaxRevisions \in Nat

Ids == 1..MaxRevisions
None == 0
Statuses == {"proposed", "reviewed", "approved", "active", "superseded"}
Rank == [proposed |-> 1, reviewed |-> 2, approved |-> 3, active |-> 4, superseded |-> 5]

VARIABLES
  saved,          (* How many revisions there are; their ids are 1..saved.  *)
  plan,           (* Payload per id: its blueprint, its parent, and whether *)
                  (* _validate accepts its elements.                        *)
  status,         (* Column status per id, None before it is saved.         *)
  active,         (* Table active_blueprints: the active id.                *)
  pc,             (* The write each service does next.                      *)
  local,          (* The id its operation is about and the prior active id. *)
  signed,         (* History: per id, the operations it has passed,         *)
  disturbed       (* and whether one operation overlapped another or died.  *)

table == <<saved, plan, status, active>>
vars == <<saved, plan, status, active, pc, local, signed, disturbed>>

Plan == [blueprint : Ids, parent : Ids \cup {None}, valid : BOOLEAN]
NoPlan == [blueprint |-> None, parent |-> None, valid |-> FALSE]
Unsaved == "unsaved"
Steps == {"idle", "review", "approve", "prior", "supersede", "status", "pointer"}

TypeOK ==
  /\ saved \in 0..MaxRevisions
  /\ plan \in [Ids -> Plan \cup {NoPlan}]
  /\ status \in [Ids -> Statuses \cup {Unsaved}]
  /\ \A id \in Ids : IF id <= saved THEN plan[id] # NoPlan /\ status[id] # Unsaved
                                     ELSE plan[id] = NoPlan /\ status[id] = Unsaved
  /\ active \in 0..saved
  /\ pc \in [Services -> Steps]
  /\ local \in [Services -> [id : 0..saved, prior : 0..saved]]
  /\ signed \in [Ids -> SUBSET {"review", "approve"}]
  /\ disturbed \in BOOLEAN

NoLocal == [id |-> None, prior |-> None]

Init ==
  /\ saved = 0
  /\ plan = [id \in Ids |-> NoPlan]
  /\ status = [id \in Ids |-> Unsaved]
  /\ active = None
  /\ pc = [s \in Services |-> "idle"]
  /\ local = [s \in Services |-> NoLocal]
  /\ signed = [id \in Ids |-> {}]
  /\ disturbed = FALSE

Goto(s, from, to) == pc[s] = from /\ pc' = [pc EXCEPT ![s] = to]

(***************************************************************************)
(* create and revise: one INSERT; ids are uuids, so none collides.         *)
(***************************************************************************)

Save(s, p) ==
  LET id == saved + 1
  IN /\ pc[s] = "idle"
     /\ saved < MaxRevisions
     /\ saved' = id
     /\ plan' = [plan EXCEPT ![id] = p]
     /\ status' = [status EXCEPT ![id] = "proposed"]
     /\ UNCHANGED <<active, pc, local, signed, disturbed>>

Create(s, valid) == Save(s, [blueprint |-> saved + 1, parent |-> None, valid |-> valid])

Exists(id) == id <= saved

Revise(s, parent, valid) ==
  /\ Exists(parent)
  /\ Save(s, [blueprint |-> plan[parent].blueprint, parent |-> parent, valid |-> valid])

(***************************************************************************)
(* review, approve and activate: check the status, then write.             *)
(***************************************************************************)

Begin(s, id, to) ==
  /\ Exists(id)
  /\ Goto(s, "idle", to)
  /\ local' = [local EXCEPT ![s].id = id]
  /\ disturbed' = (disturbed \/ \E t \in Services : pc[t] # "idle")
  /\ UNCHANGED <<table, signed>>

MayReview(id) == status[id] = "proposed"

(* An operation that fails its check raises and changes nothing.           *)
ReviewCheck(s, id) == MayReview(id) /\ plan[id].valid /\ Begin(s, id, "review")
ApproveCheck(s, id) == status[id] = "reviewed" /\ Begin(s, id, "approve")

MayActivateReviewed(id) == status[id] \in {"reviewed", "approved"}
MayActivate(id) == status[id] = "approved"

ActivateCheck(s, id) == MayActivate(id) /\ plan[id].valid /\ Begin(s, id, "prior")

SetStatus(id, to) == status' = [status EXCEPT ![id] = to]

Finish(s) == local' = [local EXCEPT ![s] = NoLocal]

Review(s) ==
  /\ Goto(s, "review", "idle")
  /\ SetStatus(local[s].id, "reviewed")
  /\ signed' = [signed EXCEPT ![local[s].id] = @ \cup {"review"}]
  /\ Finish(s)
  /\ UNCHANGED <<saved, plan, active, disturbed>>

Approve(s) ==
  /\ Goto(s, "approve", "idle")
  /\ SetStatus(local[s].id, "approved")
  /\ signed' = [signed EXCEPT ![local[s].id] = @ \cup {"approve"}]
  /\ Finish(s)
  /\ UNCHANGED <<saved, plan, active, disturbed>>

PriorIgnored(s) == FALSE
Supersedes(s) == active # None /\ active # local[s].id

ActivatePrior(s) ==
  /\ Goto(s, "prior", IF Supersedes(s) THEN "supersede" ELSE "status")
  /\ local' = [local EXCEPT ![s].prior = active]
  /\ UNCHANGED <<table, signed, disturbed>>

ActivateSupersede(s) ==
  /\ Goto(s, "supersede", "status")
  /\ SetStatus(local[s].prior, "superseded")
  /\ UNCHANGED <<saved, plan, active, local, signed, disturbed>>

ActivateStatus(s) ==
  /\ Goto(s, "status", "pointer")
  /\ SetStatus(local[s].id, "active")
  /\ UNCHANGED <<saved, plan, active, local, signed, disturbed>>

ActivatePointer(s) ==
  /\ Goto(s, "pointer", "idle")
  /\ active' = local[s].id
  /\ Finish(s)
  /\ UNCHANGED <<saved, plan, status, signed, disturbed>>

(* What was written before stays written: nothing undoes or completes it.  *)
Crash(s) ==
  /\ pc[s] # "idle"
  /\ pc' = [pc EXCEPT ![s] = "idle"]
  /\ Finish(s)
  /\ disturbed' = TRUE
  /\ UNCHANGED <<table, signed>>

----------------------------------------------------------------------------

Next ==
  \E s \in Services :
    \/ \E valid \in BOOLEAN : Create(s, valid)
    \/ \E parent \in Ids, valid \in BOOLEAN : Revise(s, parent, valid)
    \/ \E id \in Ids : ReviewCheck(s, id) \/ ApproveCheck(s, id) \/ ActivateCheck(s, id)
    \/ Review(s)
    \/ Approve(s)
    \/ ActivatePrior(s)
    \/ ActivateSupersede(s)
    \/ ActivateStatus(s)
    \/ ActivatePointer(s)
    \/ Crash(s)

Spec == Init /\ [][Next]_vars

----------------------------------------------------------------------------
(* Properties.                                                             *)

(* No plan takes effect that was not both reviewed and approved, or whose  *)
(* elements are not well formed: not even when services race each other or *)
(* die half way.                                                           *)
OnlyApprovedTakesEffect ==
  /\ \A id \in Ids : status[id] \in {"active", "superseded"} =>
                       plan[id].valid /\ signed[id] = {"review", "approve"}
  /\ active # None => plan[active].valid /\ signed[active] = {"review", "approve"}

(* What active() answers while no activation is under way has the status   *)
(* active, and nothing else has.                                           *)
ActiveIsActive ==
  (\A s \in Services : pc[s] = "idle") =>
    \A id \in Ids : status[id] = "active" <=> id = active

(* Operations that neither overlap nor die keep the pointer and the        *)
(* statuses in step, and never have two active plans in between.           *)
ActivationIsOrderly ==
  ~ disturbed =>
    /\ ActiveIsActive
    /\ \A x, y \in Ids : status[x] = "active" /\ status[y] = "active" => x = y

(* A revision moves through its lifecycle in one direction, if operations  *)
(* do not overlap; with two services it can be sent back.                  *)
StatusOnlyForward ==
  [][\A id \in Ids : ~ disturbed /\ id <= saved /\ status'[id] # status[id]
                      => Rank[status'[id]] > Rank[status[id]]]_vars

============================================================================
