--------------------------- MODULE BlueprintProofs ---------------------------
(***************************************************************************)
(* For any number of services and revisions, whatever their operations     *)
(* interleave to and wherever they die: types hold, and no plan takes      *)
(* effect that was not well formed, reviewed and approved.  And as long as *)
(* they neither overlap nor die, the pointer and the statuses agree and a  *)
(* status only moves forward.                                              *)
(*                                                                         *)
(* The invariant is inductive because it says of every operation what its  *)
(* check has established for good: validity and signatures are never taken *)
(* back, although the status that was checked may have moved on.           *)
(***************************************************************************)
EXTENDS Blueprint, TLAPS

Reviewed(id) == id # None /\ plan[id].valid /\ "review" \in signed[id]
Signed(id) == id # None /\ plan[id].valid /\ signed[id] = {"review", "approve"}

(* What a status says of the revision that has it.                         *)
Earned(to, id) ==
  /\ to = "reviewed" => Reviewed(id)
  /\ to \in {"approved", "active", "superseded"} => Signed(id)
StatusEarned == \A id \in Ids : Earned(status[id], id)

(* The pointer is on a revision that was activated.                        *)
PointerEarned == active # None => Signed(active)

(* What an operation under way has found out about its revisions.          *)
StepEarned ==
  \A s \in Services :
    /\ pc[s] = "review" => local[s].id # None /\ plan[local[s].id].valid
    /\ pc[s] = "approve" => Reviewed(local[s].id)
    /\ pc[s] \in {"prior", "supersede", "status", "pointer"} => Signed(local[s].id)
    /\ pc[s] = "supersede" => Signed(local[s].prior)

IInv == TypeOK /\ StatusEarned /\ PointerEarned /\ StepEarned

USE MaxRevisionsAssumption

(* Nothing holds of revisions before there is one.                         *)
LEMMA InitHolds == Init => IInv
  <1>1. SUFFICES ASSUME Init PROVE IInv
    OBVIOUS
  <1>2. TypeOK
    <2>1. disturbed \in BOOLEAN
      BY <1>1 DEF Init
    <2>2. saved = 0 /\ active = 0
      BY <1>1 DEF Init, None
    <2>3. /\ plan = [id \in Ids |-> NoPlan] /\ status = [id \in Ids |-> Unsaved]
          /\ pc = [s \in Services |-> "idle"] /\ local = [s \in Services |-> NoLocal]
          /\ signed = [id \in Ids |-> {}]
      BY <1>1 DEF Init
    <2>4. QED
      BY <2>1, <2>2, <2>3 DEF TypeOK, Ids, NoPlan, NoLocal, Steps, None
  <1>3. StatusEarned /\ PointerEarned /\ StepEarned
    BY <1>1 DEF Init, StatusEarned, Earned, PointerEarned, StepEarned, Unsaved
  <1>4. QED
    BY <1>2, <1>3 DEF IInv

(* A step that changes no table and no signature, and takes service s to a *)
(* state that has earned what it needs, preserves the invariant: the       *)
(* checks, the read of the prior plan and a crash.                         *)
LEMMA LocalStep ==
  ASSUME IInv, UNCHANGED <<table, signed>>, disturbed' \in BOOLEAN, NEW s \in Services,
         NEW to \in Steps, NEW id \in 0..saved, NEW prior \in 0..saved,
         pc' = [pc EXCEPT ![s] = to],
         local' = [local EXCEPT ![s] = [id |-> id, prior |-> prior]],
         to = "review" => id # None /\ plan[id].valid,
         to = "approve" => Reviewed(id),
         to \in {"prior", "supersede", "status", "pointer"} => Signed(id),
         to = "supersede" => Signed(prior)
  PROVE  IInv'
  <1>1. TypeOK'
    BY DEF IInv, TypeOK, table
  <1>2. StatusEarned' /\ PointerEarned'
    BY DEF IInv, StatusEarned, Earned, PointerEarned, Reviewed, Signed, table
  <1>3. StepEarned'
    BY DEF IInv, TypeOK, StepEarned, Reviewed, Signed, table
  <1>4. QED
    BY <1>1, <1>2, <1>3 DEF IInv

(* A new revision is proposed and nobody is at work on it.                 *)
LEMMA SaveHolds ==
  ASSUME IInv, NEW s \in Services, NEW p \in Plan, Save(s, p)
  PROVE  IInv'
  <1>1. saved' \in Ids /\ saved' = saved + 1 /\ saved \in Nat
    BY DEF IInv, TypeOK, Save, Ids
  <1>2. plan' = [plan EXCEPT ![saved'] = p] /\ status' = [status EXCEPT ![saved'] = "proposed"]
    BY DEF Save
  <1>3. UNCHANGED <<active, pc, local, signed, disturbed>>
    BY DEF Save
  <1>4. p # NoPlan
    BY DEF Plan, NoPlan, Ids, None
  <1>5. TypeOK'
    <2>1. plan' \in [Ids -> Plan \cup {NoPlan}] /\ status' \in [Ids -> Statuses \cup {Unsaved}]
      BY <1>1, <1>2 DEF IInv, TypeOK, Statuses
    <2>2. (\A id \in Ids : IF id <= saved THEN plan[id] # NoPlan /\ status[id] # Unsaved
                                          ELSE plan[id] = NoPlan /\ status[id] = Unsaved)'
      BY <1>1, <1>2, <1>4 DEF IInv, TypeOK, Unsaved, Ids
    <2>3. saved' \in 0..MaxRevisions /\ active' \in 0..saved'
      BY <1>1, <1>3 DEF IInv, TypeOK, Ids
    <2>4. local' \in [Services -> [id : 0..saved', prior : 0..saved']]
      <3>1. 0..saved \subseteq 0..saved'
        BY <1>1
      <3>2. QED
        BY <3>1, <1>3 DEF IInv, TypeOK
    <2>5. QED
      BY <2>1, <2>2, <2>3, <2>4, <1>3 DEF IInv, TypeOK
  <1>6. \A id \in 0..saved : plan'[id] = plan[id] \/ id = None
    BY <1>1, <1>2 DEF IInv, TypeOK, Ids, None
  <1>7. StatusEarned'
    BY <1>1, <1>2, <1>3 DEF IInv, TypeOK, StatusEarned, Earned, Reviewed, Signed, NoPlan, Ids
  <1>8. PointerEarned'
    BY <1>3, <1>6 DEF IInv, TypeOK, PointerEarned, Signed
  <1>9. StepEarned'
    <2>1. \A t \in Services : local[t].id \in 0..saved /\ local[t].prior \in 0..saved
      BY DEF IInv, TypeOK
    <2>2. QED
      BY <2>1, <1>3, <1>6 DEF IInv, StepEarned, Reviewed, Signed
  <1>10. QED
    BY <1>5, <1>7, <1>8, <1>9 DEF IInv

(* The history flag is a Boolean after every step.                        *)
LEMMA DisturbedTyped == TypeOK /\ Next => disturbed' \in BOOLEAN
  <1>1. SUFFICES ASSUME TypeOK, Next PROVE disturbed' \in BOOLEAN
    OBVIOUS
  <1>2. PICK s \in Services :
          \/ disturbed' = disturbed
          \/ disturbed' = (disturbed \/ \E t \in Services : pc[t] # "idle")
          \/ disturbed' = TRUE
    BY <1>1 DEF Next, Create, Revise, Save, ReviewCheck, ApproveCheck, ActivateCheck, Begin,
                Review, Approve, ActivatePrior, ActivateSupersede, ActivateStatus,
                ActivatePointer, Crash
  <1>3. QED
    BY <1>1, <1>2 DEF TypeOK

(* Nothing that was signed is unsigned.                                    *)
SignaturesKept ==
  /\ signed' \in [Ids -> SUBSET {"review", "approve"}]
  /\ \A i \in Ids : signed[i] \subseteq signed'[i]

(* A write of the status of id by s, which signs for it or not, preserves  *)
(* the invariant if the revision has earned the status.                    *)
LEMMA StatusStep ==
  ASSUME IInv, NEW s \in Services, NEW id \in 1..saved, NEW to \in Statuses, NEW next \in Steps,
         UNCHANGED <<saved, plan, active>>, disturbed' \in BOOLEAN,
         status' = [status EXCEPT ![id] = to],
         pc' = [pc EXCEPT ![s] = next],
         NEW mine \in [id : 0..saved, prior : 0..saved],
         local' = [local EXCEPT ![s] = mine],
         SignaturesKept,
         Earned(to, id)',
         next = "idle" \/ (next \in {"status", "pointer"} /\ Signed(mine.id))
  PROVE  IInv'
  <1>1. id \in Ids /\ id <= saved
    BY DEF IInv, TypeOK, Ids
  <1>2. TypeOK'
    <2>1. status' \in [Ids -> Statuses \cup {Unsaved}]
      BY DEF IInv, TypeOK
    <2>2. (\A i \in Ids : IF i <= saved THEN plan[i] # NoPlan /\ status[i] # Unsaved
                                        ELSE plan[i] = NoPlan /\ status[i] = Unsaved)'
      BY <1>1 DEF IInv, TypeOK, Unsaved, Statuses
    <2>3. QED
      BY <2>1, <2>2 DEF IInv, TypeOK, SignaturesKept
  <1>3. \A i : i \in Ids => (Reviewed(i) => Reviewed(i)') /\ (Signed(i) => Signed(i)')
    BY DEF Reviewed, Signed, IInv, TypeOK, SignaturesKept
  <1>4. \A i \in 0..saved : i = None \/ i \in Ids
    BY DEF IInv, TypeOK, Ids, None
  <1>5. StatusEarned'
    BY <1>1, <1>3 DEF IInv, TypeOK, StatusEarned, Earned, Statuses
  <1>6. PointerEarned'
    BY <1>3, <1>4 DEF IInv, TypeOK, PointerEarned
  <1>7. StepEarned'
    <2>1. SUFFICES ASSUME NEW t \in Services PROVE
            (/\ pc[t] = "review" => local[t].id # None /\ plan[local[t].id].valid
             /\ pc[t] = "approve" => Reviewed(local[t].id)
             /\ pc[t] \in {"prior", "supersede", "status", "pointer"} => Signed(local[t].id)
             /\ pc[t] = "supersede" => Signed(local[t].prior))'
      BY DEF StepEarned
    <2>2. CASE t = s
      <3>1. pc'[t] = next /\ local'[t] = mine
        BY <2>2 DEF IInv, TypeOK
      <3>2. mine.id \in Ids \/ mine.id = None
        BY <1>4
      <3>3. QED
        BY <3>1, <3>2, <1>3 DEF Signed, Reviewed, IInv, TypeOK
    <2>3. CASE t # s
      <3>1. pc'[t] = pc[t] /\ local'[t] = local[t]
        BY <2>3 DEF IInv, TypeOK
      <3>2. /\ local[t].id = None \/ local[t].id \in Ids
            /\ local[t].prior = None \/ local[t].prior \in Ids
        BY <1>4 DEF IInv, TypeOK
      <3>3. QED
        BY <3>1, <3>2, <1>3 DEF IInv, StepEarned, Reviewed, Signed
    <2>4. QED
      BY <2>2, <2>3
  <1>8. QED
    BY <1>2, <1>5, <1>6, <1>7 DEF IInv
----------------------------------------------------------------------------

(* Every action is a step of one of the three kinds above.                 *)
LEMMA StepHolds == IInv /\ [Next]_vars => IInv'
  <1>1. SUFFICES ASSUME IInv, [Next]_vars PROVE IInv'
    OBVIOUS
  <1>2. CASE UNCHANGED vars
    BY <1>1, <1>2 DEF IInv, TypeOK, StatusEarned, Earned, PointerEarned, StepEarned, Reviewed, Signed, vars
  <1>3. CASE Next
    <2>1. PICK s \in Services :
            \/ \E valid \in BOOLEAN : Create(s, valid)
            \/ \E parent \in Ids, valid \in BOOLEAN : Revise(s, parent, valid)
            \/ \E id \in Ids : ReviewCheck(s, id) \/ ApproveCheck(s, id) \/ ActivateCheck(s, id)
            \/ Review(s)
            \/ Approve(s)
            \/ ActivatePrior(s)
            \/ ActivateSupersede(s)
            \/ ActivateStatus(s)
            \/ ActivatePointer(s)
            \/ Crash(s)
      BY <1>3 DEF Next
    <2>2. /\ saved \in 0..MaxRevisions
          /\ local[s].id \in 0..saved /\ local[s].prior \in 0..saved
          /\ active \in 0..saved
          /\ \A i \in 0..saved : i # None => i \in 1..saved /\ i \in Ids
          /\ signed \in [Ids -> SUBSET {"review", "approve"}]
          /\ NoLocal \in [id : 0..saved, prior : 0..saved]
          /\ local[s] \in [id : 0..saved, prior : 0..saved]
      BY <1>1 DEF IInv, TypeOK, Ids, None, NoLocal
    <2>0. disturbed' \in BOOLEAN
      BY <1>1, <1>3, DisturbedTyped DEF IInv
    <2>3. ASSUME NEW valid \in BOOLEAN, Create(s, valid) PROVE IInv'
      <3>1. saved + 1 \in Ids
        BY <2>2, <2>3 DEF Create, Save, Ids
      <3>2. QED
        BY <1>1, <2>3, <3>1, SaveHolds DEF Create, Plan
    <2>4. ASSUME NEW parent \in Ids, NEW valid \in BOOLEAN, Revise(s, parent, valid) PROVE IInv'
      <3>1. parent <= saved
        BY <2>4 DEF Revise, Exists
      <3>2. plan[parent] \in Plan
        BY <1>1, <3>1 DEF IInv, TypeOK
      <3>3. QED
        BY <1>1, <2>4, <3>2, SaveHolds DEF Revise, Plan
    <2>5. ASSUME NEW id \in Ids, ReviewCheck(s, id) \/ ApproveCheck(s, id) \/ ActivateCheck(s, id)
          PROVE  IInv'
      <3>1. id \in 0..saved /\ id # None
        BY <2>2, <2>5 DEF ReviewCheck, ApproveCheck, ActivateCheck, Begin, Exists, Ids, None
      <3>2. local' = [local EXCEPT ![s] = [id |-> id, prior |-> local[s].prior]]
        BY <1>1, <2>5 DEF ReviewCheck, ApproveCheck, ActivateCheck, Begin, IInv, TypeOK
      <3>3. UNCHANGED <<table, signed>>
        BY <2>5 DEF ReviewCheck, ApproveCheck, ActivateCheck, Begin
      <3>4. CASE ReviewCheck(s, id)
        <4>1. plan[id].valid /\ pc' = [pc EXCEPT ![s] = "review"]
          BY <3>4 DEF ReviewCheck, Begin, Goto
        <4>2. QED
          BY <1>1, <2>2, <3>1, <3>2, <3>3, <4>1, <2>0, LocalStep DEF Steps
      <3>5. CASE ApproveCheck(s, id)
        <4>1. Reviewed(id) /\ pc' = [pc EXCEPT ![s] = "approve"]
          BY <1>1, <3>5 DEF ApproveCheck, Begin, Goto, IInv, StatusEarned, Earned
        <4>2. QED
          BY <1>1, <2>2, <3>1, <3>2, <3>3, <4>1, <2>0, LocalStep DEF Steps
      <3>6. CASE ActivateCheck(s, id)
        <4>1. Signed(id) /\ pc' = [pc EXCEPT ![s] = "prior"]
          BY <1>1, <3>6 DEF ActivateCheck, MayActivate, Begin, Goto, IInv, StatusEarned, Earned
        <4>2. QED
          BY <1>1, <2>2, <3>1, <3>2, <3>3, <4>1, <2>0, LocalStep DEF Steps
      <3>7. QED
        BY <2>5, <3>4, <3>5, <3>6
    <2>6. PICK i \in 0..saved : i = local[s].id
      BY <2>2
    <2>7. PICK prior \in 0..saved : prior = local[s].prior
      BY <2>2
    <2>8. CASE Review(s)
      <3>1. i \in 1..saved /\ i \in Ids /\ plan[i].valid
        BY <1>1, <2>2, <2>6, <2>8 DEF Review, Goto, IInv, StepEarned
      <3>2. /\ UNCHANGED <<saved, plan, active>>
            /\ signed' = [signed EXCEPT ![i] = @ \cup {"review"}]
            /\ status' = [status EXCEPT ![i] = "reviewed"]
            /\ pc' = [pc EXCEPT ![s] = "idle"]
            /\ local' = [local EXCEPT ![s] = NoLocal]
        BY <2>6, <2>8 DEF Review, SetStatus, Finish, Goto
      <3>3. SignaturesKept
        BY <2>2, <3>2 DEF SignaturesKept
      <3>4. Earned("reviewed", i)'
        BY <2>2, <3>1, <3>2 DEF Earned, Reviewed, None
      <3>5. PICK mine \in [id : 0..saved, prior : 0..saved] : mine = NoLocal
        BY <2>2
      <3>6. local' = [local EXCEPT ![s] = mine]
        BY <3>2, <3>5
      <3>7. "idle" \in Steps /\ "reviewed" \in Statuses
        BY DEF Steps, Statuses
      <3>8. QED
        BY <1>1, <3>1, <3>2, <3>3, <3>4, <3>6, <3>7, <2>0, StatusStep
    <2>9. CASE Approve(s)
      <3>1. i \in 1..saved /\ i \in Ids /\ Reviewed(i)
        BY <1>1, <2>2, <2>6, <2>9 DEF Approve, Goto, IInv, StepEarned, Reviewed
      <3>2. /\ UNCHANGED <<saved, plan, active>>
            /\ signed' = [signed EXCEPT ![i] = @ \cup {"approve"}]
            /\ status' = [status EXCEPT ![i] = "approved"]
            /\ pc' = [pc EXCEPT ![s] = "idle"]
            /\ local' = [local EXCEPT ![s] = NoLocal]
        BY <2>6, <2>9 DEF Approve, SetStatus, Finish, Goto
      <3>3. SignaturesKept
        BY <2>2, <3>2 DEF SignaturesKept
      <3>4. Earned("approved", i)'
        BY <2>2, <3>1, <3>2 DEF Reviewed, Signed, Earned
      <3>5. PICK mine \in [id : 0..saved, prior : 0..saved] : mine = NoLocal
        BY <2>2
      <3>6. local' = [local EXCEPT ![s] = mine]
        BY <3>2, <3>5
      <3>7. "idle" \in Steps /\ "approved" \in Statuses
        BY DEF Steps, Statuses
      <3>8. QED
        BY <1>1, <3>1, <3>2, <3>3, <3>4, <3>6, <3>7, <2>0, StatusStep
    <2>10. CASE ActivatePrior(s)
      <3>1. Signed(i)
        BY <1>1, <2>6, <2>10 DEF ActivatePrior, Goto, IInv, StepEarned, Signed
      <3>2. PICK to \in {"supersede", "status"} :
              /\ pc' = [pc EXCEPT ![s] = to]
              /\ to = "supersede" => Supersedes(s)
        BY <2>10 DEF ActivatePrior, Goto
      <3>3. PICK a \in 0..saved : a = active
        BY <2>2
      <3>4. to = "supersede" => Signed(a)
        BY <1>1, <3>2, <3>3 DEF Supersedes, IInv, PointerEarned, Signed
      <3>5. /\ UNCHANGED <<table, signed>>
            /\ local' = [local EXCEPT ![s] = [id |-> i, prior |-> a]]
        <4>1. local[s] = [id |-> i, prior |-> local[s].prior]
          BY <1>1, <2>6 DEF IInv, TypeOK
        <4>2. [local[s] EXCEPT !.prior = active] = [id |-> i, prior |-> a]
          BY <4>1, <3>3
        <4>3. local' = [local EXCEPT ![s] = [local[s] EXCEPT !.prior = active]]
          BY <2>10 DEF ActivatePrior
        <4>4. QED
          BY <2>10, <4>2, <4>3 DEF ActivatePrior
      <3>6. QED
        BY <1>1, <3>1, <3>2, <3>4, <3>5, <2>0, LocalStep DEF Steps
    <2>11. CASE ActivateSupersede(s)
      <3>1. Signed(i) /\ Signed(prior)
        BY <1>1, <2>6, <2>7, <2>11 DEF ActivateSupersede, Goto, IInv, StepEarned, Signed
      <3>2. /\ UNCHANGED <<saved, plan, active, signed>>
            /\ status' = [status EXCEPT ![prior] = "superseded"]
            /\ pc' = [pc EXCEPT ![s] = "status"]
            /\ local' = [local EXCEPT ![s] = local[s]]
        BY <1>1, <2>7, <2>11 DEF ActivateSupersede, SetStatus, Goto, IInv, TypeOK
      <3>3. prior \in 1..saved /\ Earned("superseded", prior)'
        BY <2>2, <3>1, <3>2 DEF Earned, Signed
      <3>4. PICK mine \in [id : 0..saved, prior : 0..saved] : mine = local[s]
        BY <2>2
      <3>5. Signed(mine.id) /\ local' = [local EXCEPT ![s] = mine]
        BY <2>6, <3>1, <3>2, <3>4
      <3>6. SignaturesKept
        BY <2>2, <3>2 DEF SignaturesKept
      <3>7. QED
        BY <1>1, <3>2, <3>3, <3>5, <3>6, <2>0, StatusStep DEF Steps, Statuses
    <2>12. CASE ActivateStatus(s)
      <3>1. Signed(i)
        BY <1>1, <2>6, <2>12 DEF ActivateStatus, Goto, IInv, StepEarned, Signed
      <3>2. /\ UNCHANGED <<saved, plan, active, signed>>
            /\ status' = [status EXCEPT ![i] = "active"]
            /\ pc' = [pc EXCEPT ![s] = "pointer"]
            /\ local' = [local EXCEPT ![s] = local[s]]
        BY <1>1, <2>6, <2>12 DEF ActivateStatus, SetStatus, Goto, IInv, TypeOK
      <3>3. i \in 1..saved /\ Earned("active", i)'
        BY <2>2, <3>1, <3>2 DEF Earned, Signed
      <3>4. PICK mine \in [id : 0..saved, prior : 0..saved] : mine = local[s]
        BY <2>2
      <3>5. Signed(mine.id) /\ local' = [local EXCEPT ![s] = mine]
        BY <2>6, <3>1, <3>2, <3>4
      <3>6. SignaturesKept
        BY <2>2, <3>2 DEF SignaturesKept
      <3>7. QED
        BY <1>1, <3>2, <3>3, <3>5, <3>6, <2>0, StatusStep DEF Steps, Statuses
    <2>13. CASE ActivatePointer(s)
      <3>1. Signed(i)
        BY <1>1, <2>6, <2>13 DEF ActivatePointer, Goto, IInv, StepEarned, Signed
      <3>2. /\ active' = i
            /\ UNCHANGED <<saved, plan, status, signed>>
            /\ pc' = [pc EXCEPT ![s] = "idle"]
            /\ local' = [local EXCEPT ![s] = NoLocal]
        BY <2>6, <2>13 DEF ActivatePointer, Finish, Goto
      <3>3. TypeOK'
        BY <1>1, <2>0, <2>2, <3>2 DEF IInv, TypeOK, Steps
      <3>4. StatusEarned' /\ PointerEarned'
        BY <1>1, <3>1, <3>2 DEF IInv, StatusEarned, Earned, PointerEarned, Reviewed, Signed
      <3>5. StepEarned'
        BY <1>1, <3>2 DEF IInv, TypeOK, StepEarned, Reviewed, Signed
      <3>6. QED
        BY <3>3, <3>4, <3>5 DEF IInv
    <2>14. CASE Crash(s)
      <3>1. /\ UNCHANGED <<table, signed>>
            /\ pc' = [pc EXCEPT ![s] = "idle"]
            /\ local' = [local EXCEPT ![s] = [id |-> None, prior |-> None]]
        BY <2>14 DEF Crash, Finish, NoLocal
      <3>2. None \in 0..saved
        BY <2>2 DEF None
      <3>3. QED
        BY <1>1, <3>1, <3>2, <2>0, LocalStep DEF Steps
    <2>15. QED
      BY <2>1, <2>3, <2>4, <2>5, <2>8, <2>9, <2>10, <2>11, <2>12, <2>13, <2>14
  <1>4. QED
    BY <1>1, <1>2, <1>3

(* The invariant holds in every behaviour.                                 *)
THEOREM Invariance == Spec => []IInv
  <1>1. QED
    BY InitHolds, StepHolds, PTL DEF Spec

(* The tables and the locals of every service have their types.            *)
THEOREM TypesHold == Spec => []TypeOK
  <1>1. IInv => TypeOK
    BY DEF IInv
  <1>2. QED
    BY <1>1, Invariance, PTL

(* However services race and wherever they die, what is or was active, and *)
(* what the pointer names, is well formed, reviewed and approved.          *)
THEOREM ApprovalPrecedesEffect == Spec => []OnlyApprovedTakesEffect
  <1>1. IInv => OnlyApprovedTakesEffect
    BY DEF IInv, StatusEarned, Earned, PointerEarned, Signed, OnlyApprovedTakesEffect
  <1>2. QED
    BY <1>1, Invariance, PTL

----------------------------------------------------------------------------
(* While operations neither overlap nor die, the service at work knows the *)
(* statuses: nobody has changed what its check has found.                  *)

Alone == \A s, t \in Services : pc[s] # "idle" /\ pc[t] # "idle" => s = t
InStep == \A id \in Ids : status[id] = "active" <=> id = active
Quiet == \A s \in Services : pc[s] \notin {"status", "pointer"}
Found(s) ==
  /\ pc[s] = "review" => status[local[s].id] = "proposed"
  /\ pc[s] = "approve" => status[local[s].id] = "reviewed"
  /\ pc[s] \in {"prior", "supersede", "status"} => status[local[s].id] = "approved"
  /\ pc[s] = "supersede" => local[s].prior = active /\ active # local[s].id
  /\ pc[s] = "status" => \A id \in Ids : status[id] # "active"
  /\ pc[s] = "pointer" => \A id \in Ids : status[id] = "active" <=> id = local[s].id

Orderly == ~ disturbed => Alone /\ (Quiet => InStep) /\ \A s \in Services : Found(s)

(* A disturbance is never forgotten.                                       *)
LEMMA DisturbedForGood == TypeOK /\ Next /\ ~ disturbed' => ~ disturbed
  BY DEF Next, Create, Revise, Save, ReviewCheck, ApproveCheck, ActivateCheck, Begin,
         Review, Approve, ActivatePrior, ActivateSupersede, ActivateStatus, ActivatePointer,
         Crash, TypeOK

(* An operation that begins is the only one.                               *)
LEMMA BeginsAlone ==
  ASSUME NEW s \in Services, NEW id \in Ids, NEW to, Begin(s, id, to), ~ disturbed'
  PROVE  \A t \in Services : pc[t] = "idle"
  BY DEF Begin

(* When only s is at work after a step, it is enough to look at s.         *)
LEMMA OnlyOneMoves ==
  ASSUME TypeOK, NEW s \in Services, NEW to \in Steps,
         pc' = [pc EXCEPT ![s] = to],
         \A t \in Services \ {s} : pc[t] = "idle",
         Found(s)', (Quiet => InStep)'
  PROVE  Orderly'
  <1>1. \A t \in Services \ {s} : pc'[t] = "idle"
    BY DEF TypeOK
  <1>2. Alone'
    BY <1>1 DEF Alone
  <1>3. ASSUME NEW t \in Services PROVE Found(t)'
    <2>1. CASE t = s
      BY <2>1
    <2>2. CASE t # s
      BY <1>1, <2>2 DEF Found
    <2>3. QED
      BY <2>1, <2>2
  <1>4. QED
    BY <1>2, <1>3 DEF Orderly

LEMMA InitIsOrderly == Init => Orderly
  <1>1. SUFFICES ASSUME Init PROVE Orderly
    OBVIOUS
  <1>2. InStep
    BY <1>1 DEF Init, InStep, Ids, None, Unsaved
  <1>3. \A s \in Services : pc[s] = "idle"
    BY <1>1 DEF Init
  <1>4. QED
    BY <1>2, <1>3 DEF Orderly, Alone, Found

(* A revision that is saved meanwhile has a status of its own.             *)
LEMMA SaveIsOrderly ==
  ASSUME IInv, Orderly, NEW s \in Services, NEW p \in Plan, Save(s, p), ~ disturbed
  PROVE  Orderly'
  <1>1. saved' \in Ids /\ saved' = saved + 1 /\ saved \in Nat
    BY DEF IInv, TypeOK, Save, Ids
  <1>2. status' = [status EXCEPT ![saved'] = "proposed"] /\ UNCHANGED <<active, pc, local>>
    BY DEF Save
  <1>3. /\ status[saved'] # "active"
        /\ \A id \in Ids : id # saved' => status'[id] = status[id]
        /\ status'[saved'] = "proposed"
    BY <1>1, <1>2 DEF IInv, TypeOK, Unsaved
  <1>4. /\ \A t \in Services : local[t].id \in 0..saved
        /\ active # saved'
    BY <1>1 DEF IInv, TypeOK
  <1>5. Alone' /\ (Quiet => InStep)'
    BY <1>1, <1>2, <1>3, <1>4 DEF Orderly, Alone, Quiet, InStep
  <1>6. ASSUME NEW t \in Services, pc[t] # "idle" PROVE Found(t)'
    <2>1. local[t].id \in Ids /\ local[t].id # saved'
      BY <1>1, <1>4, <1>6 DEF IInv, StepEarned, TypeOK, Steps, Reviewed, Signed, None, Ids
    <2>2. Found(t)
      BY <1>6 DEF Orderly
    <2>3. QED
      BY <2>1, <2>2, <1>1, <1>2, <1>3 DEF Found
  <1>7. \A t \in Services : pc[t] = "idle" => Found(t)'
    BY <1>2 DEF Found
  <1>8. QED
    BY <1>5, <1>6, <1>7 DEF Orderly

LEMMA StepIsOrderly == IInv /\ Orderly /\ [Next]_vars => Orderly'
  <1>1. SUFFICES ASSUME IInv, Orderly, [Next]_vars, ~ disturbed' PROVE Orderly'
    BY DEF Orderly
  <1>2. CASE UNCHANGED vars
    BY <1>1, <1>2 DEF Orderly, Alone, Quiet, InStep, Found, vars
  <1>3. CASE Next
    <2>1. ~ disturbed
      BY <1>1, <1>3, DisturbedForGood DEF IInv
    <2>2. Alone /\ (Quiet => InStep) /\ \A s \in Services : Found(s)
      BY <1>1, <2>1 DEF Orderly
    <2>3. PICK s \in Services :
            \/ \E valid \in BOOLEAN : Create(s, valid)
            \/ \E parent \in Ids, valid \in BOOLEAN : Revise(s, parent, valid)
            \/ \E id \in Ids : ReviewCheck(s, id) \/ ApproveCheck(s, id) \/ ActivateCheck(s, id)
            \/ Review(s)
            \/ Approve(s)
            \/ ActivatePrior(s)
            \/ ActivateSupersede(s)
            \/ ActivateStatus(s)
            \/ ActivatePointer(s)
            \/ Crash(s)
      BY <1>3 DEF Next
    <2>4. /\ saved \in 0..MaxRevisions /\ active \in 0..saved
          /\ pc \in [Services -> Steps]
          /\ local \in [Services -> [id : 0..saved, prior : 0..saved]]
          /\ status \in [Ids -> Statuses \cup {Unsaved}]
          /\ TypeOK
      BY <1>1 DEF IInv, TypeOK
    <2>5. pc[s] # "idle" =>
            /\ \A t \in Services \ {s} : pc[t] = "idle"
            /\ local[s].id \in Ids
            /\ Found(s)
      BY <1>1, <2>2, <2>4 DEF Alone, IInv, StepEarned, Reviewed, Signed, Steps, Ids, None
    <2>6. ASSUME NEW valid \in BOOLEAN, Create(s, valid) PROVE Orderly'
      <3>1. saved + 1 \in Ids
        BY <2>4, <2>6 DEF Create, Save, Ids
      <3>2. QED
        BY <1>1, <2>1, <2>6, <3>1, SaveIsOrderly DEF Create, Plan
    <2>7. ASSUME NEW parent \in Ids, NEW valid \in BOOLEAN, Revise(s, parent, valid) PROVE Orderly'
      <3>1. plan[parent] \in Plan
        BY <1>1, <2>7 DEF Revise, Exists, IInv, TypeOK
      <3>2. QED
        BY <1>1, <2>1, <2>7, <3>1, SaveIsOrderly DEF Revise, Plan
    <2>8. ASSUME NEW id \in Ids, ReviewCheck(s, id) \/ ApproveCheck(s, id) \/ ActivateCheck(s, id)
          PROVE  Orderly'
      <3>1. PICK to \in {"review", "approve", "prior"} :
              /\ Begin(s, id, to)
              /\ to = "review" => status[id] = "proposed"
              /\ to = "approve" => status[id] = "reviewed"
              /\ to = "prior" => status[id] = "approved"
        BY <2>8 DEF ReviewCheck, ApproveCheck, ActivateCheck, MayReview, MayActivate
      <3>2. \A t \in Services : pc[t] = "idle"
        BY <1>1, <3>1, BeginsAlone
      <3>3. pc' = [pc EXCEPT ![s] = to] /\ UNCHANGED <<status, active>>
        BY <3>1 DEF Begin, Goto, table
      <3>4. local'[s].id = id
        BY <2>4, <3>1 DEF Begin
      <3>5. Found(s)'
        BY <2>4, <3>1, <3>3, <3>4 DEF Found
      <3>6. InStep'
        BY <2>2, <3>2, <3>3 DEF Quiet, InStep
      <3>7. QED
        BY <2>4, <3>2, <3>3, <3>5, <3>6, OnlyOneMoves DEF Steps
    <2>9. CASE Review(s) \/ Approve(s)
      <3>1. /\ pc[s] \in {"review", "approve"} /\ pc' = [pc EXCEPT ![s] = "idle"]
            /\ UNCHANGED active
            /\ \E to \in {"reviewed", "approved"} : status' = [status EXCEPT ![local[s].id] = to]
        BY <2>9 DEF Review, Approve, Goto, SetStatus
      <3>2. InStep /\ status[local[s].id] # "active"
        BY <2>2, <2>5, <3>1 DEF Quiet, Found
      <3>3. InStep'
        BY <2>4, <2>5, <3>1, <3>2 DEF InStep
      <3>4. Found(s)'
        BY <2>4, <3>1 DEF Found
      <3>5. QED
        BY <2>4, <2>5, <3>1, <3>3, <3>4, OnlyOneMoves DEF Steps
    <2>10. CASE ActivatePrior(s)
      <3>1. /\ pc[s] = "prior" /\ UNCHANGED <<status, active>>
            /\ local' = [local EXCEPT ![s].prior = active]
            /\ pc' = [pc EXCEPT ![s] = IF Supersedes(s) THEN "supersede" ELSE "status"]
        BY <2>10 DEF ActivatePrior, Goto, table
      <3>2. InStep /\ status[local[s].id] = "approved"
        BY <2>2, <2>5, <3>1 DEF Quiet, Found
      <3>3. local'[s].prior = active /\ local'[s].id = local[s].id
        BY <2>4, <3>1
      <3>4. CASE Supersedes(s)
        <4>1. Found(s)'
          BY <2>4, <3>1, <3>2, <3>3, <3>4 DEF Found, Supersedes
        <4>2. QED
          BY <2>4, <2>5, <3>1, <3>2, <3>4, <4>1, OnlyOneMoves DEF Steps, InStep
      <3>5. CASE ~ Supersedes(s)
        <4>1. \A id \in Ids : status[id] # "active"
          BY <2>5, <3>1, <3>2, <3>5 DEF InStep, Supersedes, Ids, None
        <4>2. Found(s)'
          BY <2>4, <3>1, <3>2, <3>3, <3>5, <4>1 DEF Found
        <4>3. QED
          BY <2>4, <2>5, <3>1, <3>2, <3>5, <4>2, OnlyOneMoves DEF Steps, InStep
      <3>6. QED
        BY <3>4, <3>5
    <2>11. CASE ActivateSupersede(s)
      <3>1. /\ pc[s] = "supersede" /\ pc' = [pc EXCEPT ![s] = "status"]
            /\ status' = [status EXCEPT ![local[s].prior] = "superseded"]
            /\ UNCHANGED <<active, local>>
        BY <2>11 DEF ActivateSupersede, Goto, SetStatus
      <3>2. /\ InStep /\ status[local[s].id] = "approved"
            /\ local[s].prior = active /\ active # local[s].id
        BY <2>2, <2>5, <3>1 DEF Quiet, Found
      <3>3. \A id \in Ids : status'[id] # "active"
        BY <2>4, <3>1, <3>2 DEF InStep
      <3>4. status'[local[s].id] = "approved"
        BY <2>4, <2>5, <3>1, <3>2
      <3>5. Found(s)' /\ ~ Quiet'
        BY <2>4, <3>1, <3>3, <3>4 DEF Found, Quiet
      <3>6. QED
        BY <2>4, <2>5, <3>1, <3>5, OnlyOneMoves DEF Steps
    <2>12. CASE ActivateStatus(s)
      <3>1. /\ pc[s] = "status" /\ pc' = [pc EXCEPT ![s] = "pointer"]
            /\ status' = [status EXCEPT ![local[s].id] = "active"]
            /\ UNCHANGED local
        BY <2>12 DEF ActivateStatus, Goto, SetStatus
      <3>2. \A id \in Ids : status'[id] = "active" <=> id = local[s].id
        BY <2>4, <2>5, <3>1 DEF Found
      <3>3. Found(s)' /\ ~ Quiet'
        BY <2>4, <3>1, <3>2 DEF Found, Quiet
      <3>4. QED
        BY <2>4, <2>5, <3>1, <3>3, OnlyOneMoves DEF Steps
    <2>13. CASE ActivatePointer(s)
      <3>1. /\ pc[s] = "pointer" /\ pc' = [pc EXCEPT ![s] = "idle"]
            /\ active' = local[s].id /\ UNCHANGED status
        BY <2>13 DEF ActivatePointer, Goto
      <3>2. InStep' /\ Found(s)'
        BY <2>4, <2>5, <3>1 DEF Found, InStep
      <3>3. QED
        BY <2>4, <2>5, <3>1, <3>2, OnlyOneMoves DEF Steps
    <2>14. ~ Crash(s)
      BY <1>1 DEF Crash
    <2>15. QED
      BY <2>3, <2>6, <2>7, <2>8, <2>9, <2>10, <2>11, <2>12, <2>13, <2>14
  <1>4. QED
    BY <1>1, <1>2, <1>3

LEMMA AlwaysOrderly == Spec => [](IInv /\ Orderly)
  <1>1. Init => IInv /\ Orderly
    BY InitHolds, InitIsOrderly
  <1>2. IInv /\ Orderly /\ [Next]_vars => (IInv /\ Orderly)'
    BY StepHolds, StepIsOrderly
  <1>3. QED
    BY <1>1, <1>2, PTL DEF Spec

(* Operations that neither overlap nor die keep the pointer and the        *)
(* statuses in step: the pointer is on the one active revision whenever    *)
(* nothing is under way, and there are never two.                          *)
THEOREM ActivationStaysOrderly == Spec => []ActivationIsOrderly
  <1>1. IInv /\ Orderly => ActivationIsOrderly
    <2>1. SUFFICES ASSUME IInv, Orderly, ~ disturbed PROVE
            /\ ActiveIsActive
            /\ \A x, y \in Ids : status[x] = "active" /\ status[y] = "active" => x = y
      BY DEF ActivationIsOrderly
    <2>2. (Quiet => InStep) /\ \A s \in Services : Found(s)
      BY <2>1 DEF Orderly
    <2>3. ActiveIsActive
      BY <2>2 DEF ActiveIsActive, Quiet, InStep
    <2>4. \A x, y \in Ids : status[x] = "active" /\ status[y] = "active" => x = y
      <3>1. CASE Quiet
        BY <2>2, <3>1 DEF InStep
      <3>2. CASE ~ Quiet
        <4>1. PICK s \in Services : pc[s] \in {"status", "pointer"}
          BY <3>2 DEF Quiet
        <4>2. QED
          BY <2>2, <4>1 DEF Found
      <3>3. QED
        BY <3>1, <3>2
    <2>5. QED
      BY <2>3, <2>4
  <1>2. QED
    BY <1>1, AlwaysOrderly, PTL

(* And they take every revision through its lifecycle in one direction.    *)
THEOREM StatusMovesForward == Spec => StatusOnlyForward
  <1>1. IInv /\ Orderly /\ [Next]_vars =>
          [\A id \in Ids : ~ disturbed /\ id <= saved /\ status'[id] # status[id]
                             => Rank[status'[id]] > Rank[status[id]]]_vars
    <2>1. SUFFICES ASSUME IInv, Orderly, Next, ~ disturbed,
                          NEW id \in Ids, id <= saved, status'[id] # status[id]
                   PROVE  Rank[status'[id]] > Rank[status[id]]
      OBVIOUS
    <2>2. TypeOK /\ (Quiet => InStep) /\ Alone /\ \A s \in Services : Found(s)
      BY <2>1 DEF IInv, Orderly
    <2>3. PICK s \in Services :
            \/ \E valid \in BOOLEAN : Create(s, valid)
            \/ \E parent \in Ids, valid \in BOOLEAN : Revise(s, parent, valid)
            \/ Review(s)
            \/ Approve(s)
            \/ ActivateSupersede(s)
            \/ ActivateStatus(s)
      BY <2>1 DEF Next, ReviewCheck, ApproveCheck, ActivateCheck, Begin, ActivatePrior,
                  ActivatePointer, Crash, table
    <2>4. \A p : ~ Save(s, p)
      BY <2>1, <2>2 DEF Save, TypeOK, Ids
    <2>5. CASE Review(s)
      <3>1. pc[s] = "review" /\ status' = [status EXCEPT ![local[s].id] = "reviewed"]
        BY <2>5 DEF Review, Goto, SetStatus
      <3>2. status[id] = "proposed" /\ status'[id] = "reviewed"
        BY <2>1, <2>2, <3>1 DEF Found, TypeOK
      <3>3. QED
        BY <3>2 DEF Rank
    <2>6. CASE Approve(s)
      <3>1. pc[s] = "approve" /\ status' = [status EXCEPT ![local[s].id] = "approved"]
        BY <2>6 DEF Approve, Goto, SetStatus
      <3>2. status[id] = "reviewed" /\ status'[id] = "approved"
        BY <2>1, <2>2, <3>1 DEF Found, TypeOK
      <3>3. QED
        BY <3>2 DEF Rank
    <2>7. CASE ActivateSupersede(s)
      <3>1. pc[s] = "supersede" /\ status' = [status EXCEPT ![local[s].prior] = "superseded"]
        BY <2>7 DEF ActivateSupersede, Goto, SetStatus
      <3>2. Quiet
        BY <2>2, <3>1 DEF Alone, Quiet
      <3>3. status[id] = "active" /\ status'[id] = "superseded"
        BY <2>1, <2>2, <3>1, <3>2 DEF Found, InStep, TypeOK
      <3>4. QED
        BY <3>3 DEF Rank
    <2>8. CASE ActivateStatus(s)
      <3>1. pc[s] = "status" /\ status' = [status EXCEPT ![local[s].id] = "active"]
        BY <2>8 DEF ActivateStatus, Goto, SetStatus
      <3>2. status[id] = "approved" /\ status'[id] = "active"
        BY <2>1, <2>2, <3>1 DEF Found, TypeOK
      <3>3. QED
        BY <3>2 DEF Rank
    <2>9. QED
      BY <2>3, <2>4, <2>5, <2>6, <2>7, <2>8 DEF Create, Revise
  <1>2. QED
    BY <1>1, AlwaysOrderly, PTL DEF Spec, StatusOnlyForward

=============================================================================
