----------------------------- MODULE Convergence -----------------------------
(***************************************************************************)
(* The pure rules of src/src/extendcodeagent/convergence/service.py and    *)
(* traceability/service.py: how far a target is from being true of a twin  *)
(* revision, and what to do next.                                          *)
(*                                                                         *)
(* elements: sequence of [expects : sequence of refs, mandatory, verify :  *)
(* booleans, after : set of indices it depends on], in the order of their  *)
(* ids.  actual: [refs, source].  verification: ref -> [status, source],   *)
(* the last piece of evidence a caller gave for the ref.                   *)
(*                                                                         *)
(* StaleCounts is no part of the model: PROJECT.json swaps it in for       *)
(* VerifiedState.                                                          *)
(***************************************************************************)
EXTENDS Naturals, Sequences

StaleCounts(evidence, actual) == "verified"

(* Verification holds at the source revision it was made at.               *)
VerifiedState(evidence, actual) ==
  IF evidence.source = actual.source THEN "verified" ELSE "stale"

(* _best_evidence takes the first matched ref that has evidence, and all   *)
(* expected refs are matched where it is asked for.                        *)
EvidenceFor(element, verification) ==
  LET with == { k \in DOMAIN element.expects : element.expects[k] \in DOMAIN verification }
  IN  { verification[element.expects[k]] : k \in { j \in with : \A i \in with : j <= i } }

StateOf(element, actual, verification) ==
  LET matched == { k \in DOMAIN element.expects : element.expects[k] \in actual.refs }
      found == EvidenceFor(element, verification)
      Judged(e) ==
        CASE e.status = "unavailable" -> "unverified"
          [] e.status = "failed"      -> "divergent"
          [] e.status = "observed"    -> "observed"
          [] e.status = "verified"    -> VerifiedState(e, actual)
          [] OTHER                    -> "stale"
  IN  CASE matched = {} -> IF element.mandatory THEN "blocked" ELSE "absent"
        [] matched # {} /\ matched # DOMAIN element.expects -> "partial"
        [] OTHER -> IF ~ element.verify THEN "materialized"
                    ELSE IF found = {} THEN "unverified"
                    ELSE Judged(CHOOSE e \in found : TRUE)

(* The elements that depend on changed ones, however indirectly.           *)
Downstream(elements, changed) ==
  LET Closed(S) == \A i \in DOMAIN elements :
                     elements[i].after \cap (changed \cup S) # {} => i \in S
  IN  { i \in DOMAIN elements : \A S \in SUBSET DOMAIN elements : Closed(S) => i \in S }

(* flags: [unsafe, decision, invalid : booleans, changed : elements whose  *)
(* interface changed].  "unverified" is MATERIALIZED with the diagnostic   *)
(* verification_unavailable.                                               *)
NoFlags == [unsafe |-> FALSE, decision |-> FALSE, invalid |-> FALSE, changed |-> {}]

Decide(elements, states, flags) ==
  LET In(S) == { i \in DOMAIN states : states[i] \in S }
      unfinished == {"absent", "blocked", "partial", "observed", "stale", "unverified"}
  IN  CASE flags.unsafe -> [decision |-> "halt", affected |-> {}]
        [] ~ flags.unsafe /\ flags.decision -> [decision |-> "request_decision", affected |-> {}]
        [] ~ flags.unsafe /\ ~ flags.decision /\ flags.invalid ->
             [decision |-> "revise_target", affected |-> {}]
        [] OTHER ->
             IF flags.changed # {}
               THEN [decision |-> "replan_downstream",
                     affected |-> flags.changed \cup Downstream(elements, flags.changed)]
             ELSE IF In({"divergent"}) # {}
               THEN [decision |-> "repair_current", affected |-> In({"divergent"})]
             ELSE IF In(unfinished) # {}
               THEN [decision |-> "continue", affected |-> In(unfinished)]
             ELSE [decision |-> "complete", affected |-> {}]

EvaluateConvergence(elements, actual, verification, flags) ==
  LET states == [i \in DOMAIN elements |-> StateOf(elements[i], actual, verification)]
  IN  [states |-> states, decision |-> Decide(elements, states, flags).decision,
       affected |-> Decide(elements, states, flags).affected]

(***************************************************************************)
(* Project requirements: evidence per requirement, [given, external,       *)
(* statuses, source, refs], becomes evidence per ref.                      *)
(***************************************************************************)

StatusOf(item, source) ==
  CASE item.external -> "observed"
    [] ~ item.external /\ "failed" \in item.statuses -> "failed"
    [] OTHER -> IF item.source # source THEN "stale"
                ELSE IF "verified" \in item.statuses THEN "verified"
                ELSE IF "observed" \in item.statuses THEN "observed"
                ELSE "unavailable"

(* Later requirements overwrite earlier ones on a ref they share.          *)
VerificationOf(items, source) ==
  LET Speaks(ref) == { i \in DOMAIN items : items[i].given /\ ref \in items[i].refs }
      Last(S) == CHOOSE i \in S : \A j \in S : j <= i
      refs == UNION { items[i].refs : i \in { j \in DOMAIN items : items[j].given } }
  IN  [ref \in refs |-> LET item == items[Last(Speaks(ref))]
                        IN  [status |-> StatusOf(item, source), source |-> item.source]]

EvaluateRequirements(elements, actual, items) ==
  EvaluateConvergence(elements, actual, VerificationOf(items, actual.source), NoFlags)

=============================================================================
