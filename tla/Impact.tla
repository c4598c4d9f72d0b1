-------------------------------- MODULE Impact --------------------------------
(***************************************************************************)
(* What a change touches: assess_impact of GraphAnalysisService            *)
(* (analysis/service.py), one step for each entry it takes off its work    *)
(* lists and for each edge it then looks at, and what is concluded from    *)
(* its report: the tests to run (select_tests of testing/service.py) and   *)
(* the verification a change requires (verification/service.py).           *)
(*                                                                         *)
(* A graph is [node, edges, same]: node maps a reference that exists to    *)
(* [kind, file, body, confidence, inferred], an edge is [from, to, type,   *)
(* confidence, inferred], and same maps a reference to the references that *)
(* the resolver holds equivalent to it, which may name no node.            *)
(* Confidences are tenths.  The edges of a node are looked at in any order *)
(* (the code sorts them by name).                                          *)
(*                                                                         *)
(* RelaxedOnce and ImpactedDirect are no part of the model: each is a      *)
(* plausible mistake in the operator after it, swapped in by PROJECT.json. *)
(***************************************************************************)
EXTENDS Naturals, FiniteSets, SequencesExt

CONSTANTS
  Changes,        (* Pairs of graphs, [base, candidate].                    *)
  MaxDepth,       (* ImpactQuery: max_depth,                                *)
  Floor,          (* min_confidence and                                     *)
  InferredFloor   (* min_inferred_confidence.                               *)

(* Finitely many references, to which everything in a graph refers.        *)
GraphOver(graph, refs) ==
  /\ DOMAIN graph.node \subseteq refs
  /\ \A e \in graph.edges : /\ {e.from, e.to} \subseteq refs
                            /\ e.confidence \in 0..10 /\ e.inferred \in BOOLEAN
  /\ graph.same \in [refs -> SUBSET refs]

ASSUME ImpactAssumption ==
  /\ MaxDepth \in Nat /\ {Floor, InferredFloor} \subseteq 0..10
  /\ \A c \in Changes :
       LET refs == DOMAIN c.candidate.same
       IN IsFiniteSet(refs) /\ GraphOver(c.base, refs) /\ GraphOver(c.candidate, refs)

VARIABLES
  change,      (* The change that is assessed.                              *)
  phase,       (* forward, reverse, effects, done.                          *)
  queue,       (* The work list of the phase.                               *)
  current,     (* The entry being expanded and                              *)
  work,        (* its edges still to be looked at.                          *)
  roots,       (* traversal_seeds.                                          *)
  reached,     (* The fields depth, path_confidence, inferred_path, paths.  *)
  effects      (* visited and found of _side_effects.                       *)

impactVars == <<change, phase, queue, current, work, roots, reached, effects>>

Graph == change.candidate
Node == Graph.node
Kind(ref) == IF ref \in DOMAIN Node THEN Node[ref].kind ELSE "none"

Containers == {"file", "module"}
Executables == {"function", "method", "api_route", "handler"}
SideEffects == {"side_effect", "resource", "api_call", "db_effect"}
Tests == {"test", "test_intent"}
Public == {"api_route", "api_schema", "config", "feature_flag"}
Uncertain == 7
Certain == 10

Weaker(m, n) == IF m <= n THEN m ELSE n

(* _edge_meets_confidence.                                                  *)
Meets(e) == e.confidence >= Floor /\ (e.inferred => e.confidence >= InferredFloor)

Out(ref) == {e \in Graph.edges : e.from = ref /\ Meets(e)}
In(ref) == {e \in Graph.edges : e.to = ref /\ Meets(e)}

-----------------------------------------------------------------------------
(* derive_semantic_change_set.                                              *)

EntityChange(ref, entry, op) ==
  [ref |-> ref, kind |-> entry.kind, file |-> entry.file, op |-> op,
   confidence |-> entry.confidence, inferred |-> entry.inferred]

EntityChanges(base, candidate) ==
  {EntityChange(ref, candidate[ref], "added") : ref \in DOMAIN candidate \ DOMAIN base}
  \cup {EntityChange(ref, base[ref], "removed") : ref \in DOMAIN base \ DOMAIN candidate}
  \cup {EntityChange(ref, candidate[ref], "changed") :
          ref \in {r \in DOMAIN base \cap DOMAIN candidate : base[r] # candidate[r]}}

(* _expand_changed_file_uncertainty: whatever else a changed file declares  *)
(* may have changed.                                                        *)
ExpandUncertainty(entities, candidate) ==
  LET files == {x.file : x \in {y \in entities : y.kind = "file" /\ y.op = "changed"}}
      silent == {ref \in DOMAIN candidate :
                   /\ candidate[ref].file \in files /\ candidate[ref].kind \notin Containers
                   /\ \A x \in entities : x.ref # ref}
  IN entities \cup
       {[EntityChange(ref, candidate[ref], "changed") EXCEPT
           !.confidence = Weaker(@, 5), !.inferred = TRUE] : ref \in silent}

Entities(c) == ExpandUncertainty(EntityChanges(c.base.node, c.candidate.node), c.candidate.node)

(* Of a relation that is in both, the one of the candidate.                 *)
RelationChanges(c) ==
  (c.candidate.edges \ c.base.edges)
  \cup {e \in c.base.edges : \A f \in c.candidate.edges :
          <<f.from, f.to, f.type>> # <<e.from, e.to, e.type>>}

Unresolved(c) ==
  {x.ref : x \in {y \in Entities(c) : y.inferred}}
  \cup UNION {{e.from, e.to} : e \in {f \in RelationChanges(c) : f.inferred}}

Changed(c) == {x.ref : x \in Entities(c)}

-----------------------------------------------------------------------------
(* assess_impact of everything the change set names.                        *)

Same(ref) == Graph.same[ref]
Seeds == Changed(change) \cup UNION {Same(ref) : ref \in Changed(change)}

ImpactInit ==
  /\ change \in Changes
  /\ phase = "forward" /\ queue = SetToSeq(Seeds)
  /\ current = "none" /\ work = {}
  /\ roots = [ref \in Seeds |-> 0]
  /\ reached = <<>> /\ effects = <<>>

(* What is handled by a changed entity implements it.                       *)
Forward ==
  /\ phase = "forward" /\ queue # <<>>
  /\ LET ref == Head(queue)
         targets == {e.to : e \in {f \in Out(ref) : /\ f.type = "handled_by"
                                                    /\ roots[ref] < MaxDepth}} \ DOMAIN roots
     IN /\ roots' = [t \in DOMAIN roots \cup targets |->
                       IF t \in targets THEN roots[ref] + 1 ELSE roots[t]]
        /\ queue' = Tail(queue) \o SetToSeq(targets)
  /\ UNCHANGED <<change, phase, current, work, reached, effects>>

TurnBack ==
  /\ phase = "forward" /\ queue = <<>>
  /\ phase' = "reverse"
  /\ queue' = SetToSeq(DOMAIN roots)
  /\ reached' = [ref \in DOMAIN roots |->
                   [depth |-> 0, confidence |-> Certain, inferred |-> FALSE, path |-> <<>>]]
  /\ UNCHANGED <<change, current, work, roots, effects>>

Dequeue ==
  /\ phase = "reverse" /\ work = {} /\ queue # <<>>
  /\ current' = Head(queue) /\ queue' = Tail(queue)
  /\ work' = IF reached[Head(queue)].depth < MaxDepth THEN In(Head(queue)) ELSE {}
  /\ UNCHANGED <<change, phase, roots, reached, effects>>

Candidate(e) ==
  [depth |-> reached[current].depth + 1,
   confidence |-> Weaker(reached[current].confidence, e.confidence),
   inferred |-> reached[current].inferred \/ e.inferred,
   path |-> Append(reached[current].path, e)]

RelaxedOnce(e) == e.from \in DOMAIN reached

(* What is known of the edge's source is nearer, or as near and as sure.    *)
KnownBetter(e) ==
  /\ e.from \in DOMAIN reached
  /\ \/ reached[e.from].depth < Candidate(e).depth
     \/ /\ reached[e.from].depth = Candidate(e).depth
        /\ reached[e.from].confidence >= Candidate(e).confidence

(* Its equivalents are as far, unless they have been reached already.       *)
Relax(e) ==
  /\ phase = "reverse" /\ e \in work
  /\ work' = work \ {e}
  /\ IF KnownBetter(e) THEN UNCHANGED <<reached, queue>>
     ELSE LET new == Same(e.from) \ (DOMAIN reached \cup {e.from}) IN
          /\ reached' = [ref \in DOMAIN reached \cup {e.from} \cup new |->
                           IF ref \in {e.from} \cup new THEN Candidate(e) ELSE reached[ref]]
          /\ queue' = Append(queue, e.from) \o SetToSeq(new)
  /\ UNCHANGED <<change, phase, current, roots, effects>>

(* _side_effects starts from the seeds and every executable that is reached.*)
EffectRoots == DOMAIN roots \cup {ref \in DOMAIN reached : Kind(ref) \in Executables}

SeekEffects ==
  /\ phase = "reverse" /\ work = {} /\ queue = <<>>
  /\ phase' = "effects"
  /\ queue' = SetToSeq({[ref |-> ref, depth |-> 0, confidence |-> Certain, inferred |-> FALSE] :
                          ref \in EffectRoots})
  /\ effects' = [visited |-> [ref \in EffectRoots |-> Certain], found |-> <<>>]
  /\ UNCHANGED <<change, current, work, roots, reached>>

Effect ==
  /\ phase = "effects" /\ work = {} /\ queue # <<>>
  /\ current' = Head(queue) /\ queue' = Tail(queue)
  /\ work' = IF Head(queue).depth < MaxDepth THEN Out(Head(queue).ref) ELSE {}
  /\ UNCHANGED <<change, phase, roots, reached, effects>>

(* The last way to an effect is the one it is reported with.                *)
Follow(e) ==
  /\ phase = "effects" /\ e \in work
  /\ work' = work \ {e}
  /\ LET way == [ref |-> e.to, depth |-> current.depth + 1,
                 confidence |-> Weaker(current.confidence, e.confidence),
                 inferred |-> current.inferred \/ e.inferred]
         surer == e.to \notin DOMAIN effects.visited \/ effects.visited[e.to] < way.confidence
     IN /\ effects' =
             [visited |-> [ref \in DOMAIN effects.visited \cup {e.to} |->
                             IF ref = e.to /\ surer THEN way.confidence
                             ELSE effects.visited[ref]],
              found |-> [ref \in DOMAIN effects.found
                                   \cup (IF Kind(e.to) \in SideEffects THEN {e.to} ELSE {}) |->
                           IF ref = e.to THEN way ELSE effects.found[ref]]]
        /\ queue' = IF surer THEN Append(queue, way) ELSE queue
  /\ UNCHANGED <<change, phase, current, roots, reached>>

Conclude ==
  /\ phase = "effects" /\ work = {} /\ queue = <<>>
  /\ phase' = "done"
  /\ UNCHANGED <<change, queue, current, work, roots, reached, effects>>

ImpactNext ==
  \/ Forward \/ TurnBack \/ Dequeue \/ SeekEffects \/ Effect \/ Conclude
  \/ \E e \in work : Relax(e) \/ Follow(e)

ImpactSpec == ImpactInit /\ [][ImpactNext]_impactVars

-----------------------------------------------------------------------------
(* The report.                                                              *)

Implementations == DOMAIN roots \ Seeds

(* The items of the report; those that implement what changed count as      *)
(* direct.                                                                  *)
Items ==
  {ref \in (DOMAIN reached \ DOMAIN roots) \cup Implementations :
     ref \in DOMAIN Node /\ Kind(ref) \notin Containers}

Direct == {ref \in Items : reached[ref].depth <= 1}
Transitive == Items \ Direct
ShownInferred(ref) == reached[ref].inferred \/ Node[ref].inferred
Requirements == {ref \in Items : Kind(ref) = "requirement"}
RecommendedTests == {ref \in Items : Kind(ref) = "test"}
Uncertainty ==
  {ref \in Items : \/ ShownInferred(ref) \/ Node[ref].confidence < 5
                   \/ reached[ref].confidence < Uncertain}
Found == DOMAIN effects.found

(* select_tests.                                                            *)
Confidence(ref) == Weaker(Node[ref].confidence, reached[ref].confidence)
Fallback ==
  IF RecommendedTests = {} \/ \E ref \in RecommendedTests : Confidence(ref) < Uncertain
  THEN "full_suite" ELSE "none"

-----------------------------------------------------------------------------
(* derive_required_verification_set.                                        *)

ImpactedDirect == Direct
Impacted == Direct \cup Transitive

ObligationOf(x) ==
  [type |-> IF x.kind \in Tests THEN "test_intent"
            ELSE IF x.kind \in Public THEN "public_contract" ELSE "local_behavior",
   ref |-> x.ref, uncertain |-> x.inferred]

Obligations ==
  {ObligationOf(x) : x \in Entities(change)}
  \cup {[type |-> "consumer_behavior", ref |-> ref, uncertain |-> ShownInferred(ref)] :
          ref \in {r \in Impacted : Kind(r) \notin Tests}}
  \cup {[type |-> "requirement", ref |-> ref, uncertain |-> FALSE] : ref \in Requirements}
  \cup {[type |-> "side_effect", ref |-> ref, uncertain |-> FALSE] : ref \in Found}
  \cup {[type |-> "uncertainty_boundary", ref |-> ref, uncertain |-> TRUE] :
          ref \in Unresolved(change)}

Coverable == {o \in Obligations : o.type \in {"local_behavior", "consumer_behavior", "test_intent"}}

(* Every recommended test is accepted for everything a test can cover.      *)
Accepted(obligation) == IF obligation \in Coverable THEN RecommendedTests ELSE {}
Uncovered == {o \in Obligations : Accepted(o) = {}}

-----------------------------------------------------------------------------
(* Correctness.                                                             *)

(* An edge leads to its source and what is equivalent to it.               *)
LeadsTo(e, ref) == ref = e.from \/ ref \in Same(e.from)

(* A way from a seed to ref.                                               *)
Way(path, ref) ==
  /\ path[1].to \in DOMAIN roots
  /\ \A i \in 1..Len(path) - 1 : LeadsTo(path[i], path[i + 1].to)
  /\ LeadsTo(path[Len(path)], ref)

(* What stands for ref, when ref was reached by an edge of its own.         *)
Alike(ref) ==
  LET path == reached[ref].path
  IN  IF path # <<>> /\ path[Len(path)].from = ref THEN Same(ref) ELSE {}

(* The least confidence on the path, of which none is above Certain.       *)
Lowest(confidence, path) ==
  LET all == {Certain} \cup {path[i].confidence : i \in DOMAIN path}
  IN confidence \in all /\ \A other \in all : confidence <= other

(* Nothing that depends on the change within the depth is missed: what an   *)
(* edge comes from is neither further away nor less sure than what it leads *)
(* to makes it, and the equivalents of what was reached by an edge are      *)
(* reached too, and no further away. Whatever is reported is explained by a *)
(* way of that length, confidence and status (assess_impact).               *)
ImpactIsExact ==
  phase = "done" =>
    /\ \A e \in {f \in Graph.edges : Meets(f)} :
         e.to \in DOMAIN reached /\ reached[e.to].depth < MaxDepth =>
           /\ e.from \in DOMAIN reached
           /\ \/ reached[e.from].depth <= reached[e.to].depth
              \/ /\ reached[e.from].depth = reached[e.to].depth + 1
                 /\ reached[e.from].confidence
                      >= Weaker(reached[e.to].confidence, e.confidence)
    /\ \A ref \in DOMAIN reached \ DOMAIN roots :
         LET r == reached[ref] IN
           /\ r.depth \in 1..MaxDepth /\ Len(r.path) = r.depth
           /\ Way(r.path, ref)
           /\ Lowest(r.confidence, r.path)
           /\ r.inferred = \E i \in DOMAIN r.path : r.path[i].inferred
    /\ \A ref \in DOMAIN reached : \A other \in Alike(ref) :
         other \in DOMAIN reached /\ reached[other].depth <= reached[ref].depth

(* ... and as sure. An equivalent keeps the way its reference was first     *)
(* reached by, see the README.                                              *)
EquivalentsAreAsSure ==
  phase = "done" =>
    \A ref \in DOMAIN reached : \A other \in Alike(ref) :
      reached[other].depth = reached[ref].depth =>
        reached[other].confidence >= reached[ref].confidence

(* What depends on the seeds, and what the traversal seeds lead to, within  *)
(* n edges.                                                                 *)
Upstream[n \in Nat] ==
  IF n = 0 THEN Seeds
  ELSE Upstream[n - 1] \cup {e.from : e \in UNION {In(ref) : ref \in Upstream[n - 1]}}

Downstream[n \in Nat] ==
  IF n = 0 THEN Seeds
  ELSE Downstream[n - 1] \cup {e.to : e \in UNION {Out(ref) : ref \in Downstream[n - 1]}}

Rewritten == {ref \in DOMAIN change.base.node \cap DOMAIN Node :
                Kind(ref) = "file" /\ change.base.node[ref] # Node[ref]}

Obliged(types, ref) == \E o \in Obligations : o.type \in types /\ o.ref = ref

(* Whatever a rewritten file declares, whatever depends on the change and   *)
(* every side effect it leads to is to be verified; what no test is         *)
(* accepted for is reported as uncovered, and every test among the          *)
(* dependents is selected (derive_required_verification_set of              *)
(* assess_impact's report).                                                 *)
NothingUnobliged ==
  phase = "done" =>
    /\ \A ref \in DOMAIN Node :
         Node[ref].file \in {Node[file].file : file \in Rewritten} /\ Kind(ref) \notin Containers =>
           Obliged({"local_behavior", "public_contract", "test_intent"}, ref)
    /\ \A ref \in (Upstream[MaxDepth] \cap DOMAIN Node) \ Seeds :
         /\ Kind(ref) \notin Containers \cup Tests => Obliged({"consumer_behavior"}, ref)
         /\ Kind(ref) = "test" => ref \in RecommendedTests
    /\ \A ref \in Downstream[MaxDepth] \ Seeds :
         Kind(ref) \in SideEffects => Obliged({"side_effect"}, ref)
    /\ \A o \in Obligations : Accepted(o) # {} \/ o \in Uncovered

=============================================================================
