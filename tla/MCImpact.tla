------------------------------- MODULE MCImpact -------------------------------
(* Files f (functions a, b; effect d) and g (c, a test t and requirement r): *)
(* a is changed or removed, its file may or may not be seen to change. Any   *)
(* subset of the calls below is in the graph; x and y are the names alone    *)
(* of a, which changes, and of c, which does not.                            *)
EXTENDS Impact

Entry(kind, file, body) ==
  [kind |-> kind, file |-> file, body |-> body, confidence |-> 10, inferred |-> FALSE]

Names == {"f", "a", "b", "c", "d", "r", "t"}
Nodes(body, text) ==
  [ref \in Names |->
     CASE ref = "f" -> Entry("file", "f", text)
       [] ref = "a" -> Entry("function", "f", body)
       [] ref = "b" -> Entry("function", "f", 1)
       [] ref = "d" -> Entry("db_effect", "f", 1)
       [] ref = "c" -> Entry("function", "g", 1)
       [] ref = "r" -> Entry("requirement", "g", 1)
       [] ref = "t" -> Entry("test", "g", 1)]

Edge(from, to, type, confidence, inferred) ==
  [from |-> from, to |-> to, type |-> type, confidence |-> confidence, inferred |-> inferred]

Calls ==
  {Edge("c", "b", "calls", 9, FALSE), Edge("c", "x", "calls", 5, TRUE),
   Edge("t", "y", "tests", 8, FALSE), Edge("t", "b", "tests", 6, TRUE),
   Edge("r", "t", "verified_by", 10, FALSE), Edge("b", "a", "calls", 10, FALSE),
   Edge("a", "b", "handled_by", 7, TRUE), Edge("c", "d", "writes", 9, FALSE),
   Edge("b", "d", "writes", 4, TRUE), Edge("a", "c", "calls", 3, TRUE)}

Aliases ==
  [ref \in Names \cup {"x", "y"} |->
     CASE ref = "a" -> {"x"} [] ref = "x" -> {"a"} [] ref = "c" -> {"y"} [] ref = "y" -> {"c"}
       [] OTHER -> {}]

MCChanges ==
  {[base |-> [node |-> Nodes(1, 1), edges |-> edges, same |-> Aliases],
    candidate |->
      [node |-> IF gone THEN [ref \in Names \ {"a"} |-> Nodes(2, text)[ref]] ELSE Nodes(2, text),
       edges |-> IF gone THEN {e \in edges : "a" \notin {e.from, e.to}} ELSE edges,
       same |-> Aliases]] :
     edges \in {s \in SUBSET Calls : Cardinality(s) >= 5}, text \in {1, 2}, gone \in BOOLEAN}
=============================================================================
