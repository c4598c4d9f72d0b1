SPECIFICATION Spec
CONSTANTS
  Connections = {c1, c2}
  Nodes = {n1}
  Edges = {}
  Payloads = {p1, p2}
  Evidence = {}
  Keys = {k1, k2}
  MaxRevisions = 3
SYMMETRY Symmetry
INVARIANTS ReplayIsAnswered SingleLineage
PROPERTIES ImplementsHistory
