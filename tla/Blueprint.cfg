SPECIFICATION Spec
CONSTANTS
  Services = {s1, s2}
  MaxRevisions = 3
SYMMETRY Symmetry
INVARIANTS OnlyApprovedTakesEffect ActivationIsOrderly
CHECK_DEADLOCK FALSE
