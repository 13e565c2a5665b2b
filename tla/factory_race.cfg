SPECIFICATION Spec
CONSTANTS
  p1 = p1
  p2 = p2
  p3 = p3
  Procs = {p1, p2}
  Ids <- MCIds
  Join <- MCJoin
  Paths <- MCPaths
SYMMETRY Symmetry
INVARIANTS LateCallGetsNone DistinctUnlessRivals RefusalHasReason
PROPERTIES ImplementsRegistry
