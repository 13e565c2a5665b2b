SPECIFICATION Spec
CONSTANTS
  c1 = c1
  c2 = c2
  Containers = {c1, c2}
  Host = Host
  None = None
  Unset = Unset
  Fds = {"3"}
  Environs <- MCEnvirons
SYMMETRY Symmetry
CHECK_DEADLOCK FALSE
INVARIANTS CommandInside JoinedFromTarget
