SPECIFICATION Spec
CONSTANTS
  c1 = c1
  c2 = c2
  m1 = m1
  m2 = m2
  Containers = {c1, c2}
  Mounts = {m1, m2}
  MaxLayers = 2
SYMMETRY Symmetry
INVARIANTS HostKeepsMounts NothingPinned NoWayBack ReadonlyOnSuccess
