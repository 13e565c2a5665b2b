SPECIFICATION Spec
CONSTANTS
  p1 = p1
  p2 = p2
  Procs = {p1, p2}
  Groups <- Two
  Requests <- RaceRequests
  Online = {0, 1}
PROPERTIES CopyFillsEmpty
