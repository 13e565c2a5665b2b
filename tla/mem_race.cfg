SPECIFICATION Spec
CONSTANTS
  p1 = p1
  p2 = p2
  Procs = {p1, p2}
  Requests <- RaceRequests
  NoMemory = NoMemory
  Nil = Nil
  Unlimited = 101
  IgnoredNames = {"kmem", "kmemtcp"}
  UseOptionalSwap = TRUE
SYMMETRY Symmetry
INVARIANTS AppliedOnSuccess KernelAccounted HalfwayBusyIsUsage StatExact TornOnlyIfBothWritten
PROPERTIES RefusedOnlyWhenRaising
