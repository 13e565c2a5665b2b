SPECIFICATION Spec
CONSTANTS
  p1 = p1
  p2 = p2
  Procs = {p1}
  Requests <- AllRequests
  NoMemory = NoMemory
  Nil = Nil
  Unlimited = 101
  IgnoredNames = {}
  UseOptionalSwap = FALSE
INVARIANTS RaiseAccepted
