SPECIFICATION Spec
CONSTANTS
  c1 = c1
  c2 = c2
  Cpus = {c1, c2}
  Limits = {0, 2}
  Nil = Nil
  NoLimit = NoLimit
  Word = 24
  Nanos = 10
  ClockTicks = 2
  Boot = {0}
  MaxEvents = 3
SYMMETRY Symmetry
INVARIANTS TypeOK SnapshotOrdered AllOrNothing ThrottledBounded MemoryFresh
PROPERTIES UsageGrows
