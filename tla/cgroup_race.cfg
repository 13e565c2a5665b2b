SPECIFICATION Spec
CONSTANTS
  p1 = p1
  p2 = p2
  Procs = {p1, p2}
  Requests <- RaceRequests
  Interfaces = {"eth0", "eth1"}
  CpusetFiles = {"cpuset.cpus"}
  MemoryFiles = {"memory.limit_in_bytes"}
  Existing = {"pids", "cpu"}
  Unset = Unset
  Mounts <- RaceMounts
INVARIANTS CompleteOnSuccess PrefixInOrder
SYMMETRY Symmetry
