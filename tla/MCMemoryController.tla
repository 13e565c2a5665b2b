------------------------ MODULE MCMemoryController ------------------------
(* Small instances of MemoryController: requests that lower, raise and      *)
(* lift the limits, and that limit kernel memory with and without a value.  *)
EXTENDS MemoryController, TLC

CONSTANTS p1, p2

Unset == [f \in Fields |-> Nil]
With(c) == c @@ Unset

Lower  == With([Limit |-> 2, Swap |-> 3])
Raise  == With([Limit |-> 4, Swap |-> 6, Reservation |-> 1])
Lift   == With([Limit |-> -1, Swap |-> -1])
Shrink == With([Limit |-> 1])
Kmem   == With([Kernel |-> 5, Limit |-> 4])
KmemAll == With([Kernel |-> -1, KernelTCP |-> 7])
Misc   == With([DisableOOMKiller |-> 1, Swappiness |-> 10, Swap |-> 3])
SwapNoLimit == With([Swap |-> 1])

AllRequests == {Lower, Raise, Lift, Shrink, Kmem, KmemAll, Misc, SwapNoLimit}
RaceLow  == With([Limit |-> 2, Swap |-> 3, Kernel |-> -1])
RaceHigh == With([Limit |-> 4, Kernel |-> 5])
RaceRequests == {RaceLow, RaceHigh}
Symmetry == Permutations({p1, p2})
=============================================================================
