----------------------------- MODULE MCCpuset -----------------------------
(* Small instances of Cpuset: a group and its child, two processes.         *)
EXTENDS Cpuset, TLC

CONSTANTS p1, p2

GroupA  == <<"a">>
GroupAB == <<"a", "b">>
Two     == {GroupA, GroupAB}

R(c, m) == [cpus |-> c, mems |-> m]
RaceRequests == {R({}, {}), R({0}, {})}
Symmetry == Permutations({p1, p2})
=============================================================================
