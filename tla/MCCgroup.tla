----------------------------- MODULE MCCgroup -----------------------------
(* A small instance of Cgroup: requests that set files in two subsystems.   *)
EXTENDS Cgroup, TLC

CONSTANTS p1, p2

Nothing == [pids |-> 0, classid |-> 0, prios |-> <<>>, cpu |-> {},
            cpuset |-> <<>>, memory |-> <<>>]
Both == [Nothing EXCEPT !.pids = 8, !.cpu = {"cpu.shares"}]
Shares == [Nothing EXCEPT !.cpu = {"cpu.shares"}]
RaceRequests == {Both, Shares}
RaceMounts == {{"pids", "cpu"}, {"cpu"}}
Symmetry == Permutations({p1, p2})
=============================================================================
