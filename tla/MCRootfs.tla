------------------------------ MODULE MCRootfs ------------------------------
(* A small instance of Rootfs: two containers, two mounts of the host.      *)
EXTENDS Rootfs, TLC

CONSTANTS c1, c2, m1, m2

Symmetry == Permutations({c1, c2}) \cup Permutations({m1, m2})
=============================================================================
