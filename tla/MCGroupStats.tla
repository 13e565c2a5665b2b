---------------------------- MODULE MCGroupStats ----------------------------
(* A small instance of GroupStats: 3 ticks of 10 ns overflow a word of 24.  *)
EXTENDS GroupStats, TLC

CONSTANTS c1, c2

Symmetry == Permutations({c1, c2})
=============================================================================
