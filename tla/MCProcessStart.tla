--------------------------- MODULE MCProcessStart ---------------------------
(* A small instance of ProcessStart: two containers, and the environments    *)
(* that make each test of a variable go either way.                          *)
EXTENDS ProcessStart, TLC

CONSTANTS c1, c2

Enter == [Empty EXCEPT !["docker_pid"] = "pid", !["docker_cmd"] = "sh"]
MCEnvirons ==
  {Empty, Enter, [Enter EXCEPT !["docker_cmd"] = Unset],
   [Enter EXCEPT !["docker_pid"] = Unset]}
   \cup {[Empty EXCEPT !["_LIBCONTAINER_INITPIPE"] = n] : n \in {"3", "x"}}
Symmetry == Permutations({c1, c2})
=============================================================================
