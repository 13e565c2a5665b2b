------------------------------ MODULE MCUtils ------------------------------
(* The helpers, side by side in one instance: a behaviour is one of          *)
(* CgroupUtils, CgroupPath, Devices or Namespaces, as `helper` says, and the *)
(* variables of the others stay at one initial state.                        *)
EXTENDS CgroupUtils, CgroupPath, Devices, Namespaces

CONSTANTS g1, g2

VARIABLE helper

all == <<helper, removeVars, pathVars, permVars, vars>>

MCInit ==
  /\ helper \in {"remove", "path", "permissions", "namespaces"}
  /\ RemoveInit /\ (helper # "remove" => groups = {})
  /\ PathInit /\ (helper # "path" => asked = EmptyPath /\ root = Absolute(<<"a">>))
  /\ PermInit /\ (helper # "permissions" => perm = <<>>)
  /\ Init /\ (helper # "namespaces" => readable = {})

MCNext ==
  \/ helper = "remove" /\ RemoveNext /\ UNCHANGED <<helper, pathVars, permVars, vars>>
  \/ helper = "path" /\ PathNext /\ UNCHANGED <<helper, removeVars, permVars, vars>>
  \/ helper = "permissions" /\ PermNext /\ UNCHANGED <<helper, removeVars, pathVars, vars>>
  \/ helper = "namespaces" /\ Next /\ UNCHANGED <<helper, removeVars, pathVars, permVars>>

MCSpec ==
  /\ MCInit /\ [][MCNext]_all
  /\ WF_removeVars(RemoveStep)
  /\ \A g \in Goroutines : WF_vars(Step(g)) /\ SF_vars(Lock(g))

MCGroups == {<<>>, <<"a">>, <<"b">>, <<"a", "a">>}
UpTo(S, n) == UNION {[1 .. k -> S] : k \in 0 .. n}
MCNames == {"a", "b"}
MCLists == UpTo(MCNames \cup {".", ".."}, 5)
MCRoots == {<<"a">>, <<"a", "b">>}
MCChars == {"r", "w", "m", "x"}
MCStrings == UpTo(MCChars, 4)
=============================================================================
