---------------------------- MODULE CgroupUtils ----------------------------
(***************************************************************************)
(* remove of src/cgroups/utils.go: try os.RemoveAll on a cgroup up to five *)
(* times and sleep in between, while tasks come and go in the group and    *)
(* the groups below it and other processes create groups there.            *)
(***************************************************************************)
EXTENDS Naturals, Sequences, SequencesExt

CONSTANTS
  Groups,    \* the groups there may be at and below the path, the path <<>>
  Names      \* the names in these paths

VARIABLES
  groups, tasks,       \* groups that exist, those of them that hold a task
  stage, tries,        \* the caller of remove; how often it has tried
  listed, opened,      \* RemoveAll: found, and searched for more
  returned,
  absent, disturbed    \* ghosts: see Failed and Notice

call == <<stage, tries, listed, opened, returned>>
removeVars == <<groups, tasks, stage, tries, listed, opened, returned, absent, disturbed>>

path  == <<>>
Tries == 5

Children(g) == {c \in Groups : c # path /\ Front(c) = g}

ASSUME GroupsAssumption ==
  /\ path \in Groups
  /\ \A g \in Groups : g \in Seq(Names) /\ (g # path => Front(g) \in Groups)

-----------------------------------------------------------------------------
RemoveInit ==
  /\ groups \in {s \in SUBSET Groups : \A g \in s \ {path} : Front(g) \in s}
  /\ tasks \in SUBSET groups
  /\ stage = "idle" /\ tries = 0 /\ listed = {} /\ opened = {}
  /\ returned = "none" /\ absent = FALSE /\ disturbed = {}

RemoveCall ==
  /\ stage = "idle"
  /\ stage' = "try" /\ tries' = 0 /\ listed' = {} /\ opened' = {}
  /\ returned' = "none" /\ absent' = FALSE /\ disturbed' = {}
  /\ UNCHANGED <<groups, tasks>>

\* Mutant: the tries are not counted.
IncrementedNever == tries
Incremented == tries + 1

\* Another try begins: the first at once, the others after a sleep.
Try ==
  /\ stage = "try"
  /\ stage' = "walk"
  /\ tries' = Incremented
  /\ listed' = {path} /\ opened' = {}
  /\ disturbed' = IF tasks # {} THEN disturbed \cup {tries'} ELSE disturbed
  /\ UNCHANGED <<groups, tasks, returned, absent>>

(***************************************************************************)
(* os.RemoveAll: search a directory, remove what was found in it, then the *)
(* directory itself.  A group can be removed when it holds no task and no  *)
(* group; that it is not there any more is no error.                       *)
(***************************************************************************)
Open(g) ==
  /\ stage = "walk" /\ g \in listed \ opened
  /\ opened' = opened \cup {g}
  /\ listed' = listed \cup (Children(g) \cap groups)
  /\ UNCHANGED <<groups, tasks, stage, tries, returned, absent, disturbed>>

Removable(g) == g \in groups => g \notin tasks /\ Children(g) \cap groups = {}

Rmdir(g) ==
  /\ stage = "walk" /\ g \in listed \cap opened /\ Children(g) \cap listed = {} /\ g # path
  /\ groups' = IF Removable(g) THEN groups \ {g} ELSE groups
  /\ listed' = listed \ {g}
  /\ UNCHANGED <<tasks, stage, tries, opened, returned, absent, disturbed>>

\* RemoveAll meets ENOENT at the path itself before it comes to remove it.
Gone ==
  /\ stage = "walk" /\ path \notin groups
  /\ stage' = "idle" /\ returned' = "ok" /\ absent' = TRUE
  /\ listed' = {} /\ opened' = {}
  /\ UNCHANGED <<groups, tasks, tries, disturbed>>

\* Mutant: one try less.
FailedEarly == IF tries = Tries - 1 THEN "idle" ELSE "try"
Failed == IF tries = Tries THEN "idle" ELSE "try"

Outcome == IF Removable(path) THEN "ok" ELSE "error"

\* The end of a try, and with the first success or the last failure of remove.
Rmpath ==
  /\ stage = "walk" /\ opened # {} /\ listed = {path}
  /\ IF Removable(path)
     THEN groups' = groups \ {path} /\ absent' = TRUE /\ stage' = "idle"
     ELSE UNCHANGED <<groups, absent>> /\ stage' = Failed
  /\ returned' = IF stage' = "idle" THEN Outcome ELSE "none"
  /\ listed' = {} /\ opened' = {}
  /\ UNCHANGED <<tasks, tries, disturbed>>

-----------------------------------------------------------------------------
(***************************************************************************)
(* The others: tasks enter and leave, groups are created and removed.      *)
(***************************************************************************)
Notice == disturbed' = IF stage = "walk" THEN disturbed \cup {tries} ELSE disturbed

Enter(g) ==
  /\ g \in groups \ tasks
  /\ tasks' = tasks \cup {g}
  /\ Notice
  /\ UNCHANGED <<groups, call, absent>>

Leave(g) ==
  /\ g \in tasks
  /\ tasks' = tasks \ {g}
  /\ UNCHANGED <<groups, call, absent, disturbed>>

Create(g) ==
  /\ g \in Groups \ groups /\ (g # path => Front(g) \in groups)
  /\ groups' = groups \cup {g}
  /\ Notice
  /\ UNCHANGED <<tasks, call, absent>>

Delete(g) ==
  /\ g \in groups /\ Removable(g)
  /\ groups' = groups \ {g}
  /\ absent' = (absent \/ g = path)
  /\ UNCHANGED <<tasks, call, disturbed>>

RemoveStep == Try \/ Rmpath \/ Gone \/ \E g \in Groups : Open(g) \/ Rmdir(g)

RemoveNext ==
  \/ RemoveCall \/ RemoveStep
  \/ \E g \in Groups : Enter(g) \/ Leave(g) \/ Create(g) \/ Delete(g)

\* A caller that runs goes on: a sleep ends.
RemoveSpec == RemoveInit /\ [][RemoveNext]_removeVars /\ WF_removeVars(RemoveStep)

-----------------------------------------------------------------------------
\* remove returns nil only if the group was gone at some time since the call,
\* and an error only after five tries, each of which met a task in the group
\* or below it, or a task that entered or a group that was created meanwhile
\* (utils.go:94-106): a quiet try never fails, whatever the ones before left.
RemovedOrBlocked ==
  /\ returned = "ok" => absent
  /\ returned = "error" => disturbed = 1 .. Tries

\* remove returns, whatever the others do (utils.go:96).
RemoveReturns == (stage # "idle") ~> (stage = "idle")
=============================================================================
