------------------------------ MODULE Cpuset ------------------------------
(***************************************************************************)
(* The cpuset controller of src/cgroups/cpuset.go: Create (and Update,     *)
(* which is Create), run by several processes over one hierarchy.  A group *)
(* is its path below the cpuset mount point, a sequence of names; the      *)
(* mount point is <<>>.  Every file operation is a step of its own.  The   *)
(* path a caller passes is cleaned and walked in CgroupPath; here it is    *)
(* one that leads below the mount point.                                   *)
(***************************************************************************)
EXTENDS Naturals, Sequences

CONSTANTS
  Procs,      \* processes that use the controller
  Groups,     \* groups below the mount point, closed under prefixes
  Requests,   \* cpus and mems asked for; {} is the empty string
  Online      \* what the mount point's cpus and mems hold

VARIABLES
  made, value,                        \* the hierarchy: groups, their files
  pc, target, req, level, at,         \* each process's call
  cur, par, result,
  touched   \* ghost: files others wrote since p's call or p's own write

vars == <<made, value, pc, target, req, level, at, cur, par, result, touched>>
hierarchy == <<made, value, touched>>
call == <<target, req>>

Root  == <<>>
Files == <<"cpus", "mems">>
Names == {"cpus", "mems"}
Empty == [f \in Names |-> {}]

Parent(g) == SubSeq(g, 1, Len(g) - 1)
Lineage(g) == {SubSeq(g, 1, k) : k \in 1 .. Len(g)}

ASSUME GroupsAssumption ==
  \A g \in Groups : g \in Seq(STRING) /\ g # Root /\ Lineage(g) \subseteq Groups
ASSUME ValuesAssumption ==
  /\ Online # {}
  /\ Requests \subseteq [Names -> SUBSET Online]

\* Mutant: ensureParent forgets the ancestors.
CurrentTarget(p) == target[p]
\* The group the call works on: its ancestors from the top (ensureParent as
\* its recursion unwinds), itself, and itself again (the rest of Create).
Current(p) ==
  SubSeq(target[p], 1, IF level[p] <= Len(target[p]) THEN level[p] ELSE Len(target[p]))

(***************************************************************************)
(* The kernel: a group's cpus (mems) stay within its parent's and around   *)
(* its children's.                                                         *)
(***************************************************************************)
Accepts(g, f, v) ==
  /\ g \in made
  /\ v \subseteq value[Parent(g)][f]
  /\ \A c \in made : c # Root /\ Parent(c) = g => value[c][f] \subseteq v

Store(p, g, f, v) ==
  /\ value' = [value EXCEPT ![g][f] = v]
  /\ touched' = [q \in Procs |-> IF q = p THEN touched[q] \ {<<g, f>>}
                                 ELSE touched[q] \cup {<<g, f>>}]
  /\ UNCHANGED made

-----------------------------------------------------------------------------
Init ==
  /\ made = {Root}
  /\ value = [g \in Groups \cup {Root} |->
                IF g = Root THEN [f \in Names |-> Online] ELSE Empty]
  /\ pc = [p \in Procs |-> "idle"]
  /\ target = [p \in Procs |-> Root]
  /\ req = [p \in Procs |-> Empty]
  /\ level = [p \in Procs |-> 1]
  /\ at = [p \in Procs |-> 1]
  /\ cur = [p \in Procs |-> Empty]
  /\ par = [p \in Procs |-> Empty]
  /\ result = [p \in Procs |-> "none"]
  /\ touched = [p \in Procs |-> {}]

Return(p, r) ==
  /\ pc' = [pc EXCEPT ![p] = "idle"]
  /\ result' = [result EXCEPT ![p] = r]
  /\ level' = [level EXCEPT ![p] = 1]
  /\ at' = [at EXCEPT ![p] = 1]
  /\ cur' = [cur EXCEPT ![p] = Empty]
  /\ par' = [par EXCEPT ![p] = Empty]
  /\ UNCHANGED call

Fail(p) == Return(p, "error") /\ UNCHANGED hierarchy

\* To the next of the two files, or after the second one to label l.
NextFile(p, l) ==
  /\ at' = [at EXCEPT ![p] = 3 - @]
  /\ pc' = IF at[p] = 1 THEN pc ELSE [pc EXCEPT ![p] = l]
  /\ UNCHANGED <<call, result>>

(***************************************************************************)
(* Create, and Update, which is Create.                                    *)
(***************************************************************************)
Call(p, g, r) ==
  /\ pc[p] = "idle"
  /\ target' = [target EXCEPT ![p] = g]
  /\ req' = [req EXCEPT ![p] = r]
  /\ pc' = [pc EXCEPT ![p] = "mkdir"]
  /\ result' = [result EXCEPT ![p] = "none"]
  /\ touched' = [touched EXCEPT ![p] = {}]
  /\ UNCHANGED <<made, value, level, at, cur, par>>

Mkdir(p) ==
  /\ pc[p] = "mkdir"
  /\ \/ /\ made' = made \cup Lineage(Current(p))
        /\ pc' = [pc EXCEPT ![p] = "readCurrent"]
        /\ UNCHANGED <<value, touched, call, level, at, cur, par, result>>
     \/ Fail(p)

ReadCurrent(p) ==
  /\ pc[p] = "readCurrent"
  /\ \/ /\ cur' = [cur EXCEPT ![p][Files[at[p]]] = value[Current(p)][Files[at[p]]]]
        /\ NextFile(p, "readParent")
        /\ UNCHANGED <<hierarchy, level, par>>
     \/ Fail(p)

ReadParent(p) ==
  /\ pc[p] = "readParent"
  /\ \/ /\ par' = [par EXCEPT ![p][Files[at[p]]] =
                     value[Parent(Current(p))][Files[at[p]]]]
        /\ NextFile(p, "copy")
        /\ UNCHANGED <<hierarchy, level, cur>>
     \/ Fail(p)

NeedsCopy(p, f) == cur[p][f] = {}

\* copyIfNeeded writes what it read from the parent where the group's file
\* was empty when it read it; then the next group on the way, or the request.
Copy(p) ==
  /\ pc[p] = "copy"
  /\ LET f == Files[at[p]]
         g == Current(p)
         last == level[p] > Len(target[p])
     IN \/ /\ \/ ~NeedsCopy(p, f) /\ UNCHANGED hierarchy
              \/ NeedsCopy(p, f) /\ Accepts(g, f, par[p][f]) /\ Store(p, g, f, par[p][f])
           /\ NextFile(p, IF last THEN "explicit" ELSE "mkdir")
           /\ level' = IF at[p] = 2 /\ ~last THEN [level EXCEPT ![p] = @ + 1] ELSE level
           /\ UNCHANGED <<cur, par>>
        \/ NeedsCopy(p, f) /\ Fail(p)

\* Mutant: each file gets what was asked for the other.
RequestedCrossed(p, f) == req[p][IF f = "cpus" THEN "mems" ELSE "cpus"]
Requested(p, f) == req[p][f]

\* Create's own writes: the cpus and mems of the request that are not "".
Explicit(p) ==
  /\ pc[p] = "explicit"
  /\ LET f == Files[at[p]]
         g == target[p]
     IN \/ /\ \/ Requested(p, f) = {} /\ UNCHANGED hierarchy
              \/ Requested(p, f) # {} /\ Accepts(g, f, Requested(p, f)) /\ Store(p, g, f, Requested(p, f))
           /\ IF at[p] = 1 THEN NextFile(p, "explicit") /\ UNCHANGED <<level, cur, par>>
                           ELSE Return(p, "ok")
        \/ Requested(p, f) # {} /\ Fail(p)

\* The process dies inside the call; what it made stays.
Crash(p) ==
  /\ pc[p] # "idle"
  /\ Return(p, "crashed")
  /\ UNCHANGED hierarchy

Step(p) ==
  Mkdir(p) \/ ReadCurrent(p) \/ ReadParent(p) \/ Copy(p) \/ Explicit(p)

Next ==
  \E p \in Procs :
    \/ \E g \in Groups, r \in Requests : Call(p, g, r)
    \/ Step(p)
    \/ Crash(p)

Spec == Init /\ [][Next]_vars

-----------------------------------------------------------------------------
Populated(g) == g \in made /\ \A f \in Names : value[g][f] # {}

\* After a Create that returned nil the group and all its ancestors exist and
\* have cpus and mems, so that tasks can join: also when other processes make
\* and fill the same ancestors, and when earlier attempts died or failed half
\* way and left groups made but empty.
PopulatedOnSuccess ==
  \A p \in Procs : result[p] = "ok" => \A g \in Lineage(target[p]) : Populated(g)

\* The cpus and mems asked for are in the group's files when Create returns
\* nil, unless another process wrote the file after it.
ExplicitOnSuccess ==
  \A p \in Procs, f \in Names :
    (result[p] = "ok" /\ req[p][f] # {} /\ <<target[p], f>> \notin touched[p])
      => value[target[p]][f] = req[p][f]

\* copyIfNeeded fills a file only "if the file's contents are 0"
\* (cpuset.go:121-122): it replaces no value, its own or another's.
CopyFillsEmpty ==
  [][\A p \in Procs, f \in Names :
       (pc[p] = "copy" /\ at[p] # at'[p] /\ value'[Current(p)][f] # value[Current(p)][f])
         => value[Current(p)][f] = {}]_vars

\* No step takes the last cpu or memory node from a group that has some, for
\* its tasks could run nowhere: copyIfNeeded writes later what it read from the
\* parent (cpuset.go:136-154), perhaps over a value another process has set
\* meanwhile, and it must not have read an empty parent.
NeverEmptied ==
  [][\A g \in Groups, f \in Names : value[g][f] # {} => value'[g][f] # {}]_vars

=============================================================================
