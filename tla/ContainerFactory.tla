-------------------------- MODULE ContainerFactory --------------------------
(***************************************************************************)
(* The container factory of src/container/factory.go as `run` uses it      *)
(* (src/run.go and src/utils.go, startContainer): every invocation is a process of its    *)
(* own, all share the state directory, and the only record of a container  *)
(* is the directory SecureJoin(root, id).  Directories are sequences of    *)
(* names below the root; the root itself is <<>>.                          *)
(***************************************************************************)
EXTENDS Naturals, Sequences

CONSTANTS
  Procs,          \* invocations, each of which may be run again
  Ids,            \* the ids they are given
  Join,           \* SecureJoin: the directory an id leads to, within root
  Paths           \* the directories below root, closed under prefixes

VARIABLES
  dirs,            \* directories that exist
  pc, id,          \* each invocation's call
  outcome,         \* how its last call ended
  granted,         \* ghost: how often a container was returned per directory
  existed,         \* ghost: did the directory exist when the call began?
  rivals           \* ghost: the directories of the calls that overlap it

vars == <<dirs, pc, id, outcome, granted, existed, rivals>>

Root == <<>>
Cap  == 2   \* granted counts up to here

ASSUME PathsAssumption ==
  /\ Root \in Paths
  /\ \A d \in Paths : d \in Seq(STRING)
  /\ \A d \in Paths : \A k \in 0 .. Len(d) : SubSeq(d, 1, k) \in Paths
ASSUME JoinAssumption == Join \in [Ids -> Paths]

Parents(d) == {SubSeq(d, 1, n) : n \in 0 .. Len(d)}
Dir(p) == Join[id[p]]

Outcomes == {"none", "running", "loaded", "error", "panic", "crashed"}
Labels == {"idle", "arguments", "new", "join", "stat", "mkdir", "chown",
           "newLoad", "load"}

-----------------------------------------------------------------------------
Init ==
  /\ dirs \in {{}, {Root}}
  /\ pc = [p \in Procs |-> "idle"]
  /\ id \in [Procs -> Ids]
  /\ outcome = [p \in Procs |-> "none"]
  /\ granted = [d \in Paths |-> 0]
  /\ existed = [p \in Procs |-> FALSE]
  /\ rivals = [p \in Procs |-> {}]

Busy == {q \in Procs : pc[q] # "idle"}

\* An invocation of `run` begins, or a call of Load, the factory's other method.
Call(p, l, i) ==
  /\ pc[p] = "idle"
  /\ pc' = [pc EXCEPT ![p] = l]
  /\ id' = [id EXCEPT ![p] = i]
  /\ outcome' = [outcome EXCEPT ![p] = "none"]
  /\ existed' = [existed EXCEPT ![p] = Join[i] \in dirs]
  /\ rivals' = [q \in Procs |-> IF q = p THEN {Dir(b) : b \in Busy}
                                ELSE IF q \in Busy THEN rivals[q] \cup {Join[i]}
                                ELSE rivals[q]]
  /\ UNCHANGED <<dirs, granted>>

Return(p, r) ==
  /\ pc' = [pc EXCEPT ![p] = "idle"]
  /\ outcome' = [outcome EXCEPT ![p] = r]
  /\ UNCHANGED <<id, existed, rivals>>

Goto(p, l) ==
  /\ pc' = [pc EXCEPT ![p] = l]
  /\ UNCHANGED <<id, outcome, existed, rivals>>

Error(p) == Return(p, "error") /\ UNCHANGED <<dirs, granted>>

\* Mutant: an empty id is not noticed.
IdentifiedAlways(p) == TRUE
Identified(p) == id[p] # ""

\* checkArgs wants exactly one argument, revisePidFile and createContainer make
\* paths absolute, any of which may fail; startContainer wants an id.
Arguments(p) ==
  /\ pc[p] = "arguments"
  /\ \/ Identified(p) /\ Goto(p, "new") /\ UNCHANGED <<dirs, granted>>
     \/ Error(p)

\* New: MkdirAll of the state directory; no options are passed.
New(p, from, to) ==
  /\ pc[p] = from
  /\ \/ dirs' = dirs \cup {Root} /\ Goto(p, to) /\ UNCHANGED granted
     \/ Error(p)

\* Load: SecureJoin, which may fail; Load asks nothing more.
Load(p) ==
  /\ pc[p] = "load"
  /\ \/ Return(p, "loaded") /\ UNCHANGED <<dirs, granted>>
     \/ Error(p)

\* Create: SecureJoin.
SecureJoin(p) ==
  /\ pc[p] = "join"
  /\ \/ Goto(p, "stat") /\ UNCHANGED <<dirs, granted>>
     \/ Error(p)

\* Mutant: Create does not look.
InUseNever(p) == FALSE
InUse(p) == Dir(p) \in dirs

\* Stat: Create returns (nil, nil) when the directory exists, for err is nil
\* then, and startContainer calls Run on the nil interface.
Stat(p) ==
  /\ pc[p] = "stat"
  /\ \/ InUse(p) /\ Return(p, "panic") /\ UNCHANGED <<dirs, granted>>
     \/ ~InUse(p) /\ Goto(p, "mkdir") /\ UNCHANGED <<dirs, granted>>
     \/ Error(p)

\* MkdirAll succeeds on a directory that exists by now; where it fails, or the
\* process dies in it, the parents it made stay.
Mkdir(p) ==
  /\ pc[p] = "mkdir"
  /\ UNCHANGED granted
  /\ \/ dirs' = dirs \cup Parents(Dir(p)) /\ Goto(p, "chown")
     \/ \E n \in 0 .. Len(Dir(p)), r \in {"error", "crashed"} :
          dirs' = dirs \cup {SubSeq(Dir(p), 1, m) : m \in 0 .. n - 1} /\ Return(p, r)

\* Chown, then the container; Run does nothing and the status is 0.
Chown(p) ==
  /\ pc[p] = "chown"
  /\ \/ /\ granted' = [granted EXCEPT ![Dir(p)] = IF @ = Cap THEN Cap ELSE @ + 1]
        /\ Return(p, "running")
        /\ UNCHANGED dirs
     \/ Error(p)

\* The process is killed inside the call.
Crash(p) ==
  /\ pc[p] # "idle"
  /\ Return(p, "crashed")
  /\ UNCHANGED <<dirs, granted>>

Step(p) ==
  \/ Arguments(p) \/ New(p, "new", "join") \/ SecureJoin(p) \/ Stat(p)
  \/ Mkdir(p) \/ Chown(p)
  \/ New(p, "newLoad", "load") \/ Load(p)

Next ==
  \E p \in Procs :
    \/ \E l \in {"arguments", "newLoad"}, i \in Ids : Call(p, l, i)
    \/ Step(p)
    \/ Crash(p)

Spec == Init /\ [][Next]_vars

-----------------------------------------------------------------------------
\* Every variable keeps its type.
TypeOK ==
  /\ dirs \subseteq Paths
  /\ pc \in [Procs -> Labels] /\ id \in [Procs -> Ids] /\ outcome \in [Procs -> Outcomes]
  /\ granted \in [Paths -> 0 .. Cap]
  /\ existed \in [Procs -> BOOLEAN]
  /\ rivals \in [Procs -> SUBSET Paths]

\* "The id must not already be in use" (factory.go:22): however the calls
\* interleave, fail or die, a call that begins when the directory exists gets
\* no container, whichever of the directory's ids it uses.
LateCallGetsNone ==
  \A p \in Procs : outcome[p] = "running" => ~existed[p]

\* "Containers ... must have distinct ids" (factory.go:22-23): no directory is
\* given to two containers.
DistinctIds == \A d \in Paths : granted[d] <= 1

\* What is true of them: a directory is given to two containers only by calls
\* that overlapped, both asking for it.
DistinctUnlessRivals ==
  \A p \in Procs :
    (outcome[p] = "running" /\ Dir(p) \notin rivals[p]) => granted[Dir(p)] = 1

\* Create returns no container and no error, and `run` a panic, only for a
\* directory that existed when the call began, for the root, which New has
\* just made, or if another call meanwhile asked for it or for one under it;
\* and never for the empty id (utils.go:96-99).
RefusalHasReason ==
  \A p \in Procs : outcome[p] = "panic" =>
    /\ id[p] # ""
    /\ existed[p] \/ Dir(p) = Root \/ \E d \in rivals[p] : Dir(p) \in Parents(d)

\* The factory implements the registry: a directory that has a container is
\* given out again only if the calls for it overlapped, and only the call that
\* asked for it is told so.
Registry ==
  INSTANCE ContainerRegistry WITH
    taken     <- {d \in Paths : granted[d] > 0},
    asked     <- [p \in Procs |-> Dir(p)],
    contended <- [p \in Procs |-> Dir(p) \in rivals[p]],
    answer    <- [p \in Procs |-> IF pc[p] # "idle" THEN "waiting"
                                  ELSE IF outcome[p] = "none" THEN "none"
                                  ELSE IF outcome[p] = "running" THEN "container"
                                  ELSE "refused"]
ImplementsRegistry == Registry!Spec
=============================================================================
