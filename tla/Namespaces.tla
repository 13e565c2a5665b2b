----------------------------- MODULE Namespaces -----------------------------
(***************************************************************************)
(* src/configs/namespaces.go.  IsNamespaceSupported: goroutines ask        *)
(* whether the kernel has a namespace type; the first answer for a type is *)
(* kept in a map under a mutex, while what /proc shows may change.  And    *)
(* the list of namespaces of one configuration, which must behave as a map *)
(* from type to path.                                                      *)
(***************************************************************************)
EXTENDS Integers, Sequences

CONSTANTS
  Goroutines,
  Types,      \* NamespaceType values, the unknown ones included
  Unknown,    \* those NsName has no file name for
  Paths,      \* paths to join, "" included
  NoPath,     \* ""
  Nobody      \* holds nsLock when it is free

VARIABLES
  readable,               \* types whose file Stat can see now
  nsLock, supported,      \* the mutex; supportedNamespaces, a partial map
  pc, ns, found,          \* each goroutine's call of IsNamespaceSupported
  list,                   \* a configuration's Namespaces
  given,   \* ghost: the answers given so far, per type
  wanted   \* ghost: the path each type was given last, if it has one

calls == <<pc, ns, found>>
lists == <<list, wanted>>
vars  == <<readable, nsLock, supported, calls, lists, given>>

Absent == "absent"

ASSUME TypesAssumption == Types # {} /\ Unknown \subseteq Types
ASSUME PathsToJoinAssumption == NoPath \in Paths /\ Absent \notin Paths
ASSUME NobodyAssumption == Nobody \notin Goroutines

(***************************************************************************)
(* The list: index (0 for -1), Add, Remove, PathOf, Contains.              *)
(***************************************************************************)
Holds(s, i, t) == s[i].type = t /\ \A j \in 1 .. (i - 1) : s[j].type # t

ContainsNs(s, t) == \E i \in 1 .. Len(s) : s[i].type = t

PathOf(s, t) ==
  IF ContainsNs(s, t) THEN s[CHOOSE i \in 1 .. Len(s) : Holds(s, i, t)].path
                    ELSE NoPath

\* Mutant: Add appends whether the type is there or not.
AddedTwice(s, t, path) == Append(s, [type |-> t, path |-> path])
Added(s, t, path) ==
  IF ContainsNs(s, t)
    THEN [s EXCEPT ![CHOOSE i \in 1 .. Len(s) : Holds(s, i, t)].path = path]
    ELSE Append(s, [type |-> t, path |-> path])

Without(s, i) == [j \in 1 .. (Len(s) - 1) |-> IF j < i THEN s[j] ELSE s[j + 1]]

Removed(s, t) ==
  IF ContainsNs(s, t) THEN Without(s, CHOOSE i \in 1 .. Len(s) : Holds(s, i, t))
                    ELSE s

-----------------------------------------------------------------------------
Init ==
  /\ readable \in SUBSET (Types \ Unknown)
  /\ nsLock = Nobody
  /\ supported = [t \in Types |-> Absent]
  /\ pc = [g \in Goroutines |-> "idle"]
  /\ ns = [g \in Goroutines |-> CHOOSE t \in Types : TRUE]
  /\ found = [g \in Goroutines |-> FALSE]
  /\ list = <<>>
  /\ given = [t \in Types |-> {}]
  /\ wanted = [t \in Types |-> Absent]

AddNs(t, path) ==
  /\ list' = Added(list, t, path)
  /\ wanted' = [wanted EXCEPT ![t] = path]
  /\ UNCHANGED <<readable, nsLock, supported, calls, given>>

RemoveNs(t) ==
  /\ list' = Removed(list, t)
  /\ wanted' = [wanted EXCEPT ![t] = Absent]
  /\ UNCHANGED <<readable, nsLock, supported, calls, given>>

(***************************************************************************)
(* IsNamespaceSupported.                                                   *)
(***************************************************************************)
Call(g, t) ==
  /\ pc[g] = "idle"
  /\ pc' = [pc EXCEPT ![g] = "lock"]
  /\ ns' = [ns EXCEPT ![g] = t]
  /\ UNCHANGED <<readable, nsLock, supported, found, lists, given>>

\* Mutant: the goroutine does not wait.
LockFreeAlways == TRUE
LockFree == nsLock = Nobody

Lock(g) ==
  /\ pc[g] = "lock" /\ LockFree
  /\ nsLock' = g
  /\ pc' = [pc EXCEPT ![g] = "lookup"]
  /\ UNCHANGED <<readable, supported, ns, found, lists, given>>

\* Mutant: the lock is kept on the way out.
AnswerLocked(g, a) ==
  /\ given' = [given EXCEPT ![ns[g]] = @ \cup {a}]
  /\ pc' = [pc EXCEPT ![g] = "idle"]
  /\ UNCHANGED <<readable, nsLock, ns, found, lists>>

\* The answer is given and the deferred Unlock runs.
Answer(g, a) ==
  /\ given' = [given EXCEPT ![ns[g]] = @ \cup {a}]
  /\ nsLock' = Nobody
  /\ pc' = [pc EXCEPT ![g] = "idle"]
  /\ UNCHANGED <<readable, ns, found, lists>>

Known(t) == t \notin Unknown

LookUp(g) ==
  /\ pc[g] = "lookup"
  /\ \/ supported[ns[g]] # Absent /\ Answer(g, supported[ns[g]] = "yes")
        /\ UNCHANGED supported
     \/ /\ supported[ns[g]] = Absent /\ ~Known(ns[g])
        /\ Answer(g, FALSE) /\ UNCHANGED supported
     \/ /\ supported[ns[g]] = Absent /\ Known(ns[g])
        /\ pc' = [pc EXCEPT ![g] = "stat"]
        /\ UNCHANGED <<readable, nsLock, supported, ns, found, lists, given>>

Stat(g) ==
  /\ pc[g] = "stat"
  /\ found' = [found EXCEPT ![g] = ns[g] \in readable]
  /\ pc' = [pc EXCEPT ![g] = "store"]
  /\ UNCHANGED <<readable, nsLock, supported, ns, lists, given>>

Store(g) ==
  /\ pc[g] = "store"
  /\ supported' = [supported EXCEPT ![ns[g]] = IF found[g] THEN "yes" ELSE "no"]
  /\ Answer(g, found[g])

\* What /proc/self/ns shows changes.
ProcChanges(t) ==
  /\ readable' = IF t \in readable THEN readable \ {t} ELSE readable \cup {t}
  /\ UNCHANGED <<nsLock, supported, calls, lists, given>>

Step(g) == LookUp(g) \/ Stat(g) \/ Store(g)

Next ==
  \/ \E g \in Goroutines :
       \/ Step(g) \/ Lock(g)
       \/ \E t \in Types : Call(g, t)
  \/ \E t \in Types : RemoveNs(t) \/ \E path \in Paths : AddNs(t, path)
  \/ \E t \in Types \ Unknown : ProcChanges(t)

Spec == Init /\ [][Next]_vars

\* A goroutine that runs goes on, and sync.Mutex hands itself over to a waiter
\* that keeps losing.
FairSpec == Spec /\ \A g \in Goroutines : WF_vars(Step(g)) /\ SF_vars(Lock(g))

-----------------------------------------------------------------------------
\* supportedNamespaces, a Go map, is used by one goroutine at a time, and the
\* one that uses it holds the mutex.
Inside == {"lookup", "stat", "store"}
OneInside == \A g \in Goroutines : pc[g] \in Inside => nsLock = g

\* All answers ever given for a type agree, whichever goroutine asks, however
\* the calls interleave and whatever becomes of the file in /proc meanwhile.
AnswersAgree == \A t \in Types : \A a, b \in given[t] : a = b

\* A type that NsName does not know is never supported and never remembered.
UnknownIsUnsupported ==
  \A t \in Unknown : TRUE \notin given[t] /\ supported[t] = Absent

\* A list of namespaces is a map: it has each type at most once, and PathOf and
\* Contains tell what Add and Remove last said of the type.
ListIsMap ==
  /\ \A i, j \in 1 .. Len(list) : list[i].type = list[j].type => i = j
  /\ \A t \in Types :
       /\ ContainsNs(list, t) <=> wanted[t] # Absent
       /\ ContainsNs(list, t) => PathOf(list, t) = wanted[t]

\* Every call of IsNamespaceSupported returns.
CallsReturn == \A g \in Goroutines : pc[g] = "lock" ~> pc[g] = "idle"

\* The inductive invariant behind AnswersAgree: a known type has been answered
\* only if the answer is remembered, and one that is about to be remembered is
\* not remembered yet.
Remembered ==
  /\ OneInside /\ UnknownIsUnsupported
  /\ \A t \in Types \ Unknown :
       /\ supported[t] = "yes" => given[t] \subseteq {TRUE}
       /\ supported[t] = "no" => given[t] \subseteq {FALSE}
       /\ supported[t] = Absent => given[t] = {}
  /\ \A g \in Goroutines :
       pc[g] \in {"stat", "store"} => supported[ns[g]] = Absent /\ ns[g] \notin Unknown
=============================================================================
