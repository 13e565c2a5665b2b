---------------------------- MODULE ConfigsProofs ----------------------------
(***************************************************************************)
(* Proofs about the package configs.  Namespaces, for any number of        *)
(* goroutines, types and paths: one goroutine at a time uses               *)
(* supportedNamespaces, the answers agree, and a configuration's list of   *)
(* namespaces is a map.  Devices, for any strings: the operations of       *)
(* DevicePermissions are those of sets.                                    *)
(***************************************************************************)
EXTENDS Namespaces, Devices, SequenceTheorems, TLAPS

(***************************************************************************)
(* IsNamespaceSupported.                                                   *)
(***************************************************************************)
CallType ==
  /\ supported \in [Types -> {"yes", "no", Absent}]
  /\ pc \in [Goroutines -> {"idle", "lock", "lookup", "stat", "store"}]
  /\ ns \in [Goroutines -> Types]
  /\ found \in [Goroutines -> BOOLEAN]
  /\ given \in [Types -> SUBSET BOOLEAN]

\* All that the answers rest on.
Inv == CallType /\ Remembered

LEMMA InitInv == Init => Inv
<1> SUFFICES ASSUME Init PROVE Inv
  OBVIOUS
<1>1. CallType
  BY TypesAssumption DEF Init, CallType
<1>2. Remembered
  BY TypesAssumption DEF Init, Remembered, OneInside, Inside, UnknownIsUnsupported,
                         Absent
<1> QED BY <1>1, <1>2 DEF Inv

\* The configuration's list and what /proc shows are not read by Inv.
LEMMA Apart ==
  ASSUME Inv, UNCHANGED <<nsLock, supported, calls, given>>
  PROVE  Inv'
BY DEF Inv, CallType, Remembered, OneInside, UnknownIsUnsupported, calls

LEMMA CallKeeps ==
  ASSUME Inv, NEW g \in Goroutines, NEW t \in Types, Call(g, t)
  PROVE  Inv'
<1> USE DEF Inv, Call
<1>1. CallType'
  BY DEF CallType
<1>2. Remembered'
  BY DEF CallType, Remembered, OneInside, Inside, UnknownIsUnsupported
<1> QED BY <1>1, <1>2

\* The mutex is free, so nobody is inside, when a goroutine gets in.
LEMMA LockKeeps ==
  ASSUME Inv, NEW g \in Goroutines, Lock(g)
  PROVE  Inv'
<1> USE DEF Inv, Lock, LockFree
<1>1. CallType'
  BY DEF CallType
<1>2. \A h \in Goroutines : pc[h] \notin Inside
  BY NobodyAssumption DEF Remembered, OneInside
<1>3. Remembered'
  BY <1>2 DEF CallType, Remembered, OneInside, Inside, UnknownIsUnsupported
<1> QED BY <1>1, <1>3

\* Answering with what is remembered, once it is remembered, is all that the
\* invariant asks of a way out.
LEMMA AnswerKeeps ==
  ASSUME Inv, NEW g \in Goroutines, NEW a \in BOOLEAN, pc[g] \in Inside,
         Answer(g, a), supported' \in [Types -> {"yes", "no", Absent}],
         \A t \in Types \ {ns[g]} : supported'[t] = supported[t],
         ns[g] \in Unknown => ~a /\ supported'[ns[g]] = Absent,
         ns[g] \notin Unknown =>
           /\ supported'[ns[g]] = IF a THEN "yes" ELSE "no"
           /\ given[ns[g]] \subseteq {a}
  PROVE  Inv'
<1> USE DEF Inv, Answer
<1>1. CallType'
  BY DEF CallType
<1>2. \A h \in Goroutines \ {g} : pc[h] \notin Inside
  BY DEF Remembered, OneInside
<1>3. OneInside'
  BY <1>2 DEF CallType, OneInside, Inside
<1>4. UnknownIsUnsupported'
  <2> SUFFICES ASSUME NEW t \in Unknown
               PROVE  TRUE \notin given'[t] /\ supported'[t] = Absent
    BY DEF UnknownIsUnsupported
  <2>1. t \in Types /\ TRUE \notin given[t] /\ supported[t] = Absent
    BY TypesAssumption DEF Remembered, UnknownIsUnsupported
  <2>2. CASE t = ns[g]
    <3>1. a = FALSE
      BY <2>2
    <3>2. given'[t] = given[t] \cup {FALSE}
      BY <2>1, <2>2, <3>1 DEF CallType
    <3> QED BY <2>1, <2>2, <3>2
  <2>3. CASE t # ns[g]
    BY <2>1, <2>3 DEF CallType
  <2> QED BY <2>2, <2>3
<1>5. \A t \in Types \ Unknown :
        /\ supported'[t] = "yes" => given'[t] \subseteq {TRUE}
        /\ supported'[t] = "no" => given'[t] \subseteq {FALSE}
        /\ supported'[t] = Absent => given'[t] = {}
  BY DEF CallType, Remembered, Absent
<1>6. \A h \in Goroutines : pc'[h] \notin {"stat", "store"}
  BY <1>2 DEF CallType, Inside
<1> QED BY <1>1, <1>3, <1>4, <1>5, <1>6 DEF Remembered

LEMMA LookUpKeeps ==
  ASSUME Inv, NEW g \in Goroutines, LookUp(g)
  PROVE  Inv'
<1>1. pc[g] = "lookup" /\ ns[g] \in Types
  BY DEF LookUp, Inv, CallType
<1>2. CASE supported[ns[g]] # Absent
  <2>1. /\ Answer(g, supported[ns[g]] = "yes")
        /\ UNCHANGED supported
    BY <1>2 DEF LookUp
  <2>2. ns[g] \notin Unknown /\ supported[ns[g]] \in {"yes", "no"}
    BY <1>1, <1>2 DEF Inv, CallType, Remembered, UnknownIsUnsupported
  <2>3. CASE supported[ns[g]] = "yes"
    BY <1>1, <2>1, <2>2, <2>3, AnswerKeeps DEF Inv, CallType, Remembered, Inside
  <2>4. CASE supported[ns[g]] = "no"
    BY <1>1, <2>1, <2>2, <2>4, AnswerKeeps DEF Inv, CallType, Remembered, Inside
  <2> QED BY <2>2, <2>3, <2>4
<1>3. CASE supported[ns[g]] = Absent /\ ~Known(ns[g])
  <2>1. Answer(g, FALSE) /\ UNCHANGED supported /\ ns[g] \in Unknown
    BY <1>3 DEF LookUp, Known
  <2> QED BY <1>1, <1>3, <2>1, AnswerKeeps DEF Inv, CallType, Inside
<1>4. CASE supported[ns[g]] = Absent /\ Known(ns[g])
  <2> USE DEF Inv, LookUp
  <2>1. /\ UNCHANGED <<nsLock, supported, ns, found, given>>
        /\ pc' = [pc EXCEPT ![g] = "stat"] /\ ns[g] \notin Unknown
    BY <1>4 DEF Known
  <2>2. CallType'
    BY <2>1 DEF CallType
  <2>3. Remembered'
    BY <1>1, <1>4, <2>1
       DEF CallType, Remembered, OneInside, Inside, UnknownIsUnsupported
  <2> QED BY <2>2, <2>3
<1> QED BY <1>2, <1>3, <1>4

LEMMA StatKeeps ==
  ASSUME Inv, NEW g \in Goroutines, Stat(g)
  PROVE  Inv'
<1> USE DEF Inv, Stat
<1>1. CallType'
  BY DEF CallType
<1>2. Remembered'
  BY DEF CallType, Remembered, OneInside, Inside, UnknownIsUnsupported
<1> QED BY <1>1, <1>2

LEMMA StoreKeeps ==
  ASSUME Inv, NEW g \in Goroutines, Store(g)
  PROVE  Inv'
<1>1. pc[g] = "store" /\ ns[g] \in Types /\ found[g] \in BOOLEAN
  BY DEF Store, Inv, CallType
<1>2. ns[g] \notin Unknown /\ supported[ns[g]] = Absent /\ given[ns[g]] = {}
  BY <1>1 DEF Inv, Remembered
<1>3. supported' = [supported EXCEPT ![ns[g]] = IF found[g] THEN "yes" ELSE "no"]
  BY DEF Store
<1>4. Answer(g, found[g])
  BY DEF Store
<1> QED BY <1>1, <1>2, <1>3, <1>4, AnswerKeeps DEF Inv, CallType, Inside

LEMMA NextInv == Inv /\ [Next]_vars => Inv'
<1> SUFFICES ASSUME Inv, [Next]_vars PROVE Inv'
  OBVIOUS
<1>1. ASSUME NEW g \in Goroutines, Step(g) PROVE Inv'
  BY <1>1, LookUpKeeps, StatKeeps, StoreKeeps DEF Step
<1>2. ASSUME NEW g \in Goroutines, Lock(g) PROVE Inv'
  BY <1>2, LockKeeps
<1>3. ASSUME NEW g \in Goroutines, NEW t \in Types, Call(g, t) PROVE Inv'
  BY <1>3, CallKeeps
<1>4. ASSUME NEW t \in Types,
             RemoveNs(t) \/ ProcChanges(t) \/ (\E path \in Paths : AddNs(t, path))
      PROVE  Inv'
  BY <1>4, Apart DEF RemoveNs, ProcChanges, AddNs
<1>5. CASE UNCHANGED vars
  BY <1>5, Apart DEF vars
<1> QED BY <1>1, <1>2, <1>3, <1>4, <1>5 DEF Next

\* Inv holds in every reachable state.
THEOREM Inductive == Spec => []Inv
  BY InitInv, NextInv, PTL DEF Spec

\* One goroutine at a time is between the Lock and the Unlock.
THEOREM Exclusion == Spec => []OneInside
<1>1. Inv => OneInside
  BY DEF Inv, Remembered
<1> QED BY <1>1, Inductive, PTL

\* However the calls interleave and whatever becomes of /proc, the answers given
\* for one type never differ.
THEOREM Agreement == Spec => []AnswersAgree
<1>1. ASSUME Inv PROVE AnswersAgree
  <2> SUFFICES ASSUME NEW t \in Types, NEW a \in given[t], NEW b \in given[t]
               PROVE  a = b
    BY DEF AnswersAgree
  <2>1. \E v \in BOOLEAN : given[t] \subseteq {v}
    <3>1. CASE t \in Unknown
      <4>1. given[t] \subseteq BOOLEAN /\ TRUE \notin given[t]
        BY <1>1, <3>1 DEF Inv, CallType, Remembered, UnknownIsUnsupported
      <4>2. given[t] \subseteq {FALSE}
        BY <4>1
      <4> QED BY <4>2
    <3>2. CASE t \notin Unknown
      <4>1. supported[t] \in {"yes", "no", Absent}
        BY <1>1 DEF Inv, CallType
      <4>2. \/ given[t] \subseteq {TRUE}
            \/ given[t] \subseteq {FALSE}
        BY <1>1, <3>2, <4>1 DEF Inv, Remembered
      <4> QED BY <4>2
    <3> QED BY <3>1, <3>2
  <2>2. PICK v \in BOOLEAN : given[t] \subseteq {v}
    BY <2>1
  <2>3. a = v /\ b = v
    BY <2>2
  <2> QED BY <2>3
<1> QED BY <1>1, Inductive, PTL

(***************************************************************************)
(* The list.                                                               *)
(***************************************************************************)
Namespace == [type : Types, path : Paths]

Unique(s) == \A i, j \in 1 .. Len(s) : s[i].type = s[j].type => i = j

\* s and r say the same of every type but t.
SameElsewhere(s, r, t) ==
  \A u \in Types \ {t} :
    /\ ContainsNs(r, u) <=> ContainsNs(s, u)
    /\ ContainsNs(s, u) => PathOf(r, u) = PathOf(s, u)

\* index finds the one element that has the type.
LEMMA Found ==
  ASSUME NEW s \in Seq(Namespace), Unique(s), NEW i \in 1 .. Len(s)
  PROVE  /\ ContainsNs(s, s[i].type)
         /\ (CHOOSE k \in 1 .. Len(s) : Holds(s, k, s[i].type)) = i
         /\ PathOf(s, s[i].type) = s[i].path
<1>1. ContainsNs(s, s[i].type)
  BY DEF ContainsNs
<1>2. Holds(s, i, s[i].type)
  BY DEF Holds, Unique
<1>3. \A k \in 1 .. Len(s) : Holds(s, k, s[i].type) => k = i
  BY DEF Holds, Unique
<1>4. (CHOOSE k \in 1 .. Len(s) : Holds(s, k, s[i].type)) = i
  BY <1>2, <1>3
<1> QED BY <1>1, <1>4 DEF PathOf

\* Add appends the type or sets its path, and leaves the other types alone.
LEMMA AddedIsMap ==
  ASSUME NEW s \in Seq(Namespace), Unique(s), NEW t \in Types, NEW path \in Paths
  PROVE  /\ Added(s, t, path) \in Seq(Namespace)
         /\ Unique(Added(s, t, path))
         /\ ContainsNs(Added(s, t, path), t)
         /\ PathOf(Added(s, t, path), t) = path
         /\ SameElsewhere(s, Added(s, t, path), t)
<1> DEFINE r == Added(s, t, path)
<1>1. CASE ContainsNs(s, t)
  <2>1. PICK i \in 1 .. Len(s) : s[i].type = t
    BY <1>1 DEF ContainsNs
  <2>2. r = [s EXCEPT ![i].path = path]
    BY <1>1, <2>1, Found DEF Added
  <2>3. /\ r \in Seq(Namespace) /\ Len(r) = Len(s)
        /\ \A j \in 1 .. Len(s) : r[j].type = s[j].type
        /\ r[i].path = path
        /\ \A j \in (1 .. Len(s)) \ {i} : r[j] = s[j]
    <3> DEFINE n == [s[i] EXCEPT !.path = path]
    <3>1. s[i] \in Namespace
      OBVIOUS
    <3>2. n \in Namespace /\ n.type = s[i].type /\ n.path = path
      BY <3>1 DEF Namespace
    <3>3. r = [s EXCEPT ![i] = n]
      BY <2>2
    <3> HIDE DEF n, r
    <3> QED BY <3>2, <3>3
  <2>4. Unique(r)
    BY <2>3 DEF Unique
  <2>5. ContainsNs(r, t) /\ PathOf(r, t) = path
    BY <2>1, <2>3, <2>4, Found
  <2>6. SameElsewhere(s, r, t)
    <3> SUFFICES ASSUME NEW u \in Types \ {t}
                 PROVE  /\ ContainsNs(r, u) <=> ContainsNs(s, u)
                        /\ ContainsNs(s, u) => PathOf(r, u) = PathOf(s, u)
      BY DEF SameElsewhere
    <3>1. ContainsNs(r, u) <=> ContainsNs(s, u)
      BY <2>3 DEF ContainsNs
    <3>2. ASSUME ContainsNs(s, u) PROVE PathOf(r, u) = PathOf(s, u)
      <4>1. PICK j \in 1 .. Len(s) : s[j].type = u
        BY <3>2 DEF ContainsNs
      <4>2. j # i /\ r[j] = s[j] /\ j \in 1 .. Len(r)
        BY <2>1, <2>3, <4>1
      <4> QED BY <2>3, <2>4, <4>1, <4>2, Found
    <3> QED BY <3>1, <3>2
  <2> QED BY <2>3, <2>4, <2>5, <2>6
<1>2. CASE ~ContainsNs(s, t)
  <2>1. r = Append(s, [type |-> t, path |-> path])
    BY <1>2 DEF Added
  <2>2. /\ r \in Seq(Namespace) /\ Len(r) = Len(s) + 1
        /\ \A j \in 1 .. Len(s) : r[j] = s[j]
        /\ r[Len(s) + 1] = [type |-> t, path |-> path]
    BY <2>1 DEF Namespace
  <2>3. \A j \in 1 .. Len(s) : s[j].type # t
    BY <1>2 DEF ContainsNs
  <2>4. Unique(r)
    BY <2>2, <2>3 DEF Unique
  <2>5. ContainsNs(r, t) /\ PathOf(r, t) = path
    BY <2>2, <2>4, Found
  <2>6. SameElsewhere(s, r, t)
    <3> SUFFICES ASSUME NEW u \in Types \ {t}
                 PROVE  /\ ContainsNs(r, u) <=> ContainsNs(s, u)
                        /\ ContainsNs(s, u) => PathOf(r, u) = PathOf(s, u)
      BY DEF SameElsewhere
    <3>1. ContainsNs(r, u) <=> ContainsNs(s, u)
      BY <2>2 DEF ContainsNs
    <3>2. ASSUME ContainsNs(s, u) PROVE PathOf(r, u) = PathOf(s, u)
      <4>1. PICK j \in 1 .. Len(s) : s[j].type = u
        BY <3>2 DEF ContainsNs
      <4>2. r[j] = s[j] /\ j \in 1 .. Len(r)
        BY <2>2, <4>1
      <4> QED BY <2>2, <2>4, <4>1, <4>2, Found
    <3> QED BY <3>1, <3>2
  <2> QED BY <2>2, <2>4, <2>5, <2>6
<1> QED BY <1>1, <1>2

\* Remove takes the type out and leaves the other types alone.
LEMMA RemovedIsMap ==
  ASSUME NEW s \in Seq(Namespace), Unique(s), NEW t \in Types
  PROVE  /\ Removed(s, t) \in Seq(Namespace)
         /\ Unique(Removed(s, t))
         /\ ~ContainsNs(Removed(s, t), t)
         /\ SameElsewhere(s, Removed(s, t), t)
<1> DEFINE r == Removed(s, t)
<1>1. CASE ContainsNs(s, t)
  <2>1. PICK i \in 1 .. Len(s) : s[i].type = t
    BY <1>1 DEF ContainsNs
  <2>2. r = Without(s, i)
    BY <1>1, <2>1, Found DEF Removed
  <2>3. /\ r \in Seq(Namespace) /\ Len(r) = Len(s) - 1
        /\ \A j \in 1 .. Len(r) : r[j] = IF j < i THEN s[j] ELSE s[j + 1]
    <3>1. \A j \in 1 .. (Len(s) - 1) : (IF j < i THEN s[j] ELSE s[j + 1]) \in Namespace
      OBVIOUS
    <3>2. r = [j \in 1 .. (Len(s) - 1) |-> IF j < i THEN s[j] ELSE s[j + 1]]
      BY <2>2 DEF Without
    <3>3. Len(s) - 1 \in Nat
      OBVIOUS
    <3> HIDE DEF r
    <3>4. r \in [1 .. (Len(s) - 1) -> Namespace]
      BY <3>1, <3>2
    <3>5. r \in Seq(Namespace)
      BY <3>3, <3>4
    <3>6. Len(r) = Len(s) - 1
      BY <3>3, <3>4, <3>5, LenProperties
    <3> QED BY <3>2, <3>5, <3>6
  <2> HIDE DEF r
  <2>4. Unique(r)
    BY <2>3 DEF Unique
  <2>5. ~ContainsNs(r, t)
    BY <2>1, <2>3 DEF ContainsNs, Unique
  <2>6. SameElsewhere(s, r, t)
    <3> SUFFICES ASSUME NEW u \in Types \ {t}
                 PROVE  /\ ContainsNs(r, u) <=> ContainsNs(s, u)
                        /\ ContainsNs(s, u) => PathOf(r, u) = PathOf(s, u)
      BY DEF SameElsewhere
    <3>1. ContainsNs(r, u) => ContainsNs(s, u)
      BY <2>3 DEF ContainsNs
    <3>2. ASSUME ContainsNs(s, u)
          PROVE  ContainsNs(r, u) /\ PathOf(r, u) = PathOf(s, u)
      <4>1. PICK j \in 1 .. Len(s) : s[j].type = u
        BY <3>2 DEF ContainsNs
      <4>2. PICK k \in 1 .. Len(r) : r[k] = s[j]
        <5>1. CASE j < i
          BY <2>3, <5>1
        <5>2. CASE j > i
          <6>1. j - 1 \in 1 .. Len(r) /\ r[j - 1] = s[j]
            BY <2>3, <5>2
          <6> QED BY <6>1
        <5> QED BY <2>1, <4>1, <5>1, <5>2
      <4> QED BY <2>3, <2>4, <4>1, <4>2, Found
    <3> QED BY <3>1, <3>2
  <2> QED BY <2>3, <2>4, <2>5, <2>6 DEF r
<1>2. CASE ~ContainsNs(s, t)
  BY <1>2 DEF Removed, SameElsewhere
<1> QED BY <1>1, <1>2

ListInv ==
  /\ list \in Seq(Namespace) /\ wanted \in [Types -> Paths \cup {Absent}]
  /\ ListIsMap

LEMMA ListInit == Init => ListInv
<1> SUFFICES ASSUME Init PROVE ListInv
  OBVIOUS
<1>1. list \in Seq(Namespace) /\ Len(list) = 0
  BY DEF Init
<1>2. wanted = [t \in Types |-> Absent]
  BY DEF Init
<1> QED BY <1>1, <1>2 DEF ListInv, ListIsMap, ContainsNs

LEMMA AddKeeps ==
  ASSUME ListInv, NEW t \in Types, NEW path \in Paths, AddNs(t, path)
  PROVE  ListInv'
<1>1. list' = Added(list, t, path) /\ wanted' = [wanted EXCEPT ![t] = path]
  BY DEF AddNs
<1>2. list \in Seq(Namespace) /\ Unique(list)
  BY DEF ListInv, ListIsMap, Unique
<1>3. /\ list' \in Seq(Namespace) /\ Unique(list')
      /\ ContainsNs(list', t) /\ PathOf(list', t) = path
      /\ SameElsewhere(list, list', t)
  BY <1>1, <1>2, AddedIsMap
<1>4. /\ wanted' \in [Types -> Paths \cup {Absent}]
      /\ wanted'[t] = path /\ path # Absent
      /\ \A u \in Types \ {t} : wanted'[u] = wanted[u]
  BY <1>1, PathsToJoinAssumption DEF ListInv
<1>5. \A u \in Types : /\ ContainsNs(list', u) <=> wanted'[u] # Absent
                       /\ ContainsNs(list', u) => PathOf(list', u) = wanted'[u]
  BY <1>3, <1>4 DEF ListInv, ListIsMap, SameElsewhere
<1> QED BY <1>3, <1>4, <1>5 DEF ListInv, ListIsMap, Unique, ContainsNs, PathOf, Holds

LEMMA RemoveKeeps ==
  ASSUME ListInv, NEW t \in Types, RemoveNs(t)
  PROVE  ListInv'
<1>1. list' = Removed(list, t) /\ wanted' = [wanted EXCEPT ![t] = Absent]
  BY DEF RemoveNs
<1>2. list \in Seq(Namespace) /\ Unique(list)
  BY DEF ListInv, ListIsMap, Unique
<1>3. /\ list' \in Seq(Namespace) /\ Unique(list')
      /\ ~ContainsNs(list', t) /\ SameElsewhere(list, list', t)
  BY <1>1, <1>2, RemovedIsMap
<1>4. /\ wanted' \in [Types -> Paths \cup {Absent}] /\ wanted'[t] = Absent
      /\ \A u \in Types \ {t} : wanted'[u] = wanted[u]
  BY <1>1 DEF ListInv
<1>5. \A u \in Types : /\ ContainsNs(list', u) <=> wanted'[u] # Absent
                       /\ ContainsNs(list', u) => PathOf(list', u) = wanted'[u]
  BY <1>3, <1>4 DEF ListInv, ListIsMap, SameElsewhere
<1> QED BY <1>3, <1>4, <1>5 DEF ListInv, ListIsMap, Unique, ContainsNs, PathOf, Holds

\* Whatever was added, overwritten and removed, in whatever order, the list has
\* each type at most once and tells the path it was given last.
THEOREM IsMap == Spec => []ListIsMap
<1>1. ASSUME ListInv, [Next]_vars PROVE ListInv'
  <2>1. CASE UNCHANGED lists
    BY <1>1, <2>1 DEF lists, ListInv, ListIsMap, ContainsNs, PathOf, Holds
  <2>2. ASSUME NEW t \in Types, NEW path \in Paths, AddNs(t, path) PROVE ListInv'
    BY <1>1, <2>2, AddKeeps
  <2>3. ASSUME NEW t \in Types, RemoveNs(t) PROVE ListInv'
    BY <1>1, <2>3, RemoveKeeps
  <2>4. UNCHANGED lists \/ \E t \in Types : RemoveNs(t) \/ \E path \in Paths : AddNs(t, path)
    BY <1>1 DEF Next, Step, Lock, Call, LookUp, Stat, Store, Answer, ProcChanges,
                lists, vars
  <2> QED BY <2>1, <2>2, <2>3, <2>4
<1>2. ListInv => ListIsMap
  BY DEF ListInv
<1> QED BY <1>1, <1>2, ListInit, PTL DEF Spec
-----------------------------------------------------------------------------
(***************************************************************************)
(* DevicePermissions.                                                      *)
(***************************************************************************)
\* The code's set of bits is the set of the permissions that occur.
LEMMA ToSetIsListed == ASSUME NEW p PROVE toSet(p) = Listed(p)
BY DEF toSet, Listed

LEMMA Ranks == Rank["r"] = 1 /\ Rank["w"] = 2 /\ Rank["m"] = 3
BY DEF Rank, Permissions

\* What short strings list, and when they are in order.
LEMMA None ==
  Listed(<<>>) = {} /\ InOrder(<<>>) /\ <<>> \in Seq(Permissions)
<1>1. Len(<<>>) = 0 /\ 1 .. 0 = {}
  OBVIOUS
<1> QED BY <1>1 DEF Listed, InOrder

LEMMA One ==
  ASSUME NEW a \in Permissions
  PROVE  /\ Listed(<<a>>) = {a} /\ InOrder(<<a>>)
         /\ <<a>> \in Seq(Permissions) /\ <<a>> # <<>>
<1>1. Len(<<a>>) = 1 /\ 1 .. 1 = {1} /\ <<a>>[1] = a
  OBVIOUS
<1>2. Listed(<<a>>) = {a} /\ InOrder(<<a>>)
  BY <1>1 DEF Listed, InOrder
<1> QED BY <1>2

LEMMA Two ==
  ASSUME NEW a \in Permissions, NEW b \in Permissions
  PROVE  /\ Listed(<<a, b>>) = {a, b}
         /\ InOrder(<<a, b>>) <=> Rank[a] < Rank[b]
         /\ <<a, b>> \in Seq(Permissions) /\ <<a, b>> # <<>>
<1>1. Len(<<a, b>>) = 2 /\ 1 .. 2 = {1, 2} /\ <<a, b>>[1] = a /\ <<a, b>>[2] = b
  OBVIOUS
<1>2. Listed(<<a, b>>) = {a, b}
  BY <1>1 DEF Listed
<1>3. Rank[a] \in Nat /\ Rank[b] \in Nat
  BY DEF Rank, Permissions
<1>4. InOrder(<<a, b>>) <=> Rank[a] < Rank[b]
  BY <1>1, <1>3 DEF InOrder
<1>5. <<a, b>> \in Seq(Permissions) /\ <<a, b>> # <<>>
  OBVIOUS
<1> QED BY <1>2, <1>4, <1>5

LEMMA Three ==
  ASSUME NEW a \in Permissions, NEW b \in Permissions, NEW c \in Permissions
  PROVE  /\ Listed(<<a, b, c>>) = {a, b, c}
         /\ InOrder(<<a, b, c>>) <=> Rank[a] < Rank[b] /\ Rank[b] < Rank[c]
         /\ <<a, b, c>> \in Seq(Permissions) /\ <<a, b, c>> # <<>>
<1>1. /\ Len(<<a, b, c>>) = 3 /\ 1 .. 3 = {1, 2, 3}
      /\ <<a, b, c>>[1] = a /\ <<a, b, c>>[2] = b /\ <<a, b, c>>[3] = c
  OBVIOUS
<1>2. Listed(<<a, b, c>>) = {a, b, c}
  BY <1>1 DEF Listed
<1>3. Rank[a] \in Nat /\ Rank[b] \in Nat /\ Rank[c] \in Nat
  BY DEF Rank, Permissions
<1>4. InOrder(<<a, b, c>>) <=> Rank[a] < Rank[b] /\ Rank[b] < Rank[c]
  BY <1>1, <1>3 DEF InOrder
<1>5. <<a, b, c>> \in Seq(Permissions) /\ <<a, b, c>> # <<>>
  OBVIOUS
<1> QED BY <1>2, <1>4, <1>5

\* What the concatenations in fromSet come to.
LEMMA Joined ==
  ASSUME NEW a \in Permissions, NEW b \in Permissions, NEW c \in Permissions
  PROVE  /\ <<>> \o <<a>> = <<a>> /\ <<a>> \o <<>> = <<a>> /\ <<>> \o <<>> = <<>>
         /\ <<a>> \o <<b>> = <<a, b>> /\ <<a, b>> \o <<>> = <<a, b>>
         /\ <<a, b>> \o <<c>> = <<a, b, c>>
<1>1. <<>> \o <<a>> = <<a>> /\ <<a>> \o <<>> = <<a>> /\ <<>> \o <<>> = <<>>
  OBVIOUS
<1>2. <<a>> \o <<b>> = <<a, b>>
  <2> DEFINE s == <<a>> \o <<b>>
  <2>1. s \in Seq(Permissions) /\ Len(s) = 2 /\ s[1] = a /\ s[2] = b
    OBVIOUS
  <2> HIDE DEF s
  <2>2. s = <<a, b>>
    BY <2>1
  <2> QED BY <2>2 DEF s
<1>3. <<a, b>> \o <<>> = <<a, b>>
  OBVIOUS
<1>4. <<a, b>> \o <<c>> = <<a, b, c>>
  <2> DEFINE s == <<a, b>> \o <<c>>
  <2>1. s \in Seq(Permissions) /\ Len(s) = 3 /\ s[1] = a /\ s[2] = b /\ s[3] = c
    OBVIOUS
  <2> HIDE DEF s
  <2>2. s = <<a, b, c>>
    BY <2>1
  <2> QED BY <2>2 DEF s
<1> QED BY <1>1, <1>2, <1>3, <1>4

\* The eight strings that fromSet makes.
LEMMA Canonical ==
  /\ fromSet({}) = <<>>
  /\ fromSet({"r"}) = <<"r">> /\ fromSet({"w"}) = <<"w">> /\ fromSet({"m"}) = <<"m">>
  /\ fromSet({"r", "w"}) = <<"r", "w">> /\ fromSet({"r", "m"}) = <<"r", "m">>
  /\ fromSet({"w", "m"}) = <<"w", "m">>
  /\ fromSet({"r", "w", "m"}) = <<"r", "w", "m">>
<1>1. fromSet({}) = <<>>
  BY DEF fromSet, If
<1>2. fromSet({"r"}) = <<"r">>
  BY DEF fromSet, If
<1>3. fromSet({"w"}) = <<"w">>
  BY DEF fromSet, If
<1>4. fromSet({"m"}) = <<"m">>
  BY DEF fromSet, If
<1>5. fromSet({"r", "w"}) = <<"r", "w">>
  <2>1. /\ If({"r", "w"}, "r") = <<"r">>
        /\ If({"r", "w"}, "w") = <<"w">>
        /\ If({"r", "w"}, "m") = <<>>
    BY DEF If
  <2>2. /\ <<"r">> \o <<"w">> = <<"r", "w">>
        /\ <<"r", "w">> \o <<>> = <<"r", "w">>
    BY Joined DEF Permissions
  <2> QED BY <2>1, <2>2 DEF fromSet
<1>6. fromSet({"r", "m"}) = <<"r", "m">>
  <2>1. /\ If({"r", "m"}, "r") = <<"r">>
        /\ If({"r", "m"}, "w") = <<>>
        /\ If({"r", "m"}, "m") = <<"m">>
    BY DEF If
  <2>2. /\ <<"r">> \o <<>> = <<"r">>
        /\ <<"r">> \o <<"m">> = <<"r", "m">>
    BY Joined DEF Permissions
  <2> QED BY <2>1, <2>2 DEF fromSet
<1>7. fromSet({"w", "m"}) = <<"w", "m">>
  <2>1. /\ If({"w", "m"}, "r") = <<>>
        /\ If({"w", "m"}, "w") = <<"w">>
        /\ If({"w", "m"}, "m") = <<"m">>
    BY DEF If
  <2>2. /\ <<>> \o <<"w">> = <<"w">>
        /\ <<"w">> \o <<"m">> = <<"w", "m">>
    BY Joined DEF Permissions
  <2> QED BY <2>1, <2>2 DEF fromSet
<1>8. fromSet({"r", "w", "m"}) = <<"r", "w", "m">>
  <2>1. /\ If({"r", "w", "m"}, "r") = <<"r">>
        /\ If({"r", "w", "m"}, "w") = <<"w">>
        /\ If({"r", "w", "m"}, "m") = <<"m">>
    BY DEF If
  <2>2. /\ <<"r">> \o <<"w">> = <<"r", "w">>
        /\ <<"r", "w">> \o <<"m">> = <<"r", "w", "m">>
    BY Joined DEF Permissions
  <2> QED BY <2>1, <2>2 DEF fromSet
<1> QED BY <1>1, <1>2, <1>3, <1>4, <1>5, <1>6, <1>7, <1>8

\* fromSet lists the set it is given, in order.
LEMMA FromSetLists ==
  ASSUME NEW set \in SUBSET Permissions
  PROVE  /\ fromSet(set) \in Seq(Permissions)
         /\ Listed(fromSet(set)) = set
         /\ InOrder(fromSet(set))
         /\ fromSet(set) = <<>> <=> set = {}
<1>1. {"r", "w", "m"} = Permissions
  BY DEF Permissions
<1>2. \/ set = {} \/ set = {"r"} \/ set = {"w"} \/ set = {"m"}
      \/ set = {"r", "w"} \/ set = {"r", "m"} \/ set = {"w", "m"}
      \/ set = {"r", "w", "m"}
  BY <1>1
<1>3. ASSUME NEW a \in Permissions, fromSet(set) = <<a>>, set = {a}
      PROVE  /\ fromSet(set) \in Seq(Permissions) /\ Listed(fromSet(set)) = set
             /\ InOrder(fromSet(set)) /\ (fromSet(set) = <<>> <=> set = {})
  BY <1>3, One
<1>4. ASSUME NEW a \in Permissions, NEW b \in Permissions, Rank[a] < Rank[b],
             fromSet(set) = <<a, b>>, set = {a, b}
      PROVE  /\ fromSet(set) \in Seq(Permissions) /\ Listed(fromSet(set)) = set
             /\ InOrder(fromSet(set)) /\ (fromSet(set) = <<>> <=> set = {})
  BY <1>4, Two
<1>5. CASE set = {}
  BY <1>5, Canonical, None
<1>6. CASE set = {"r"}
  BY <1>1, <1>3, <1>6, Canonical
<1>7. CASE set = {"w"}
  BY <1>1, <1>3, <1>7, Canonical
<1>8. CASE set = {"m"}
  BY <1>1, <1>3, <1>8, Canonical
<1>9. CASE set = {"r", "w"}
  BY <1>1, <1>4, <1>9, Canonical, Ranks
<1>10. CASE set = {"r", "m"}
  BY <1>1, <1>4, <1>10, Canonical, Ranks
<1>11. CASE set = {"w", "m"}
  BY <1>1, <1>4, <1>11, Canonical, Ranks
<1>12. CASE set = {"r", "w", "m"}
  <2>1. fromSet(set) = <<"r", "w", "m">>
    BY <1>12, Canonical
  <2>2. Listed(<<"r", "w", "m">>) = {"r", "w", "m"} /\ InOrder(<<"r", "w", "m">>)
    BY <1>1, Three, Ranks
  <2>3. <<"r", "w", "m">> \in Seq(Permissions) /\ <<"r", "w", "m">> # <<>>
    BY <1>1, Three
  <2> QED BY <1>12, <2>1, <2>2, <2>3
<1> QED BY <1>2, <1>5, <1>6, <1>7, <1>8, <1>9, <1>10, <1>11, <1>12

\* Every permission string is a sequence; a result lists its set.
ListsIdeal ==
  /\ perm \in Seq(Chars)
  /\ ideal = Listed(perm)
  /\ operated => perm = fromSet(ideal)

LEMMA PermInductive == PermSpec => []ListsIdeal
<1>1. PermInit => ListsIdeal
  BY StringsAssumption DEF PermInit, ListsIdeal
<1>2. ListsIdeal /\ [PermNext]_permVars => ListsIdeal'
  <2> SUFFICES ASSUME ListsIdeal, [PermNext]_permVars PROVE ListsIdeal'
    OBVIOUS
  <2>1. ASSUME NEW set \in SUBSET Permissions, Operate(fromSet(set), set)
        PROVE  ListsIdeal'
    BY <2>1, FromSetLists, CharsAssumption DEF Operate, ListsIdeal
  <2>2. ASSUME NEW o \in Strings, Operate(Union(perm, o), ideal \cup Listed(o))
        PROVE  ListsIdeal'
    <3>1. Union(perm, o) = fromSet(ideal \cup Listed(o))
      BY ToSetIsListed DEF Union, ListsIdeal
    <3> QED BY <2>1, <2>2, <3>1 DEF Listed, ListsIdeal
  <2>3. ASSUME NEW o \in Strings, Operate(Difference(perm, o), ideal \ Listed(o))
        PROVE  ListsIdeal'
    <3>1. Difference(perm, o) = fromSet(ideal \ Listed(o))
      BY ToSetIsListed DEF Difference, ListsIdeal
    <3> QED BY <2>1, <2>3, <3>1 DEF Listed, ListsIdeal
  <2>4. ASSUME NEW o \in Strings, Operate(Intersection(perm, o), ideal \cap Listed(o))
        PROVE  ListsIdeal'
    <3>1. Intersection(perm, o) = fromSet(ideal \cap Listed(o))
      BY ToSetIsListed DEF Intersection, ListsIdeal
    <3> QED BY <2>1, <2>4, <3>1 DEF Listed, ListsIdeal
  <2>5. CASE UNCHANGED permVars
    BY <2>5 DEF permVars, ListsIdeal
  <2> QED BY <2>2, <2>3, <2>4, <2>5 DEF PermNext
<1> QED BY <1>1, <1>2, PTL DEF PermSpec

\* For any strings and any number of operations, the result lists the set that
\* the same operations on sets give (devices.go:70-95).
THEOREM Operations == PermSpec => []SetOperations
<1>1. ListsIdeal => SetOperations
  <2> SUFFICES ASSUME ListsIdeal PROVE SetOperations
    OBVIOUS
  <2>1. toSet(perm) = ideal /\ ideal \in SUBSET Permissions
    BY ToSetIsListed DEF ListsIdeal, Listed
  <2> QED BY <2>1, FromSetLists DEF ListsIdeal, SetOperations, IsValid, IsEmpty
<1> QED BY <1>1, PermInductive, PTL

\* A string that lists permissions in order is what fromSet makes of its set.
LEMMA InOrderIsCanonical ==
  ASSUME NEW p \in Seq(Chars), InOrder(p) PROVE p = fromSet(Listed(p))
<1> Len(p) \in Nat /\ DOMAIN p = 1 .. Len(p) /\ p = [i \in 1 .. Len(p) |-> p[i]]
  OBVIOUS
<1>1. Len(p) <= 3
  <2> SUFFICES ASSUME Len(p) >= 4 PROVE FALSE
    OBVIOUS
  <2>1. /\ Rank[p[1]] < Rank[p[2]] /\ Rank[p[2]] < Rank[p[3]] /\ Rank[p[3]] < Rank[p[4]]
        /\ \A i \in 1 .. 4 : Rank[p[i]] \in 1 .. 3
    BY DEF InOrder, Rank, Permissions
  <2> QED BY <2>1
<1>2. \A i \in 1 .. Len(p) : p[i] \in Permissions
  BY DEF InOrder
<1>3. CASE Len(p) = 0
  <2>1. p = <<>>
    BY <1>3
  <2> QED BY <2>1, None, Canonical
<1>4. CASE Len(p) = 1
  <2>1. PICK a \in Permissions : p = <<a>>
    BY <1>2, <1>4
  <2>2. Listed(p) = {a}
    BY <2>1, One
  <2> QED BY <2>1, <2>2, Canonical DEF Permissions
<1>5. CASE Len(p) = 2
  <2>1. PICK a \in Permissions, b \in Permissions : p = <<a, b>>
    <3>1. p = <<p[1], p[2]>> /\ p[1] \in Permissions /\ p[2] \in Permissions
      BY <1>2, <1>5
    <3> QED BY <3>1
  <2>2. Listed(p) = {a, b} /\ Rank[a] < Rank[b]
    BY <2>1, Two
  <2>3. \/ a = "r" /\ b = "w"
        \/ a = "r" /\ b = "m"
        \/ a = "w" /\ b = "m"
    BY <2>2, Ranks DEF Permissions
  <2> QED BY <2>1, <2>2, <2>3, Canonical
<1>6. CASE Len(p) = 3
  <2>1. PICK a \in Permissions, b \in Permissions, c \in Permissions : p = <<a, b, c>>
    <3>1. /\ p = <<p[1], p[2], p[3]>>
          /\ p[1] \in Permissions /\ p[2] \in Permissions /\ p[3] \in Permissions
      BY <1>2, <1>6
    <3> QED BY <3>1
  <2>2. Listed(p) = {a, b, c} /\ Rank[a] < Rank[b] /\ Rank[b] < Rank[c]
    BY <2>1, Three
  <2>3. a = "r" /\ b = "w" /\ c = "m"
    BY <2>2, Ranks DEF Permissions
  <2> QED BY <2>1, <2>2, <2>3, Canonical
<1> QED BY <1>1, <1>3, <1>4, <1>5, <1>6

\* For any string, IsValid says that it lists permissions in order
\* (devices.go:97-100).
THEOREM Valid == PermSpec => []ValidIsInOrder
<1>1. ListsIdeal => ValidIsInOrder
  <2> SUFFICES ASSUME ListsIdeal PROVE ValidIsInOrder
    OBVIOUS
  <2>1. toSet(perm) = Listed(perm) /\ Listed(perm) \in SUBSET Permissions
    BY ToSetIsListed DEF Listed
  <2> QED BY <2>1, FromSetLists, InOrderIsCanonical
           DEF ListsIdeal, ValidIsInOrder, IsValid
<1> QED BY <1>1, PermInductive, PTL
=============================================================================
