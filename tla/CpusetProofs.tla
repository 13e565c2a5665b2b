---------------------------- MODULE CpusetProofs ----------------------------
(***************************************************************************)
(* Proofs about Cpuset, for any hierarchy of groups, any processes and any *)
(* requests: a Create that returned nil has filled the group and every     *)
(* group above it, whatever others do and wherever they die.               *)
(***************************************************************************)
EXTENDS Cpuset, SequenceTheorems, TLAPS

TypeOK ==
  /\ made \subseteq Groups \cup {Root} /\ Root \in made
  /\ value \in [Groups \cup {Root} -> [Names -> SUBSET Online]]
  /\ pc \in [Procs -> {"idle", "mkdir", "readCurrent", "readParent", "copy", "explicit"}]
  /\ target \in [Procs -> Groups \cup {Root}]
  /\ req \in [Procs -> [Names -> SUBSET Online]]
  /\ level \in [Procs -> Nat \ {0}]
  /\ at \in [Procs -> {1, 2}]
  /\ cur \in [Procs -> [Names -> SUBSET Online]]
  /\ par \in [Procs -> [Names -> SUBSET Online]]
  /\ result \in [Procs -> {"none", "ok", "error", "crashed"}]
  /\ touched \in [Procs -> SUBSET ((Groups \cup {Root}) \X Names)]

(***************************************************************************)
(* The inductive invariant, of each process's call.                        *)
(***************************************************************************)
\* The first k groups on the way to the group asked for are filled.
FilledTo(p, k) == \A i \in 1 .. k : Populated(SubSeq(target[p], 1, i))

\* Only a path below the mount point is walked to, level by level, and what is
\* behind is filled.
Walking(p) ==
  /\ pc[p] # "idle" =>
       /\ target[p] \in Groups /\ result[p] = "none"
       /\ level[p] <= Len(target[p]) + 1
       /\ FilledTo(p, level[p] - 1)
  /\ result[p] = "ok" => target[p] \in Groups /\ FilledTo(p, Len(target[p]))
  /\ pc[p] = "idle" => level[p] = 1 /\ at[p] = 1
  /\ pc[p] = "explicit" => level[p] = Len(target[p]) + 1
  /\ pc[p] \in {"readCurrent", "readParent", "copy"} => Current(p) \in made

\* The files of the current group, of its parent and of copyIfNeeded that the
\* call is done with.
ReadOf(p, f, l, after) == pc[p] \in after \/ (pc[p] = l /\ at[p] = 2 /\ f = "cpus")

Copying(p) ==
  /\ pc[p] = "mkdir" => at[p] = 1
  /\ \A f \in Names :
       /\ (ReadOf(p, f, "readCurrent", {"readParent", "copy"}) /\ cur[p][f] # {})
            => value[Current(p)][f] # {}
       /\ ReadOf(p, f, "readParent", {"copy"}) => par[p][f] # {}
       /\ ReadOf(p, f, "copy", {}) => value[Current(p)][f] # {}

\* What was asked for has been written, unless others wrote it since.
Written(p) ==
  \A f \in Names :
    (/\ result[p] = "ok" \/ ReadOf(p, f, "explicit", {})
     /\ req[p][f] # {} /\ <<target[p], f>> \notin touched[p])
      => value[target[p]][f] = req[p][f]

CallInv(p) == Walking(p) /\ Copying(p) /\ Written(p)

\* The mount point holds what is online, and nobody writes it.
RootFull == value[Root] = [f \in Names |-> Online]

IInv == TypeOK /\ RootFull /\ \A p \in Procs : CallInv(p)

-----------------------------------------------------------------------------
(***************************************************************************)
(* Groups and the way to them.                                             *)
(***************************************************************************)
LEMMA PrefixFacts ==
  ASSUME NEW g \in Groups
  PROVE  /\ Len(g) \in Nat /\ Len(g) >= 1
         /\ SubSeq(g, 1, Len(g)) = g /\ SubSeq(g, 1, 0) = Root
         /\ \A k \in 1 .. Len(g) : /\ SubSeq(g, 1, k) \in Groups
                                   /\ Parent(SubSeq(g, 1, k)) = SubSeq(g, 1, k - 1)
<1>1. g \in Seq(STRING) /\ g # Root /\ Lineage(g) \subseteq Groups
  BY GroupsAssumption
<1>2. Len(g) \in Nat /\ Len(g) >= 1
  BY <1>1 DEF Root
<1>3. SubSeq(g, 1, Len(g)) = g
  BY <1>1, SubSeqFull
<1>4. SubSeq(g, 1, 0) = Root
  BY SubSeqEmpty DEF Root
<1>5. ASSUME NEW k \in 1 .. Len(g)
      PROVE  Parent(SubSeq(g, 1, k)) = SubSeq(g, 1, k - 1)
  <2> DEFINE s == SubSeq(g, 1, k)
  <2>1. s \in Seq(STRING) /\ Len(s) = k
    <3>1. \A i \in 1 .. k : g[i] \in STRING
      BY <1>1, <1>2
    <3> QED BY <1>2, <3>1, SubSeqProperties
  <2>2. CASE k = 1
    <3>1. SubSeq(s, 1, 0) = <<>> /\ SubSeq(g, 1, 0) = <<>>
      BY SubSeqEmpty
    <3> QED BY <2>1, <2>2, <3>1 DEF Parent
  <2>3. CASE k # 1
    <3>1. 1 \in 1 .. (k - 1 + 1) /\ k - 1 \in 1 .. (k - 1 + 1)
      BY <1>2, <2>3
    <3>2. SubSeq(s, 1, k - 1) = SubSeq(g, 1 + 1 - 1, 1 + (k - 1) - 1)
      BY <1>1, <1>2, <2>3, SubSeqOfSubSeq
    <3> QED BY <1>2, <2>1, <3>2 DEF Parent
  <2> QED BY <2>2, <2>3
<1>6. \A k \in 1 .. Len(g) : SubSeq(g, 1, k) \in Groups
  BY <1>1 DEF Lineage
<1> QED BY <1>2, <1>3, <1>4, <1>5, <1>6

\* The group a call is at lies on its way; its parent is behind it.
LEMMA CurrentFacts ==
  ASSUME TypeOK, NEW p \in Procs, Walking(p), pc[p] # "idle"
  PROVE  \E m \in 1 .. Len(target[p]) :
           /\ Current(p) = SubSeq(target[p], 1, m) /\ Current(p) \in Groups
           /\ m <= level[p] /\ (level[p] <= Len(target[p]) => m = level[p])
           /\ (level[p] > Len(target[p]) => Current(p) = target[p])
           /\ Parent(Current(p)) = SubSeq(target[p], 1, m - 1)
<1> DEFINE m == IF level[p] <= Len(target[p]) THEN level[p] ELSE Len(target[p])
<1>1. target[p] \in Groups /\ level[p] \in Nat \ {0}
  BY DEF Walking, TypeOK
<1>2. Len(target[p]) \in Nat /\ Len(target[p]) >= 1
  BY <1>1, PrefixFacts
<1>3. m \in 1 .. Len(target[p]) /\ m <= level[p]
  BY <1>1, <1>2
<1>4. Current(p) = SubSeq(target[p], 1, m)
  BY DEF Current
<1>5. /\ level[p] <= Len(target[p]) => m = level[p]
      /\ level[p] > Len(target[p]) => m = Len(target[p])
  BY <1>1, <1>2
<1> HIDE DEF m
<1>6. Current(p) \in Groups /\ Parent(Current(p)) = SubSeq(target[p], 1, m - 1)
  BY <1>1, <1>3, <1>4, PrefixFacts
<1>7. level[p] > Len(target[p]) => Current(p) = target[p]
  BY <1>1, <1>4, <1>5, PrefixFacts
<1> QED BY <1>3, <1>4, <1>5, <1>6, <1>7

\* copyIfNeeded always finds something to copy in the parent.
LEMMA ParentFull ==
  ASSUME IInv, NEW p \in Procs, pc[p] # "idle"
  PROVE  /\ Parent(Current(p)) \in Groups \cup {Root}
         /\ \A f \in Names : value[Parent(Current(p))][f] # {}
<1>1. TypeOK /\ Walking(p) /\ RootFull
  BY DEF IInv, CallInv
<1>2. target[p] \in Groups /\ level[p] \in Nat /\ FilledTo(p, level[p] - 1)
  BY <1>1 DEF TypeOK, Walking
<1>3. PICK m \in 1 .. Len(target[p]) :
        m <= level[p] /\ Parent(Current(p)) = SubSeq(target[p], 1, m - 1)
  BY <1>1, CurrentFacts
<1>4. CASE m = 1
  <2>1. Parent(Current(p)) = Root
    BY <1>2, <1>3, <1>4, PrefixFacts
  <2> QED BY <1>1, <2>1, ValuesAssumption DEF RootFull
<1>5. CASE m # 1
  <2>0. Len(target[p]) \in Nat
    BY <1>2, PrefixFacts
  <2>1. m - 1 \in 1 .. (level[p] - 1) /\ m - 1 \in 1 .. Len(target[p])
    BY <1>2, <1>3, <1>5, <2>0
  <2>2. Parent(Current(p)) \in Groups
    BY <1>2, <1>3, <2>1, PrefixFacts
  <2>3. Populated(Parent(Current(p)))
    BY <1>2, <1>3, <2>1 DEF FilledTo
  <2> QED BY <2>2, <2>3 DEF Populated
<1> QED BY <1>4, <1>5

LEMMA FilesFacts == Files[1] = "cpus" /\ Files[2] = "mems" /\ Names = {"cpus", "mems"}
BY DEF Files, Names

-----------------------------------------------------------------------------
(***************************************************************************)
(* What a step of q leaves to the others: the hierarchy only grows, no     *)
(* file is emptied, and a file that q changes is touched for all others.   *)
(***************************************************************************)
NoneEmptied ==
  \A g \in Groups \cup {Root}, f \in Names : value[g][f] # {} => value'[g][f] # {}

Noticed(p) ==
  \A g \in Groups \cup {Root}, f \in Names :
    <<g, f>> \notin touched'[p]
      => <<g, f>> \notin touched[p] /\ value'[g][f] = value[g][f]

Unmoved(p) ==
  /\ pc'[p] = pc[p] /\ target'[p] = target[p] /\ req'[p] = req[p]
  /\ level'[p] = level[p] /\ at'[p] = at[p] /\ cur'[p] = cur[p]
  /\ par'[p] = par[p] /\ result'[p] = result[p]

Kept(q) ==
  /\ made \subseteq made' /\ NoneEmptied
  /\ \A p \in Procs \ {q} : Unmoved(p) /\ Noticed(p)

LEMMA FilledStays ==
  ASSUME NEW p \in Procs, target[p] \in Groups, target'[p] = target[p],
         made \subseteq made', NoneEmptied,
         NEW k \in Nat, k <= Len(target[p]), FilledTo(p, k)
  PROVE  \A i \in 1 .. k : Populated(SubSeq(target[p], 1, i))'
<1> SUFFICES ASSUME NEW i \in 1 .. k PROVE Populated(SubSeq(target[p], 1, i))'
  OBVIOUS
<1>1. SubSeq(target[p], 1, i) \in Groups
  BY PrefixFacts
<1>2. Populated(SubSeq(target[p], 1, i))
  BY DEF FilledTo
<1> QED BY <1>1, <1>2 DEF Populated, NoneEmptied

LEMMA OtherStep ==
  ASSUME TypeOK, NEW q \in Procs, NEW p \in Procs \ {q}, CallInv(p), Kept(q)
  PROVE  CallInv(p)'
<1>1. Unmoved(p) /\ Noticed(p) /\ NoneEmptied /\ made \subseteq made'
  BY DEF Kept
<1>2. Current(p)' = Current(p)
  BY <1>1 DEF Unmoved, Current
<1>3. level[p] \in Nat \ {0} /\ (target[p] \in Groups => Len(target[p]) \in Nat)
  BY PrefixFacts DEF TypeOK
<1>4. Walking(p)'
  <2>1. pc[p] # "idle" => FilledTo(p, level[p] - 1)'
    <3> SUFFICES ASSUME pc[p] # "idle" PROVE FilledTo(p, level[p] - 1)'
      OBVIOUS
    <3>1. /\ level[p] - 1 \in Nat /\ level[p] - 1 <= Len(target[p])
          /\ target[p] \in Groups /\ FilledTo(p, level[p] - 1)
      BY <1>3 DEF CallInv, Walking
    <3>2. \A i \in 1 .. level[p] - 1 : Populated(SubSeq(target[p], 1, i))'
      BY <1>1, <3>1, FilledStays DEF Unmoved
    <3> QED BY <1>1, <3>2 DEF FilledTo, Unmoved
  <2>2. result[p] = "ok" => FilledTo(p, Len(target[p]))'
    <3> SUFFICES ASSUME result[p] = "ok" PROVE FilledTo(p, Len(target[p]))'
      OBVIOUS
    <3>1. target[p] \in Groups /\ FilledTo(p, Len(target[p]))
      BY DEF CallInv, Walking
    <3>2. \A i \in 1 .. Len(target[p]) : Populated(SubSeq(target[p], 1, i))'
      BY <1>1, <1>3, <3>1, FilledStays DEF Unmoved
    <3> QED BY <1>1, <3>2 DEF FilledTo, Unmoved
  <2> QED BY <1>1, <1>2, <2>1, <2>2 DEF CallInv, Walking, Unmoved
<1>5. pc[p] # "idle" => Current(p) \in Groups
  BY CurrentFacts DEF CallInv
<1>6. Copying(p)'
  BY <1>1, <1>2, <1>5 DEF CallInv, Copying, ReadOf, Unmoved, NoneEmptied
<1>7. Written(p)'
  <2>1. result[p] = "ok" \/ pc[p] = "explicit" => target[p] \in Groups
    BY DEF CallInv, Walking
  <2> QED BY <1>1, <2>1 DEF CallInv, Written, ReadOf, Unmoved, Noticed
<1> QED BY <1>4, <1>6, <1>7 DEF CallInv

LEMMA Alone ==
  ASSUME IInv, TypeOK', RootFull', NEW q \in Procs, Kept(q), CallInv(q)'
  PROVE  IInv'
BY OtherStep DEF IInv
-----------------------------------------------------------------------------
(***************************************************************************)
(* Steps that write no file.                                               *)
(***************************************************************************)
LEMMA QuietKeeps ==
  ASSUME TypeOK, NEW q \in Procs, made \subseteq made', UNCHANGED <<value, touched>>,
         \A p \in Procs \ {q} : Unmoved(p)
  PROVE  Kept(q)
BY DEF Kept, NoneEmptied, Noticed

\* A call that ends otherwise than well claims nothing.
LEMMA StopStep ==
  ASSUME IInv, NEW q \in Procs, NEW r \in {"error", "crashed"}, Return(q, r),
         UNCHANGED hierarchy
  PROVE  IInv'
<1>a. TypeOK /\ RootFull
  BY DEF IInv
<1>1. /\ UNCHANGED <<made, value, touched, target, req>>
      /\ pc' = [pc EXCEPT ![q] = "idle"] /\ result' = [result EXCEPT ![q] = r]
      /\ level' = [level EXCEPT ![q] = 1] /\ at' = [at EXCEPT ![q] = 1]
      /\ cur' = [cur EXCEPT ![q] = Empty] /\ par' = [par EXCEPT ![q] = Empty]
  BY DEF Return, hierarchy, call
<1>2. Empty \in [Names -> SUBSET Online]
  BY DEF Empty
<1>3. TypeOK' /\ RootFull'
  BY <1>a, <1>1, <1>2 DEF TypeOK, RootFull
<1>4. \A p \in Procs \ {q} : Unmoved(p)
  BY <1>a, <1>1 DEF TypeOK, Unmoved
<1>5. Kept(q)
  BY <1>a, <1>1, <1>4, QuietKeeps
<1>6. pc'[q] = "idle" /\ result'[q] = r /\ level'[q] = 1 /\ at'[q] = 1
  BY <1>a, <1>1 DEF TypeOK
<1>7. CallInv(q)'
  BY <1>6 DEF CallInv, Walking, Copying, ReadOf, Written
<1> QED BY <1>3, <1>5, <1>7, Alone

\* A call that begins has nothing behind it yet.
LEMMA CallStep ==
  ASSUME IInv, NEW q \in Procs, NEW g \in Groups, NEW r \in Requests,
         Call(q, g, r)
  PROVE  IInv'
<1>a. TypeOK /\ RootFull /\ Walking(q)
  BY DEF IInv, CallInv
<1>1. /\ UNCHANGED <<made, value, level, at, cur, par>> /\ pc[q] = "idle"
      /\ target' = [target EXCEPT ![q] = g] /\ req' = [req EXCEPT ![q] = r]
      /\ pc' = [pc EXCEPT ![q] = "mkdir"]
      /\ result' = [result EXCEPT ![q] = "none"]
      /\ touched' = [touched EXCEPT ![q] = {}]
  BY DEF Call
<1>2. r \in [Names -> SUBSET Online]
  BY ValuesAssumption
<1>3. TypeOK' /\ RootFull'
  <2>1. /\ UNCHANGED <<made, value, level, at, cur, par>>
        /\ target' \in [Procs -> Groups \cup {Root}]
        /\ req' \in [Procs -> [Names -> SUBSET Online]]
    BY <1>a, <1>1, <1>2 DEF TypeOK
  <2>2. /\ pc' \in [Procs -> {"idle", "mkdir", "readCurrent", "readParent", "copy",
                              "explicit"}]
        /\ result' \in [Procs -> {"none", "ok", "error", "crashed"}]
        /\ touched' \in [Procs -> SUBSET ((Groups \cup {Root}) \X Names)]
    BY <1>a, <1>1 DEF TypeOK
  <2> QED BY <1>a, <2>1, <2>2 DEF TypeOK, RootFull
<1>4. \A p \in Procs \ {q} : Unmoved(p) /\ touched'[p] = touched[p]
  BY <1>a, <1>1 DEF TypeOK, Unmoved
<1>5. Kept(q)
  BY <1>a, <1>1, <1>4 DEF Kept, NoneEmptied, Noticed
<1>6. CallInv(q)'
  <2>1. /\ pc'[q] = "mkdir"
        /\ result'[q] = "none"
        /\ target'[q] = g /\ level'[q] = 1 /\ at'[q] = 1
    BY <1>a, <1>1 DEF TypeOK, Walking
  <2>2. Copying(q)' /\ Written(q)'
    BY <2>1 DEF Copying, Written, ReadOf
  <2>3. Walking(q)'
    BY <2>1, PrefixFacts DEF Walking, FilledTo
  <2> QED BY <2>2, <2>3 DEF CallInv
<1> QED BY <1>3, <1>5, <1>6, Alone
LEMMA MkdirStep == ASSUME IInv, NEW q \in Procs, Mkdir(q) PROVE IInv'
<1>a. TypeOK /\ RootFull /\ CallInv(q)
  BY DEF IInv
<1>1. CASE Fail(q)
  BY <1>1, StopStep DEF Fail
<1>2. CASE /\ made' = made \cup Lineage(Current(q))
           /\ pc' = [pc EXCEPT ![q] = "readCurrent"]
           /\ UNCHANGED <<value, touched, call, level, at, cur, par, result>>
  <2>1. pc[q] = "mkdir"
    BY DEF Mkdir
  <2>2. Current(q) \in Groups /\ Current(q) \in Lineage(Current(q))
    <3>1. Current(q) \in Groups
      BY <1>a, <2>1, CurrentFacts DEF CallInv
    <3>2. Current(q) = SubSeq(Current(q), 1, Len(Current(q)))
          /\ Len(Current(q)) \in 1 .. Len(Current(q))
      BY <3>1, PrefixFacts
    <3> QED BY <3>1, <3>2 DEF Lineage
  <2>3. made \subseteq made' /\ made' \subseteq Groups \cup {Root} /\ Current(q) \in made'
    BY <1>2, <1>a, <2>2, GroupsAssumption DEF TypeOK
  <2>4. /\ UNCHANGED <<value, touched, target, req, level, at, cur, par, result>>
        /\ pc' = [pc EXCEPT ![q] = "readCurrent"]
    BY <1>2 DEF call
  <2>5. TypeOK' /\ RootFull'
    BY <1>a, <2>3, <2>4 DEF TypeOK, RootFull
  <2>6. \A p \in Procs \ {q} : Unmoved(p)
    BY <1>a, <2>4 DEF TypeOK, Unmoved
  <2>7. Kept(q) /\ NoneEmptied
    BY <1>a, <2>3, <2>4, <2>6, QuietKeeps DEF Kept
  <2>8. pc'[q] = "readCurrent" /\ Current(q)' = Current(q)
    BY <1>a, <2>4 DEF TypeOK, Current
  <2>9. /\ target[q] \in Groups /\ level[q] - 1 \in Nat /\ result[q] = "none"
        /\ level[q] - 1 <= Len(target[q]) /\ FilledTo(q, level[q] - 1)
    BY <1>a, <2>1, PrefixFacts DEF CallInv, Walking, TypeOK
  <2>10. FilledTo(q, level[q] - 1)'
    <3>1. \A i \in 1 .. level[q] - 1 : Populated(SubSeq(target[q], 1, i))'
      BY <2>3, <2>4, <2>7, <2>9, FilledStays
    <3> QED BY <2>4, <3>1 DEF FilledTo
  <2>11. Walking(q)'
    BY <1>a, <2>1, <2>3, <2>4, <2>8, <2>9, <2>10 DEF CallInv, Walking
  <2>12. Copying(q)' /\ Written(q)'
    <3>1. at'[q] = at[q] /\ cur'[q] = cur[q] /\ result'[q] = "none"
      BY <2>4, <2>9
    <3>2. at[q] = 1
      BY <1>a, <2>1 DEF CallInv, Copying
    <3> QED BY <2>8, <3>1, <3>2 DEF Copying, Written, ReadOf
  <2> QED BY <2>5, <2>7, <2>11, <2>12, Alone DEF CallInv
<1> QED BY <1>1, <1>2 DEF Mkdir

\* A step that goes on in the walk at the same group keeps what is behind.
LEMMA WalkOn ==
  ASSUME IInv, NEW q \in Procs, NEW l \in {"readCurrent", "readParent", "copy"},
         pc[q] \in {"readCurrent", "readParent", "copy"},
         UNCHANGED <<target, level, result>>, made \subseteq made', NoneEmptied,
         pc'[q] = l
  PROVE  Walking(q)' /\ Current(q)' = Current(q) /\ Written(q)'
<1>a. TypeOK /\ Walking(q)
  BY DEF IInv, CallInv
<1>1. /\ target[q] \in Groups /\ level[q] - 1 \in Nat /\ result[q] = "none"
      /\ level[q] - 1 <= Len(target[q]) /\ FilledTo(q, level[q] - 1)
  BY <1>a, PrefixFacts DEF Walking, TypeOK
<1>2. \A i \in 1 .. level[q] - 1 : Populated(SubSeq(target[q], 1, i))'
  BY <1>1, FilledStays
<1>3. Current(q)' = Current(q)
  BY DEF Current
<1>4. Walking(q)'
  BY <1>a, <1>1, <1>2, <1>3 DEF Walking, FilledTo
<1>5. Written(q)'
  BY <1>1 DEF Written, ReadOf
<1> QED BY <1>3, <1>4, <1>5
LEMMA ReadCurrentStep == ASSUME IInv, NEW q \in Procs, ReadCurrent(q) PROVE IInv'
<1> DEFINE f == Files[at[q]]
           v == value[Current(q)][f]
<1>a. TypeOK /\ RootFull /\ CallInv(q) /\ pc[q] = "readCurrent"
  BY DEF IInv, ReadCurrent
<1>1. CASE Fail(q)
  BY <1>1, StopStep DEF Fail
<1>2. CASE /\ cur' = [cur EXCEPT ![q][f] = v]
           /\ NextFile(q, "readParent")
           /\ UNCHANGED <<hierarchy, level, par>>
  <2>1. /\ UNCHANGED <<made, value, touched, target, req, level, par, result>>
        /\ at' = [at EXCEPT ![q] = 3 - @]
        /\ pc' = IF at[q] = 1 THEN pc ELSE [pc EXCEPT ![q] = "readParent"]
    BY <1>2 DEF NextFile, hierarchy, call
  <2>2. at[q] \in {1, 2} /\ f \in Names /\ (at[q] = 1 => f = "cpus") /\ (at[q] = 2 => f = "mems")
    BY <1>a, FilesFacts DEF TypeOK
  <2>3. Current(q) \in Groups /\ v \in SUBSET Online /\ cur[q] \in [Names -> SUBSET Online]
    BY <1>a, <2>2, CurrentFacts DEF CallInv, TypeOK
  <2> HIDE DEF f, v
  <2>4. cur' = [cur EXCEPT ![q] = [cur[q] EXCEPT ![f] = v]]
    BY <1>2
  <2>5. TypeOK' /\ RootFull'
    <3>1. [cur[q] EXCEPT ![f] = v] \in [Names -> SUBSET Online]
      BY <2>2, <2>3
    <3>2. cur' \in [Procs -> [Names -> SUBSET Online]]
      BY <1>a, <2>4, <3>1 DEF TypeOK
    <3>3. at' \in [Procs -> {1, 2}] /\ pc' \in [Procs -> {"idle", "mkdir", "readCurrent",
                                                   "readParent", "copy", "explicit"}]
      BY <1>a, <2>1, <2>2 DEF TypeOK
    <3> QED BY <1>a, <2>1, <3>2, <3>3 DEF TypeOK, RootFull
  <2>6. \A p \in Procs \ {q} : Unmoved(p)
    BY <1>a, <2>1, <2>4 DEF TypeOK, Unmoved
  <2>7. Kept(q) /\ NoneEmptied
    BY <1>a, <2>1, <2>6, QuietKeeps DEF Kept
  <2>8. /\ at[q] = 1 => pc'[q] = "readCurrent" /\ at'[q] = 2
        /\ at[q] = 2 => pc'[q] = "readParent" /\ at'[q] = 1
        /\ cur'[q] = [cur[q] EXCEPT ![f] = v]
    BY <1>a, <2>1, <2>2, <2>4 DEF TypeOK
  <2>9. Walking(q)' /\ Current(q)' = Current(q) /\ Written(q)'
    BY <1>a, <2>1, <2>2, <2>7, <2>8, WalkOn
  <2>10. Copying(q)'
    <3>1. ASSUME NEW g \in Names, ReadOf(q, g, "readCurrent", {"readParent", "copy"})',
                 cur'[q][g] # {}
          PROVE  value[Current(q)][g] # {}
      <4>1. CASE g = f
        BY <2>2, <2>3, <2>8, <3>1, <4>1 DEF v
      <4>2. CASE g # f
        <5>1. at[q] = 2 /\ g = "cpus" /\ cur'[q][g] = cur[q][g]
          BY <2>2, <2>3, <2>8, <3>1, <4>2 DEF ReadOf, Names
        <5> QED BY <1>a, <3>1, <5>1 DEF CallInv, Copying, ReadOf
      <4> QED BY <4>1, <4>2
    <3> QED BY <2>1, <2>2, <2>8, <2>9, <3>1 DEF Copying, ReadOf
  <2> QED BY <2>5, <2>7, <2>9, <2>10, Alone DEF CallInv
<1> QED BY <1>1, <1>2 DEF ReadCurrent

LEMMA ReadParentStep == ASSUME IInv, NEW q \in Procs, ReadParent(q) PROVE IInv'
<1> DEFINE f == Files[at[q]]
           v == value[Parent(Current(q))][f]
<1>a. TypeOK /\ RootFull /\ CallInv(q) /\ pc[q] = "readParent"
  BY DEF IInv, ReadParent
<1>1. CASE Fail(q)
  BY <1>1, StopStep DEF Fail
<1>2. CASE /\ par' = [par EXCEPT ![q][f] = v]
           /\ NextFile(q, "copy")
           /\ UNCHANGED <<hierarchy, level, cur>>
  <2>1. /\ UNCHANGED <<made, value, touched, target, req, level, cur, result>>
        /\ at' = [at EXCEPT ![q] = 3 - @]
        /\ pc' = IF at[q] = 1 THEN pc ELSE [pc EXCEPT ![q] = "copy"]
    BY <1>2 DEF NextFile, hierarchy, call
  <2>2. at[q] \in {1, 2} /\ f \in Names /\ (at[q] = 1 => f = "cpus") /\ (at[q] = 2 => f = "mems")
    BY <1>a, FilesFacts DEF TypeOK
  <2>3. v # {} /\ v \in SUBSET Online /\ par[q] \in [Names -> SUBSET Online]
    BY <1>a, <2>2, ParentFull DEF TypeOK
  <2> HIDE DEF f, v
  <2>4. par' = [par EXCEPT ![q] = [par[q] EXCEPT ![f] = v]]
    BY <1>2
  <2>5. TypeOK' /\ RootFull'
    <3>1. [par[q] EXCEPT ![f] = v] \in [Names -> SUBSET Online]
      BY <2>2, <2>3
    <3>2. par' \in [Procs -> [Names -> SUBSET Online]]
      BY <1>a, <2>4, <3>1 DEF TypeOK
    <3>3. at' \in [Procs -> {1, 2}] /\ pc' \in [Procs -> {"idle", "mkdir", "readCurrent",
                                                   "readParent", "copy", "explicit"}]
      BY <1>a, <2>1, <2>2 DEF TypeOK
    <3> QED BY <1>a, <2>1, <3>2, <3>3 DEF TypeOK, RootFull
  <2>6. \A p \in Procs \ {q} : Unmoved(p)
    BY <1>a, <2>1, <2>4 DEF TypeOK, Unmoved
  <2>7. Kept(q) /\ NoneEmptied
    BY <1>a, <2>1, <2>6, QuietKeeps DEF Kept
  <2>8. /\ at[q] = 1 => pc'[q] = "readParent" /\ at'[q] = 2
        /\ at[q] = 2 => pc'[q] = "copy" /\ at'[q] = 1
        /\ par'[q] = [par[q] EXCEPT ![f] = v]
    BY <1>a, <2>1, <2>2, <2>4 DEF TypeOK
  <2>9. Walking(q)' /\ Current(q)' = Current(q) /\ Written(q)'
    BY <1>a, <2>1, <2>2, <2>7, <2>8, WalkOn
  <2>10. Copying(q)'
    <3>1. ASSUME NEW g \in Names, ReadOf(q, g, "readParent", {"copy"})'
          PROVE  par'[q][g] # {}
      <4>1. CASE g = f
        BY <2>2, <2>3, <2>8, <4>1
      <4>2. CASE g # f
        <5>1. at[q] = 2 /\ g = "cpus" /\ par'[q][g] = par[q][g]
          BY <2>2, <2>3, <2>8, <3>1, <4>2 DEF ReadOf, Names
        <5> QED BY <1>a, <5>1 DEF CallInv, Copying, ReadOf
      <4> QED BY <4>1, <4>2
    <3>2. \A g \in Names : cur[q][g] # {} => value[Current(q)][g] # {}
      BY <1>a DEF CallInv, Copying, ReadOf
    <3> QED BY <2>1, <2>2, <2>8, <2>9, <3>1, <3>2 DEF Copying, ReadOf
  <2> QED BY <2>5, <2>7, <2>9, <2>10, Alone DEF CallInv
<1> QED BY <1>1, <1>2 DEF ReadParent

-----------------------------------------------------------------------------
(***************************************************************************)
(* Steps that write a file.                                                *)
(***************************************************************************)
Stored(q, g, f, v) ==
  /\ made' = made /\ value' \in [Groups \cup {Root} -> [Names -> SUBSET Online]]
  /\ RootFull' /\ touched' \in [Procs -> SUBSET ((Groups \cup {Root}) \X Names)]
  /\ Kept(q) /\ NoneEmptied /\ value'[g][f] = v
  /\ \A h \in Groups \cup {Root}, e \in Names :
        (h # g \/ e # f) =>
          value'[h][e] = value[h][e]
            /\ (<<h, e>> \notin touched'[q] => <<h, e>> \notin touched[q])

LEMMA StoreKeeps ==
  ASSUME TypeOK, RootFull, NEW q \in Procs, NEW g \in Groups, NEW f \in Names,
         NEW v \in SUBSET Online, v # {}, Store(q, g, f, v),
         \A p \in Procs \ {q} : Unmoved(p)
  PROVE  Stored(q, g, f, v)
<1> DEFINE D == Groups \cup {Root}
<1>1. /\ made' = made
      /\ value' = [value EXCEPT ![g] = [value[g] EXCEPT ![f] = v]]
      /\ touched' = [p \in Procs |-> IF p = q THEN touched[p] \ {<<g, f>>}
                                     ELSE touched[p] \cup {<<g, f>>}]
  BY DEF Store
<1>2. value \in [D -> [Names -> SUBSET Online]] /\ g \in D /\ g # Root
  BY GroupsAssumption DEF TypeOK
<1>3. [value[g] EXCEPT ![f] = v] \in [Names -> SUBSET Online]
  BY <1>2
<1>4. value' \in [D -> [Names -> SUBSET Online]]
  BY <1>1, <1>2, <1>3
<1>5. value'[g] = [value[g] EXCEPT ![f] = v] /\ \A h \in D \ {g} : value'[h] = value[h]
  BY <1>1, <1>2
<1>6. value'[g][f] = v /\ \A e \in Names \ {f} : value'[g][e] = value[g][e]
  BY <1>2, <1>5
<1>7. \A h \in D, e \in Names : (h # g \/ e # f) => value'[h][e] = value[h][e]
  BY <1>5, <1>6
<1>8. RootFull'
  BY <1>2, <1>5 DEF RootFull
<1>9. <<g, f>> \in D \X Names
  BY <1>2
<1>10. touched' \in [Procs -> SUBSET (D \X Names)]
  BY <1>1, <1>9 DEF TypeOK
<1>11. NoneEmptied
  BY <1>6, <1>7 DEF NoneEmptied
<1>12. \A p \in Procs \ {q} : Noticed(p)
  BY <1>1, <1>7 DEF Noticed
<1>13. \A h \in D, e \in Names :
         (h # g \/ e # f) => (<<h, e>> \notin touched'[q] => <<h, e>> \notin touched[q])
  BY <1>1
<1> QED BY <1>1, <1>4, <1>6, <1>7, <1>8, <1>10, <1>11, <1>12, <1>13 DEF Kept, Stored

\* What a call leaves behind on its way stays filled.
LEMMA BehindStays ==
  ASSUME TypeOK, NEW q \in Procs, Walking(q), pc[q] # "idle", target'[q] = target[q],
         made \subseteq made', NoneEmptied
  PROVE  /\ target[q] \in Groups /\ result[q] = "none"
         /\ level[q] \in Nat /\ level[q] <= Len(target[q]) + 1 /\ Len(target[q]) \in Nat
         /\ \A i \in 1 .. level[q] - 1 : Populated(SubSeq(target[q], 1, i))'
<1>1. /\ target[q] \in Groups /\ level[q] \in Nat \ {0} /\ result[q] = "none"
      /\ level[q] <= Len(target[q]) + 1 /\ FilledTo(q, level[q] - 1)
  BY DEF Walking, TypeOK
<1>2. Len(target[q]) \in Nat
  BY <1>1, PrefixFacts
<1>3. level[q] - 1 \in Nat /\ level[q] - 1 <= Len(target[q])
  BY <1>1, <1>2
<1>4. \A i \in 1 .. level[q] - 1 : Populated(SubSeq(target[q], 1, i))'
  BY <1>1, <1>3, FilledStays
<1> QED BY <1>1, <1>2, <1>4

\* copyIfNeeded fills the file, or finds it filled.
LEMMA CopyStep == ASSUME IInv, NEW q \in Procs, Copy(q) PROVE IInv'
<1> DEFINE f == Files[at[q]]
           g == Current(q)
           last == level[q] > Len(target[q])
<1>a. TypeOK /\ RootFull /\ CallInv(q) /\ Walking(q) /\ pc[q] = "copy"
  BY DEF IInv, Copy, CallInv
<1>b. at[q] \in {1, 2} /\ f \in Names /\ (at[q] = 1 => f = "cpus") /\ (at[q] = 2 => f = "mems")
  BY <1>a, FilesFacts DEF TypeOK
<1>c. g \in Groups /\ (~last => g = SubSeq(target[q], 1, level[q]))
  BY <1>a, CurrentFacts DEF TypeOK, Current
<1>1. CASE Fail(q)
  BY <1>1, StopStep DEF Fail
<1>2. CASE /\ \/ ~NeedsCopy(q, f) /\ UNCHANGED hierarchy
              \/ NeedsCopy(q, f) /\ Store(q, g, f, par[q][f])
           /\ NextFile(q, IF last THEN "explicit" ELSE "mkdir")
           /\ level' = IF at[q] = 2 /\ ~last THEN [level EXCEPT ![q] = @ + 1] ELSE level
           /\ UNCHANGED <<cur, par>>
  <2>1. /\ UNCHANGED <<target, req, cur, par, result>>
        /\ at' = [at EXCEPT ![q] = 3 - @]
        /\ pc' = IF at[q] = 1 THEN pc
                 ELSE [pc EXCEPT ![q] = IF last THEN "explicit" ELSE "mkdir"]
        /\ level' = IF at[q] = 2 /\ ~last THEN [level EXCEPT ![q] = @ + 1] ELSE level
    BY <1>2 DEF NextFile, call
  <2> HIDE DEF f, g, last
  <2>2. \A p \in Procs \ {q} : Unmoved(p)
    BY <1>a, <2>1 DEF TypeOK, Unmoved
  <2>3. /\ made' = made /\ value' \in [Groups \cup {Root} -> [Names -> SUBSET Online]]
        /\ touched' \in [Procs -> SUBSET ((Groups \cup {Root}) \X Names)]
        /\ RootFull' /\ Kept(q) /\ NoneEmptied /\ value'[g][f] # {}
    <3>1. CASE ~NeedsCopy(q, f) /\ UNCHANGED hierarchy
      <4>1. UNCHANGED <<made, value, touched>>
        BY <3>1 DEF hierarchy
      <4>2. cur[q][f] # {} => value[g][f] # {}
        BY <1>a, <1>b DEF CallInv, Copying, ReadOf, g
      <4>3. cur[q][f] # {}
        BY <3>1 DEF NeedsCopy
      <4>4. Kept(q) /\ NoneEmptied
        BY <1>a, <2>2, <4>1, QuietKeeps DEF Kept
      <4> QED BY <1>a, <4>1, <4>2, <4>3, <4>4 DEF TypeOK, RootFull
    <3>2. CASE NeedsCopy(q, f) /\ Store(q, g, f, par[q][f])
      <4>1. par[q][f] # {} /\ par[q][f] \in SUBSET Online
        BY <1>a, <1>b DEF CallInv, Copying, ReadOf, TypeOK
      <4>2. PICK h \in Groups, e \in Names, v \in SUBSET Online :
              h = g /\ e = f /\ v = par[q][f]
        BY <1>b, <1>c, <4>1
      <4>3. Store(q, h, e, v) /\ v # {}
        BY <3>2, <4>1, <4>2 DEF Store
      <4>4. Stored(q, h, e, v)
        BY <1>a, <2>2, <4>3, StoreKeeps
      <4> QED BY <4>2, <4>3, <4>4 DEF Stored
    <3> QED BY <1>2, <3>1, <3>2 DEF f, g, last
  <2>4. TypeOK'
    <3>1. at' \in [Procs -> {1, 2}] /\ level' \in [Procs -> Nat \ {0}]
          /\ pc' \in [Procs -> {"idle", "mkdir", "readCurrent", "readParent", "copy",
                                "explicit"}]
      BY <1>a, <1>b, <2>1 DEF TypeOK
    <3> QED BY <1>a, <2>1, <2>3, <3>1 DEF TypeOK
  <2>5. /\ target[q] \in Groups /\ result[q] = "none"
        /\ level[q] \in Nat /\ level[q] <= Len(target[q]) + 1 /\ Len(target[q]) \in Nat
        /\ \A i \in 1 .. level[q] - 1 : Populated(SubSeq(target[q], 1, i))'
    BY <1>a, <2>1, <2>3, BehindStays
  <2>6. g \in made
    BY <1>a DEF Walking, g
  <2>7. CASE at[q] = 1
    <3>1. pc'[q] = "copy" /\ at'[q] = 2 /\ UNCHANGED <<level, target, result>>
      BY <1>a, <2>1, <2>7 DEF TypeOK
    <3>2. Walking(q)' /\ Current(q)' = Current(q) /\ Written(q)'
      BY <1>a, <2>3, <3>1, WalkOn
    <3>3. Copying(q)'
      <4>1. \A e \in Names : /\ cur[q][e] # {} => value[g][e] # {}
                             /\ par[q][e] # {}
        BY <1>a DEF CallInv, Copying, ReadOf, g
      <4>2. value'[g]["cpus"] # {} /\ Current(q)' = g
        BY <1>b, <2>3, <2>7, <3>2 DEF g
      <4>3. \A e \in Names : cur[q][e] # {} => value'[g][e] # {}
        BY <1>c, <2>3, <4>1 DEF NoneEmptied
      <4> QED BY <2>1, <3>1, <4>1, <4>2, <4>3 DEF Copying, ReadOf
    <3> QED BY <2>3, <2>4, <3>2, <3>3, Alone DEF CallInv
  <2>8. CASE at[q] = 2
    <3>1. /\ at'[q] = 1 /\ pc'[q] = IF last THEN "explicit" ELSE "mkdir"
          /\ level'[q] = IF last THEN level[q] ELSE level[q] + 1
      BY <1>a, <2>1, <2>8 DEF TypeOK
    <3>2. Copying(q)' /\ Written(q)'
      BY <2>1, <2>5, <3>1 DEF Copying, Written, ReadOf
    <3>3. CASE last
      <4>1. level[q] = Len(target[q]) + 1
        BY <2>5, <3>3 DEF last
      <4>2. Walking(q)'
        BY <2>1, <2>5, <3>1, <3>3, <4>1 DEF Walking, FilledTo
      <4> QED BY <2>3, <2>4, <3>2, <4>2, Alone DEF CallInv
    <3>4. CASE ~last
      <4>1. level[q] <= Len(target[q]) /\ g = SubSeq(target[q], 1, level[q])
        BY <1>c, <2>5, <3>4 DEF last
      <4>2. value'[g]["cpus"] # {}
        <5>1. value[g]["cpus"] # {}
          BY <1>a, <2>8 DEF CallInv, Copying, ReadOf, g, Names
        <5> QED BY <1>c, <2>3, <5>1 DEF NoneEmptied, Names
      <4>3. value'[g]["mems"] # {}
        BY <1>b, <2>3, <2>8
      <4>4. SubSeq(target[q], 1, level[q]) \in made'
            /\ \A e \in Names : value'[SubSeq(target[q], 1, level[q])][e] # {}
        BY <2>3, <2>6, <4>1, <4>2, <4>3 DEF Names
      <4>5. \A i \in 1 .. level[q] : Populated(SubSeq(target[q], 1, i))'
        <5> SUFFICES ASSUME NEW i \in 1 .. level[q]
                     PROVE  Populated(SubSeq(target[q], 1, i))'
          OBVIOUS
        <5>1. CASE i = level[q]
          BY <2>1, <4>4, <5>1 DEF Populated
        <5>2. CASE i # level[q]
          <6>1. i \in 1 .. level[q] - 1
            BY <2>5, <5>2
          <6> QED BY <2>5, <6>1
        <5> QED BY <5>1, <5>2
      <4>6. Walking(q)'
        BY <2>1, <2>5, <3>1, <3>4, <4>1, <4>5 DEF Walking, FilledTo
      <4> QED BY <2>3, <2>4, <3>2, <4>6, Alone DEF CallInv
    <3> QED BY <3>3, <3>4
  <2> QED BY <1>b, <2>7, <2>8
<1> QED BY <1>1, <1>2 DEF Copy

\* The cpus and the mems asked for; with the last one Create returns.
LEMMA ExplicitStep == ASSUME IInv, NEW q \in Procs, Explicit(q) PROVE IInv'
<1> DEFINE f == Files[at[q]]
           g == target[q]
           w == req[q][f]
<1>a. TypeOK /\ RootFull /\ CallInv(q) /\ Walking(q) /\ pc[q] = "explicit"
  BY DEF IInv, Explicit, CallInv
<1>b. at[q] \in {1, 2} /\ f \in Names /\ (at[q] = 1 => f = "cpus") /\ (at[q] = 2 => f = "mems")
  BY <1>a, FilesFacts DEF TypeOK
<1>c. /\ g \in Groups /\ level[q] = Len(g) + 1 /\ Len(g) \in Nat /\ result[q] = "none"
      /\ w \in SUBSET Online
  BY <1>a, <1>b, PrefixFacts DEF Walking, TypeOK
<1>1. CASE Fail(q)
  BY <1>1, StopStep DEF Fail
<1>2. CASE /\ \/ w = {} /\ UNCHANGED hierarchy
              \/ w # {} /\ Store(q, g, f, w)
           /\ IF at[q] = 1 THEN NextFile(q, "explicit") /\ UNCHANGED <<level, cur, par>>
                           ELSE Return(q, "ok")
  <2>1. UNCHANGED <<target, req>>
    BY <1>2 DEF NextFile, Return, call
  <2>2. at[q] = 1 => at' = [at EXCEPT ![q] = 3 - @]
                       /\ UNCHANGED <<pc, level, cur, par, result>>
    BY <1>2 DEF NextFile
  <2>3. at[q] = 2 => /\ pc' = [pc EXCEPT ![q] = "idle"] /\ at' = [at EXCEPT ![q] = 1]
                     /\ result' = [result EXCEPT ![q] = "ok"]
                     /\ level' = [level EXCEPT ![q] = 1]
                     /\ cur' = [cur EXCEPT ![q] = Empty] /\ par' = [par EXCEPT ![q] = Empty]
    BY <1>2 DEF Return
  <2>4. \A p \in Procs \ {q} : Unmoved(p)
    BY <1>a, <1>b, <2>1, <2>2, <2>3 DEF TypeOK, Unmoved
  <2>5. PICK h \in Groups, e \in Names, v \in SUBSET Online : h = g /\ e = f /\ v = w
    BY <1>b, <1>c
  <2>6. (v = {} /\ UNCHANGED hierarchy) \/ (v # {} /\ Store(q, h, e, v))
    BY <1>2, <2>5 DEF Store
  <2> HIDE DEF f, g, w
  <2>7. /\ made' = made /\ value' \in [Groups \cup {Root} -> [Names -> SUBSET Online]]
        /\ touched' \in [Procs -> SUBSET ((Groups \cup {Root}) \X Names)]
        /\ RootFull' /\ Kept(q) /\ NoneEmptied
        /\ v # {} => value'[h][e] = v
        /\ \A d \in Names \ {e} :
              value'[h][d] = value[h][d]
                /\ (<<h, d>> \notin touched'[q] => <<h, d>> \notin touched[q])
    <3>1. CASE v = {} /\ UNCHANGED hierarchy
      <4>1. UNCHANGED <<made, value, touched>>
        BY <3>1 DEF hierarchy
      <4>2. Kept(q) /\ NoneEmptied
        BY <1>a, <2>4, <4>1, QuietKeeps DEF Kept
      <4> QED BY <1>a, <3>1, <4>1, <4>2 DEF TypeOK, RootFull
    <3>2. CASE v # {} /\ Store(q, h, e, v)
      <4>1. Stored(q, h, e, v)
        BY <1>a, <2>4, <3>2, StoreKeeps
      <4> QED BY <4>1 DEF Stored
    <3> QED BY <2>6, <3>1, <3>2
  <2>8. TypeOK'
    <3>0. Empty \in [Names -> SUBSET Online]
      BY DEF Empty
    <3> DEFINE pcs == {"idle", "mkdir", "readCurrent", "readParent", "copy", "explicit"}
               results == {"none", "ok", "error", "crashed"}
    <3>1. /\ pc \in [Procs -> pcs] /\ result \in [Procs -> results]
          /\ at \in [Procs -> {1, 2}] /\ level \in [Procs -> Nat \ {0}]
          /\ cur \in [Procs -> [Names -> SUBSET Online]]
          /\ par \in [Procs -> [Names -> SUBSET Online]]
          /\ "idle" \in pcs /\ "ok" \in results
      BY <1>a DEF TypeOK
    <3> HIDE DEF pcs, results
    <3>2. /\ pc' \in [Procs -> pcs] /\ result' \in [Procs -> results]
          /\ at' \in [Procs -> {1, 2}] /\ level' \in [Procs -> Nat \ {0}]
          /\ cur' \in [Procs -> [Names -> SUBSET Online]]
          /\ par' \in [Procs -> [Names -> SUBSET Online]]
      <4>1. CASE at[q] = 1
        BY <2>2, <3>1, <4>1
      <4>2. CASE at[q] = 2
        <5>0. pc' = [pc EXCEPT ![q] = "idle"] /\ result' = [result EXCEPT ![q] = "ok"]
              /\ cur' = [cur EXCEPT ![q] = Empty] /\ par' = [par EXCEPT ![q] = Empty]
          BY <2>3, <4>2
        <5>1. pc' \in [Procs -> pcs] /\ result' \in [Procs -> results]
          BY <5>0, <3>1, <4>2
        <5>2. at' \in [Procs -> {1, 2}] /\ level' \in [Procs -> Nat \ {0}]
          BY <2>3, <3>1, <4>2
        <5>3. /\ cur' \in [Procs -> [Names -> SUBSET Online]]
              /\ par' \in [Procs -> [Names -> SUBSET Online]]
          BY <5>0, <3>0, <3>1
        <5> QED BY <5>1, <5>2, <5>3
      <4> QED BY <1>b, <4>1, <4>2
    <3> QED BY <1>a, <2>1, <2>7, <3>2 DEF TypeOK, pcs, results
  <2>9. /\ target[q] \in Groups /\ level[q] = Len(target[q]) + 1 /\ Len(target[q]) \in Nat
        /\ \A i \in 1 .. Len(target[q]) : Populated(SubSeq(target[q], 1, i))'
    <3>1. \A i \in 1 .. level[q] - 1 : Populated(SubSeq(target[q], 1, i))'
      BY <1>a, <2>1, <2>7, BehindStays
    <3>2. level[q] - 1 = Len(target[q])
      BY <1>c DEF g
    <3> QED BY <1>c, <3>1, <3>2 DEF g
  <2>10. CASE at[q] = 1
    <3>1. /\ pc'[q] = "explicit" /\ at'[q] = 2 /\ level'[q] = level[q]
          /\ result'[q] = "none" /\ e = "cpus"
      BY <1>a, <1>b, <1>c, <2>2, <2>5, <2>10 DEF TypeOK
    <3>2. Walking(q)' /\ Copying(q)'
      BY <2>1, <2>9, <3>1 DEF Walking, FilledTo, Copying, ReadOf
    <3>3. Written(q)'
      BY <2>1, <2>5, <2>7, <3>1 DEF Written, ReadOf, g, w, f
    <3> QED BY <2>7, <2>8, <3>2, <3>3, Alone DEF CallInv
  <2>11. CASE at[q] = 2
    <3>1. /\ pc'[q] = "idle" /\ at'[q] = 1 /\ level'[q] = 1 /\ result'[q] = "ok"
          /\ e = "mems"
      BY <1>a, <1>b, <2>3, <2>5, <2>11 DEF TypeOK
    <3>2. Walking(q)' /\ Copying(q)'
      BY <2>1, <2>9, <3>1 DEF Walking, FilledTo, Copying, ReadOf
    <3>3. Written(q)'
      <4>1. (req[q]["cpus"] # {} /\ <<target[q], "cpus">> \notin touched[q])
               => value[target[q]]["cpus"] = req[q]["cpus"]
        BY <1>a, <2>11 DEF CallInv, Written, ReadOf, Names
      <4>2. (req[q]["cpus"] # {} /\ <<target[q], "cpus">> \notin touched'[q])
               => value'[target[q]]["cpus"] = req[q]["cpus"]
        BY <2>5, <2>7, <3>1, <4>1 DEF g, Names
      <4>3. req[q]["mems"] # {} => value'[target[q]]["mems"] = req[q]["mems"]
        BY <2>5, <2>7, <3>1 DEF g, w
      <4> QED BY <2>1, <4>2, <4>3 DEF Written, Names
    <3> QED BY <2>7, <2>8, <3>2, <3>3, Alone DEF CallInv
  <2> QED BY <1>b, <2>10, <2>11
<1> QED BY <1>1, <1>2 DEF Explicit, Requested

-----------------------------------------------------------------------------
LEMMA InitInv == Init => IInv
<1> SUFFICES ASSUME Init PROVE IInv
  OBVIOUS
<1>1. Empty \in [Names -> SUBSET Online] /\ Root \notin Groups
  BY GroupsAssumption DEF Empty
<1>2. TypeOK
  BY <1>1 DEF Init, TypeOK
<1>3. RootFull
  BY DEF Init, RootFull
<1>4. ASSUME NEW p \in Procs PROVE CallInv(p)
  BY DEF Init, CallInv, Walking, Copying, ReadOf, Written
<1> QED BY <1>2, <1>3, <1>4 DEF IInv

LEMMA NextInv == IInv /\ [Next]_vars => IInv'
<1> SUFFICES ASSUME IInv, [Next]_vars PROVE IInv'
  OBVIOUS
<1>1. CASE UNCHANGED vars
  <2>1. UNCHANGED <<made, value, pc, target, req, level, at, cur, par, result, touched>>
    BY <1>1 DEF vars
  <2>2. TypeOK' /\ RootFull'
    BY <2>1 DEF IInv, TypeOK, RootFull
  <2>3. ASSUME NEW p \in Procs PROVE CallInv(p)'
    <3>1. Walking(p)'
      BY <2>1 DEF IInv, CallInv, Walking, FilledTo, Populated, Current
    <3>2. Copying(p)' /\ Written(p)'
      BY <2>1 DEF IInv, CallInv, Copying, ReadOf, Written, Current
    <3> QED BY <3>1, <3>2 DEF CallInv
  <2> QED BY <2>2, <2>3 DEF IInv
<1>2. ASSUME NEW p \in Procs, NEW g \in Groups, NEW r \in Requests,
             Call(p, g, r)
      PROVE  IInv'
  BY <1>2, CallStep
<1>3. ASSUME NEW p \in Procs, Step(p)
      PROVE  IInv'
  BY <1>3, MkdirStep, ReadCurrentStep, ReadParentStep, CopyStep, ExplicitStep DEF Step
<1>4. ASSUME NEW p \in Procs, Crash(p)
      PROVE  IInv'
  BY <1>4, StopStep DEF Crash
<1> QED BY <1>1, <1>2, <1>3, <1>4 DEF Next

\* The inductive invariant holds in every state of every call, however the
\* processes interleave, fail and die.
THEOREM Inductive == Spec => []IInv
<1>1. Init => IInv
  BY InitInv
<1>2. IInv /\ [Next]_vars => IInv'
  BY NextInv
<1> QED BY <1>1, <1>2, PTL DEF Spec

-----------------------------------------------------------------------------
\* A Create (cpuset.go) that returned nil leaves the group and all its
\* ancestors made and with cpus and mems, whatever other processes do to the
\* same ancestors and wherever earlier calls failed or died.
THEOREM Filled == Spec => []PopulatedOnSuccess
<1>1. IInv => PopulatedOnSuccess
  BY DEF IInv, CallInv, Walking, FilledTo, PopulatedOnSuccess, Lineage
<1> QED BY <1>1, Inductive, PTL

\* The cpus and mems asked for are in the files of the group when Create has
\* returned nil, unless another process wrote them after it.
THEOREM Asked == Spec => []ExplicitOnSuccess
<1>1. IInv => ExplicitOnSuccess
  BY DEF IInv, CallInv, Written, ExplicitOnSuccess
<1> QED BY <1>1, Inductive, PTL

\* What a step writes to a file is not empty: copyIfNeeded finds something in
\* every parent, and the request is written only where it is not "".
LEMMA StepEmptiesNone == ASSUME IInv, [Next]_vars PROVE NoneEmptied
<1>a. TypeOK /\ \A q \in Procs : CallInv(q)
  BY DEF IInv
<1>1. ASSUME NEW q \in Procs, NEW g \in Groups, NEW f \in Names, NEW v, v # {},
             Store(q, g, f, v)
      PROVE  NoneEmptied
  <2>1. value' = [value EXCEPT ![g] = [value[g] EXCEPT ![f] = v]]
    BY <1>1 DEF Store
  <2>2. value \in [Groups \cup {Root} -> [Names -> SUBSET Online]]
    BY <1>a DEF TypeOK
  <2>3. value'[g] = [value[g] EXCEPT ![f] = v]
        /\ \A h \in (Groups \cup {Root}) \ {g} : value'[h] = value[h]
    BY <2>1, <2>2
  <2>4. value'[g][f] = v /\ \A e \in Names \ {f} : value'[g][e] = value[g][e]
    BY <2>2, <2>3
  <2> QED BY <1>1, <2>3, <2>4 DEF NoneEmptied
<1>2. CASE UNCHANGED value
  BY <1>2 DEF NoneEmptied
<1>3. ASSUME NEW q \in Procs, Copy(q) PROVE NoneEmptied
  <2> DEFINE f == Files[at[q]]
             g == Current(q)
  <2>1. \/ UNCHANGED value
        \/ Store(q, g, f, par[q][f])
    BY <1>3 DEF Copy, Fail, hierarchy
  <2>2. pc[q] = "copy" /\ f \in Names /\ (at[q] = 1 \/ at[q] = 2)
    BY <1>3, <1>a, FilesFacts DEF Copy, TypeOK
  <2>3. g \in Groups
    BY <1>a, <2>2, CurrentFacts DEF CallInv
  <2>4. par[q][f] # {}
    BY <1>a, <2>2 DEF CallInv, Copying, ReadOf
  <2> HIDE DEF f, g
  <2> QED BY <1>1, <1>2, <2>1, <2>2, <2>3, <2>4
<1>4. ASSUME NEW q \in Procs, Explicit(q) PROVE NoneEmptied
  <2> DEFINE f == Files[at[q]]
             g == target[q]
  <2>1. \/ UNCHANGED value
        \/ Requested(q, f) # {} /\ Store(q, g, f, Requested(q, f))
    BY <1>4 DEF Explicit, Fail, hierarchy
  <2>2. pc[q] = "explicit" /\ f \in Names
    BY <1>4, <1>a, FilesFacts DEF Explicit, TypeOK
  <2>3. g \in Groups
    BY <1>a, <2>2 DEF CallInv, Walking
  <2> HIDE DEF f, g
  <2> QED BY <1>1, <1>2, <2>1, <2>2, <2>3
<1>5. ASSUME NEW q \in Procs,
             \/ Mkdir(q) \/ ReadCurrent(q) \/ ReadParent(q) \/ Crash(q)
             \/ \E g \in Groups, r \in Requests : Call(q, g, r)
      PROVE  UNCHANGED value
  BY <1>5 DEF Mkdir, ReadCurrent, ReadParent, Crash, Call, Fail, hierarchy
<1> QED BY <1>2, <1>3, <1>4, <1>5 DEF Next, Step, vars

\* No step empties the cpus or the mems of a group, whatever the processes read
\* before others wrote.
THEOREM TasksKeepCpus == Spec => NeverEmptied
<1>1. IInv /\ [Next]_vars =>
        [\A g \in Groups, f \in Names : value[g][f] # {} => value'[g][f] # {}]_vars
  BY StepEmptiesNone DEF NoneEmptied
<1> QED BY <1>1, Inductive, PTL DEF Spec, NeverEmptied

=============================================================================
