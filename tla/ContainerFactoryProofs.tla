----------------------- MODULE ContainerFactoryProofs -----------------------
(***************************************************************************)
(* Proofs about ContainerFactory, for any set of invocations, any ids and  *)
(* any directories, however the calls overlap.                             *)
(***************************************************************************)
EXTENDS ContainerFactory, TLAPS

\* A directory's ancestors are directories of the model.
LEMMA ParentsInPaths ==
  ASSUME NEW d \in Paths
  PROVE  Parents(d) \subseteq Paths
BY PathsAssumption DEF Parents

\* A directory is among the directories MkdirAll makes for it.
LEMMA SelfParent ==
  ASSUME NEW d \in Paths
  PROVE  d \in Parents(d)
<1>1. d \in Seq(STRING)
  BY PathsAssumption
<1>2. Len(d) \in 0 .. Len(d) /\ SubSeq(d, 1, Len(d)) = d
  BY <1>1
<1> QED BY <1>2 DEF Parents

\* However far MkdirAll gets, it makes the directory and parents of it only.
LEMMA MkdirWithin ==
  ASSUME NEW p \in Procs, Dir(p) \in Paths, Mkdir(p)
  PROVE  dirs \subseteq dirs' /\ dirs' \subseteq dirs \cup Parents(Dir(p)) /\ UNCHANGED granted
<1>1. Dir(p) \in Seq(STRING)
  BY PathsAssumption
<1>2. ASSUME NEW n \in 0 .. Len(Dir(p))
      PROVE  {SubSeq(Dir(p), 1, m) : m \in 0 .. n - 1} \subseteq Parents(Dir(p))
  <2>1. \A m \in 0 .. n - 1 : m \in 0 .. Len(Dir(p))
    BY <1>1
  <2> QED BY <2>1 DEF Parents
<1> QED BY <1>2 DEF Mkdir

\* Every variable of the factory model keeps its type.
THEOREM Typing == Spec => []TypeOK
<1>1. Init => TypeOK
  BY PathsAssumption DEF Init, TypeOK, Labels, Outcomes, Cap
<1>2. TypeOK /\ [Next]_vars => TypeOK'
  <2> SUFFICES ASSUME TypeOK, [Next]_vars PROVE TypeOK'
    OBVIOUS
  <2> USE DEF TypeOK, Labels, Outcomes
  <2>1. ASSUME NEW p \in Procs, NEW l \in {"arguments", "newLoad"}, NEW i \in Ids,
               Call(p, l, i)
        PROVE  TypeOK'
    <3>1. Dir(p) \in Paths /\ Join[i] \in Paths /\ \A q \in Procs : Dir(q) \in Paths
      BY JoinAssumption DEF Dir
    <3>2. rivals' \in [Procs -> SUBSET Paths]
      BY <2>1, <3>1 DEF Call, Busy
    <3> QED BY <2>1, <3>2 DEF Call
  <2>2. \A p \in Procs, r \in Outcomes : Return(p, r) =>
          /\ pc' \in [Procs -> Labels] /\ outcome' \in [Procs -> Outcomes]
          /\ UNCHANGED <<id, existed, rivals>>
    BY DEF Return
  <2>3. \A p \in Procs, l \in Labels : Goto(p, l) =>
          /\ pc' \in [Procs -> Labels] /\ UNCHANGED <<id, outcome, existed, rivals>>
    BY DEF Goto
  <2>4. ASSUME NEW p \in Procs, Error(p) \/ Crash(p) PROVE TypeOK'
    BY <2>4, <2>2 DEF Error, Crash
  <2>5. ASSUME NEW p \in Procs, NEW f \in Labels, NEW l \in Labels, New(p, f, l)
        PROVE  TypeOK'
    <3>1. dirs' \subseteq Paths \/ Error(p)
      BY <2>5, PathsAssumption DEF New
    <3> QED BY <2>5, <3>1, <2>3, <2>4 DEF New
  <2>6. ASSUME NEW p \in Procs, Arguments(p) \/ SecureJoin(p) \/ Stat(p) \/ Load(p)
        PROVE  TypeOK'
    BY <2>6, <2>2, <2>3, <2>4 DEF Arguments, SecureJoin, Stat, Load
  <2>7. ASSUME NEW p \in Procs, Mkdir(p) PROVE TypeOK'
    <3>1. Dir(p) \in Paths
      BY JoinAssumption DEF Dir
    <3>2. dirs' \subseteq dirs \cup Parents(Dir(p)) /\ UNCHANGED granted
      BY <2>7, <3>1, MkdirWithin
    <3>3. dirs' \subseteq Paths
      BY <3>1, <3>2, ParentsInPaths
    <3>4. \/ Goto(p, "chown")
          \/ \E r \in {"error", "crashed"} : Return(p, r)
      BY <2>7 DEF Mkdir
    <3> QED BY <3>2, <3>3, <3>4, <2>2, <2>3
  <2>8. ASSUME NEW p \in Procs, Chown(p) PROVE TypeOK'
    <3>1. Dir(p) \in Paths
      BY JoinAssumption DEF Dir
    <3>2. granted[Dir(p)] \in 0 .. Cap
      BY <3>1
    <3>3. (IF granted[Dir(p)] = Cap THEN Cap ELSE granted[Dir(p)] + 1) \in 0 .. Cap
      BY <3>2 DEF Cap
    <3>4. CASE Error(p)
      BY <3>4, <2>4
    <3>5. CASE /\ granted' = [granted EXCEPT ![Dir(p)] = IF @ = Cap THEN Cap ELSE @ + 1]
               /\ Return(p, "running")
               /\ UNCHANGED dirs
      <4>1. granted' \in [Paths -> 0 .. Cap]
        BY <3>1, <3>3, <3>5
      <4> QED BY <3>5, <4>1, <2>2
    <3> QED BY <2>8, <3>4, <3>5 DEF Chown
  <2>9. CASE UNCHANGED vars
    BY <2>9 DEF vars
  <2> QED BY <2>1, <2>4, <2>5, <2>6, <2>7, <2>8, <2>9 DEF Next, Step
<1> QED BY <1>1, <1>2, PTL DEF Spec

-----------------------------------------------------------------------------
(***************************************************************************)
(* However the calls interleave: directories never go away, so a call that *)
(* gets past Stat began before its directory existed.                      *)
(***************************************************************************)
LateInv ==
  \A p \in Procs :
    /\ existed[p] => Dir(p) \in dirs
    /\ pc[p] \in {"mkdir", "chown"} \/ outcome[p] = "running" => ~existed[p]

\* A call that begins when its directory exists gets no container.
THEOREM LateCall == Spec => []LateCallGetsNone
<1>1. Init => LateInv
  BY DEF Init, LateInv
<1>2. TypeOK /\ LateInv /\ [Next]_vars => LateInv'
  <2> SUFFICES ASSUME TypeOK, LateInv, [Next]_vars PROVE LateInv'
    OBVIOUS
  <2> USE DEF TypeOK, LateInv
  <2>1. ASSUME NEW p \in Procs, NEW l \in {"arguments", "newLoad"}, NEW i \in Ids,
               Call(p, l, i)
        PROVE  LateInv'
    BY <2>1 DEF Call, Dir
  <2>2. ASSUME NEW p \in Procs, NEW r \in Outcomes, Return(p, r),
               dirs \subseteq dirs', r = "running" => ~existed[p]
        PROVE  LateInv'
    BY <2>2 DEF Return, Dir
  <2>3. ASSUME NEW p \in Procs, NEW l \in Labels, Goto(p, l),
               dirs \subseteq dirs', l \in {"mkdir", "chown"} => ~existed[p]
        PROVE  LateInv'
    BY <2>3 DEF Goto, Dir
  <2>4. ASSUME NEW p \in Procs, Error(p) \/ Crash(p) PROVE LateInv'
    BY <2>4, <2>2 DEF Error, Crash, Outcomes
  <2>5. ASSUME NEW p \in Procs, Step(p) PROVE LateInv'
    <3>1. CASE Mkdir(p)
      <4>1. dirs \subseteq dirs' /\ pc[p] = "mkdir"
        BY <3>1 DEF Mkdir
      <4>2. Goto(p, "chown") \/ \E r \in {"error", "crashed"} : Return(p, r)
        BY <3>1 DEF Mkdir
      <4> QED BY <4>1, <4>2, <2>2, <2>3 DEF Outcomes, Labels
    <3>2. CASE ~Mkdir(p)
      BY <2>5, <3>2, <2>2, <2>3, <2>4
         DEF Step, Arguments, New, SecureJoin, Stat, InUse, Chown, Load, Outcomes, Labels
    <3> QED BY <3>1, <3>2
  <2>6. CASE UNCHANGED vars
    BY <2>6 DEF vars, Dir
  <2> QED BY <2>1, <2>4, <2>5, <2>6 DEF Next
<1>3. LateInv => LateCallGetsNone
  BY DEF LateInv, LateCallGetsNone
<1> QED BY <1>1, <1>2, <1>3, Typing, PTL DEF Spec

-----------------------------------------------------------------------------
(***************************************************************************)
(* Calls under way at the same time know of each other.  A call past Stat  *)
(* has found its directory free: whoever gets it before that call does is  *)
(* a rival of it, and it of them.                                          *)
(***************************************************************************)
Late(p) == pc[p] \in {"mkdir", "chown"}

Mutual ==
  \A p, q \in Procs :
    (pc[p] # "idle" /\ pc[q] # "idle" /\ p # q) => Dir(q) \in rivals[p]

Recorded ==
  /\ \A d \in Paths : granted[d] > 0 => d \in dirs
  /\ \A p \in Procs : /\ pc[p] # "idle" => outcome[p] = "none"
                      /\ outcome[p] = "running" => Dir(p) \in dirs
                      /\ pc[p] = "chown" => Dir(p) \in dirs

LateIsFree(p) ==
  Late(p) =>
    /\ granted[Dir(p)] = 0 \/ Dir(p) \in rivals[p]
    /\ \A q \in Procs :
         (outcome[q] = "running" /\ Dir(q) = Dir(p)) => Dir(q) \in rivals[q]

RivalInv ==
  /\ Mutual /\ Recorded /\ DistinctUnlessRivals
  /\ \A p \in Procs : LateIsFree(p)

\* A call that ends without a container, whatever directories it made.
LEMMA ReturnKeepsRivals ==
  ASSUME TypeOK, RivalInv, NEW p \in Procs, NEW r \in Outcomes \ {"running"},
         Return(p, r), dirs \subseteq dirs', UNCHANGED granted
  PROVE  RivalInv'
<1>1. /\ \A q \in Procs : Dir(q)' = Dir(q) /\ rivals'[q] = rivals[q]
      /\ \A q \in Procs : q # p => pc'[q] = pc[q] /\ outcome'[q] = outcome[q]
      /\ pc'[p] = "idle" /\ outcome'[p] = r
      /\ UNCHANGED granted
  BY DEF Return, TypeOK, Dir
<1>2. Mutual'
  BY <1>1 DEF RivalInv, Mutual
<1>3. Recorded'
  BY <1>1 DEF RivalInv, Recorded
<1>4. DistinctUnlessRivals'
  BY <1>1 DEF RivalInv, DistinctUnlessRivals
<1>5. \A q \in Procs : LateIsFree(q)'
  BY <1>1 DEF RivalInv, LateIsFree, Late
<1> QED BY <1>2, <1>3, <1>4, <1>5 DEF RivalInv

\* A step inside a call, which may make directories.
LEMMA GotoKeepsRivals ==
  ASSUME TypeOK, RivalInv, NEW p \in Procs, NEW l \in Labels, Goto(p, l),
         pc[p] # "idle", dirs \subseteq dirs', UNCHANGED granted,
         l = "chown" => Dir(p) \in dirs' /\ Late(p),
         l = "mkdir" => Dir(p) \notin dirs
  PROVE  RivalInv'
<1>1. /\ \A q \in Procs : Dir(q)' = Dir(q) /\ rivals'[q] = rivals[q]
      /\ \A q \in Procs : outcome'[q] = outcome[q]
      /\ \A q \in Procs : q # p => pc'[q] = pc[q]
      /\ pc'[p] = l
  BY DEF Goto, TypeOK, Dir
<1>2. Mutual'
  BY <1>1 DEF RivalInv, Mutual
<1>3. Recorded'
  BY <1>1 DEF RivalInv, Recorded
<1>4. DistinctUnlessRivals'
  BY <1>1 DEF RivalInv, DistinctUnlessRivals
<1>5. ASSUME NEW q \in Procs PROVE LateIsFree(q)'
  <2>1. CASE q # p
    BY <1>1, <2>1 DEF RivalInv, LateIsFree, Late
  <2>2. CASE q = p /\ l = "mkdir"
    <3>1. Dir(p) \in Paths
      BY JoinAssumption DEF Dir, TypeOK
    <3>2. granted[Dir(p)] = 0
      BY <2>2, <3>1 DEF RivalInv, Recorded, TypeOK, Cap
    <3>3. \A x \in Procs : outcome[x] = "running" => Dir(x) # Dir(p)
      BY <2>2 DEF RivalInv, Recorded
    <3> QED BY <1>1, <2>2, <3>2, <3>3 DEF LateIsFree
  <2>3. CASE q = p /\ l = "chown"
    BY <1>1, <2>3 DEF RivalInv, LateIsFree
  <2>4. CASE q = p /\ l \notin {"mkdir", "chown"}
    BY <1>1, <2>4 DEF LateIsFree, Late
  <2> QED BY <2>1, <2>2, <2>3, <2>4
<1> QED BY <1>2, <1>3, <1>4, <1>5 DEF RivalInv

\* A call that gets its container.
LEMMA GrantKeepsRivals ==
  ASSUME TypeOK, RivalInv, NEW p \in Procs, pc[p] = "chown",
         granted' = [granted EXCEPT ![Dir(p)] = IF @ = Cap THEN Cap ELSE @ + 1],
         Return(p, "running"), UNCHANGED dirs
  PROVE  RivalInv'
<1>0. Dir(p) \in Paths /\ \A q \in Procs : Dir(q) \in Paths
  BY JoinAssumption DEF Dir, TypeOK
<1>1. /\ \A q \in Procs : Dir(q)' = Dir(q) /\ rivals'[q] = rivals[q]
      /\ \A q \in Procs : q # p => pc'[q] = pc[q] /\ outcome'[q] = outcome[q]
      /\ pc'[p] = "idle" /\ outcome'[p] = "running" /\ dirs' = dirs
  BY DEF Return, TypeOK, Dir
<1>2. /\ \A d \in Paths : d # Dir(p) => granted'[d] = granted[d]
      /\ granted[Dir(p)] = 0 => granted'[Dir(p)] = 1
  BY <1>0 DEF TypeOK, Cap
<1>3. LateIsFree(p) /\ Late(p) /\ Dir(p) \in dirs
  BY DEF RivalInv, Late, Recorded
<1>4. Mutual'
  BY <1>1 DEF RivalInv, Mutual
<1>5. Recorded'
  BY <1>1, <1>2, <1>3 DEF RivalInv, Recorded
<1>6. ASSUME NEW q \in Procs, outcome'[q] = "running", Dir(q) \notin rivals[q]
      PROVE  granted'[Dir(q)] = 1
  <2>1. CASE q = p
    BY <1>2, <1>3, <1>6, <2>1 DEF LateIsFree
  <2>2. CASE q # p
    <3>1. outcome[q] = "running" /\ granted[Dir(q)] = 1
      BY <1>1, <1>6, <2>2 DEF RivalInv, DistinctUnlessRivals
    <3>2. Dir(q) # Dir(p)
      BY <1>3, <1>6, <3>1 DEF LateIsFree
    <3> QED BY <1>0, <1>2, <3>1, <3>2
  <2> QED BY <2>1, <2>2
<1>7. DistinctUnlessRivals'
  BY <1>1, <1>6 DEF DistinctUnlessRivals
<1>8. ASSUME NEW q \in Procs, Late(q)' PROVE LateIsFree(q)'
  <2>1. q # p /\ Late(q) /\ LateIsFree(q)
    BY <1>1, <1>8 DEF Late, RivalInv
  <2>2. Dir(p) \in rivals[q] /\ Dir(q) \in rivals[p]
    BY <2>1, <1>3 DEF RivalInv, Mutual, Late
  <2>3. granted'[Dir(q)] = 0 \/ Dir(q) \in rivals[q]
    BY <1>0, <1>2, <2>1, <2>2 DEF LateIsFree
  <2>4. \A x \in Procs : (outcome'[x] = "running" /\ Dir(x) = Dir(q))
                           => Dir(x) \in rivals[x]
    BY <1>1, <2>1, <2>2 DEF LateIsFree
  <2> QED BY <1>1, <2>3, <2>4 DEF LateIsFree
<1>9. \A q \in Procs : LateIsFree(q)'
  BY <1>8 DEF LateIsFree
<1> QED BY <1>4, <1>5, <1>7, <1>9 DEF RivalInv

\* A call that begins: it and the calls under way become rivals.
LEMMA CallKeepsRivals ==
  ASSUME TypeOK, RivalInv, NEW p \in Procs, NEW l \in {"arguments", "newLoad"},
         NEW i \in Ids, Call(p, l, i)
  PROVE  RivalInv'
<1>1. /\ \A q \in Procs : q # p => /\ Dir(q)' = Dir(q) /\ pc'[q] = pc[q]
                                   /\ outcome'[q] = outcome[q]
                                   /\ rivals[q] \subseteq rivals'[q]
                                   /\ pc[q] # "idle" => Dir(p)' \in rivals'[q]
                                   /\ pc[q] = "idle" => rivals'[q] = rivals[q]
      /\ \A q \in Procs : pc[q] # "idle" => Dir(q) \in rivals'[p]
      /\ pc'[p] = l /\ outcome'[p] = "none"
      /\ UNCHANGED <<dirs, granted>>
  BY DEF Call, TypeOK, Dir, Busy
<1>2. Mutual'
  BY <1>1 DEF RivalInv, Mutual
<1>3. Recorded'
  BY <1>1 DEF RivalInv, Recorded
<1>4. DistinctUnlessRivals'
  BY <1>1 DEF RivalInv, DistinctUnlessRivals
<1>5. \A q \in Procs : LateIsFree(q)'
  BY <1>1 DEF RivalInv, LateIsFree, Late
<1> QED BY <1>2, <1>3, <1>4, <1>5 DEF RivalInv

\* However calls overlap, fail and die: a directory that two containers were
\* given was asked for by calls that overlapped.
THEOREM Distinct == Spec => [](RivalInv /\ DistinctUnlessRivals)
<1>1. Init => RivalInv
  BY DEF Init, RivalInv, Mutual, Recorded, DistinctUnlessRivals, LateIsFree, Late
<1>2. TypeOK /\ RivalInv /\ [Next]_vars => RivalInv'
  <2> SUFFICES ASSUME TypeOK, RivalInv, [Next]_vars PROVE RivalInv'
    OBVIOUS
  <2>1. ASSUME NEW p \in Procs, Error(p) \/ Crash(p) PROVE RivalInv'
    BY <2>1, ReturnKeepsRivals DEF Error, Crash, Outcomes
  <2>2. ASSUME NEW p \in Procs, NEW f \in Labels \ {"idle"},
               NEW l \in Labels \ {"mkdir", "chown"}, New(p, f, l)
        PROVE  RivalInv'
    BY <2>2, <2>1, GotoKeepsRivals DEF New
  <2>3. ASSUME NEW p \in Procs, Arguments(p) \/ SecureJoin(p) \/ Stat(p) \/ Load(p)
        PROVE  RivalInv'
    BY <2>3, <2>1, ReturnKeepsRivals, GotoKeepsRivals
       DEF Arguments, SecureJoin, Stat, InUse, Load, Outcomes, Labels
  <2>4. ASSUME NEW p \in Procs, Mkdir(p) PROVE RivalInv'
    <3>1. Dir(p) \in Parents(Dir(p))
      BY JoinAssumption, SelfParent DEF Dir, TypeOK
    <3>2. CASE Goto(p, "chown") /\ dirs' = dirs \cup Parents(Dir(p))
      BY <2>4, <3>1, <3>2, GotoKeepsRivals DEF Mkdir, Late, Labels
    <3>3. ASSUME NEW r \in {"error", "crashed"}, Return(p, r) PROVE RivalInv'
      <4>1. dirs \subseteq dirs' /\ UNCHANGED granted
        BY <2>4 DEF Mkdir
      <4> QED BY <3>3, <4>1, ReturnKeepsRivals DEF Outcomes
    <3> QED BY <2>4, <3>2, <3>3 DEF Mkdir
  <2>5. ASSUME NEW p \in Procs, Chown(p) PROVE RivalInv'
    BY <2>5, <2>1, GrantKeepsRivals DEF Chown
  <2>6. CASE UNCHANGED vars
    BY <2>6 DEF vars, RivalInv, Mutual, Recorded, DistinctUnlessRivals,
                LateIsFree, Late, Dir
  <2> QED BY <2>1, <2>2, <2>3, <2>4, <2>5, <2>6, CallKeepsRivals
          DEF Next, Step, Labels
<1>3. RivalInv => DistinctUnlessRivals
  BY DEF RivalInv
<1> QED BY <1>1, <1>2, <1>3, Typing, PTL DEF Spec

-----------------------------------------------------------------------------
(***************************************************************************)
(* Why a call finds its directory: it did when the call began, or New made *)
(* it, or the call that made it is a rival.                                *)
(***************************************************************************)
Unlooked == {"arguments", "new", "join", "stat"}

Reason(p) ==
  existed[p] \/ Dir(p) = Root \/ \E d \in rivals[p] : Dir(p) \in Parents(d)

RefusalInv ==
  \A p \in Procs :
    /\ pc[p] \in {"new", "join", "stat", "mkdir", "chown"} => id[p] # ""
    /\ pc[p] \in Unlooked /\ Dir(p) \in dirs => Reason(p)
    /\ outcome[p] = "panic" => id[p] # "" /\ Reason(p)

\* A step inside a call: its own directory is not made before Stat.
LEMMA StepKeepsReason ==
  ASSUME TypeOK, RivalInv, RefusalInv, NEW p \in Procs, NEW l \in Labels,
         Goto(p, l), pc[p] # "idle", l # "arguments",
         \/ dirs' = dirs \cup {Root}
         \/ dirs' = dirs
         \/ dirs' = dirs \cup Parents(Dir(p)) /\ l \notin Unlooked,
         l \in {"new", "join", "stat", "mkdir", "chown"} => id[p] # "",
         l \in Unlooked => pc[p] \in Unlooked
  PROVE  RefusalInv'
<1>1. /\ \A q \in Procs : Dir(q)' = Dir(q) /\ Reason(q)' = Reason(q)
      /\ \A q \in Procs : q # p => pc'[q] = pc[q]
      /\ pc'[p] = l /\ UNCHANGED <<id, outcome>>
  BY DEF Goto, TypeOK, Dir, Reason
<1>2. ASSUME NEW q \in Procs, pc'[q] \in Unlooked, Dir(q) \in dirs'
      PROVE  Reason(q)
  <2>1. pc[q] \in Unlooked
    BY <1>1, <1>2
  <2>2. CASE Dir(q) \in dirs
    BY <2>1, <2>2 DEF RefusalInv
  <2>3. CASE Dir(q) = Root
    BY <2>3 DEF Reason
  <2>4. CASE Dir(q) \in Parents(Dir(p)) /\ q # p
    <3>1. pc[q] # "idle"
      BY <2>1 DEF Unlooked
    <3>2. Dir(p) \in rivals[q]
      BY <2>4, <3>1 DEF RivalInv, Mutual
    <3> QED BY <2>4, <3>2 DEF Reason
  <2> QED BY <1>1, <1>2, <2>2, <2>3, <2>4
<1>3. \A q \in Procs : outcome'[q] = "panic" => id[q] # "" /\ Reason(q)
  BY <1>1 DEF RefusalInv
<1>4. \A q \in Procs :
        pc'[q] \in {"new", "join", "stat", "mkdir", "chown"} => id[q] # ""
  BY <1>1 DEF RefusalInv
<1> QED BY <1>1, <1>2, <1>3, <1>4 DEF RefusalInv

\* A call that makes parents of its directory and fails or dies.
LEMMA PartKeepsReason ==
  ASSUME TypeOK, RivalInv, RefusalInv, NEW p \in Procs, pc[p] = "mkdir",
         NEW r \in {"error", "crashed"}, Return(p, r),
         dirs' \subseteq dirs \cup Parents(Dir(p))
  PROVE  RefusalInv'
<1>1. /\ \A q \in Procs : Dir(q)' = Dir(q) /\ Reason(q)' = Reason(q)
      /\ \A q \in Procs : q # p => pc'[q] = pc[q] /\ outcome'[q] = outcome[q]
      /\ pc'[p] = "idle" /\ outcome'[p] = r /\ UNCHANGED id
  BY DEF Return, TypeOK, Dir, Reason
<1>2. ASSUME NEW q \in Procs, pc'[q] \in Unlooked, Dir(q) \in dirs'
      PROVE  Reason(q)
  <2>1. q # p /\ pc[q] \in Unlooked /\ pc[q] # "idle"
    BY <1>1, <1>2 DEF Unlooked
  <2>2. CASE Dir(q) \in dirs
    BY <2>1, <2>2 DEF RefusalInv
  <2>3. CASE Dir(q) \in Parents(Dir(p))
    <3>1. Dir(p) \in rivals[q]
      BY <2>1 DEF RivalInv, Mutual
    <3> QED BY <2>3, <3>1 DEF Reason
  <2> QED BY <1>2, <2>2, <2>3
<1> QED BY <1>1, <1>2 DEF RefusalInv, Unlooked

\* The end of a call that makes nothing.
LEMMA ReturnKeepsReason ==
  ASSUME TypeOK, RefusalInv, NEW p \in Procs, NEW r \in Outcomes, Return(p, r),
         UNCHANGED dirs,
         r = "panic" => pc[p] = "stat" /\ Dir(p) \in dirs
  PROVE  RefusalInv'
<1>1. /\ \A q \in Procs : Dir(q)' = Dir(q) /\ Reason(q)' = Reason(q)
      /\ \A q \in Procs : q # p => pc'[q] = pc[q] /\ outcome'[q] = outcome[q]
      /\ pc'[p] = "idle" /\ outcome'[p] = r /\ UNCHANGED <<id, dirs>>
  BY DEF Return, TypeOK, Dir, Reason
<1> QED BY <1>1 DEF RefusalInv, Unlooked

\* Create fails for a directory in use only for a reason.
THEOREM Refusal == Spec => []RefusalHasReason
<1>1. Init => RefusalInv
  BY DEF Init, RefusalInv, Unlooked
<1>2. TypeOK /\ RivalInv /\ RefusalInv /\ [Next]_vars => RefusalInv'
  <2> SUFFICES ASSUME TypeOK, RivalInv, RefusalInv, [Next]_vars
               PROVE  RefusalInv'
    OBVIOUS
  <2>1. ASSUME NEW p \in Procs, NEW l \in {"arguments", "newLoad"}, NEW i \in Ids,
               Call(p, l, i)
        PROVE  RefusalInv'
    <3>1. /\ \A q \in Procs : q # p => /\ Dir(q)' = Dir(q) /\ pc'[q] = pc[q]
                                       /\ id'[q] = id[q]
                                       /\ outcome'[q] = outcome[q]
                                       /\ existed'[q] = existed[q]
                                       /\ rivals[q] \subseteq rivals'[q]
          /\ pc'[p] = l /\ outcome'[p] = "none" /\ Dir(p)' = Join[i]
          /\ existed'[p] = (Join[i] \in dirs) /\ UNCHANGED dirs
      BY <2>1 DEF Call, TypeOK, Dir, Busy
    <3>2. \A q \in Procs : q # p /\ Reason(q) => Reason(q)'
      BY <3>1 DEF Reason
    <3>3. Dir(p)' \in dirs' => Reason(p)'
      BY <3>1 DEF Reason
    <3> QED BY <3>1, <3>2, <3>3 DEF RefusalInv
  <2>2. ASSUME NEW p \in Procs, Error(p) \/ Crash(p) PROVE RefusalInv'
    BY <2>2, ReturnKeepsReason DEF Error, Crash, Outcomes
  <2>3. ASSUME NEW p \in Procs, Arguments(p) \/ SecureJoin(p) \/ Stat(p) \/ Load(p)
        PROVE  RefusalInv'
    <3>1. CASE Arguments(p)
      BY <3>1, <2>2, StepKeepsReason DEF Arguments, Identified, Labels, Unlooked
    <3>2. CASE SecureJoin(p)
      <4>1. id[p] # ""
        BY <3>2 DEF SecureJoin, RefusalInv
      <4> QED BY <3>2, <4>1, <2>2, StepKeepsReason DEF SecureJoin, Labels, Unlooked
    <3>3. CASE Stat(p)
      <4>1. id[p] # ""
        BY <3>3 DEF Stat, RefusalInv
      <4> QED BY <3>3, <4>1, <2>2, StepKeepsReason, ReturnKeepsReason
              DEF Stat, InUse, Labels, Unlooked, Outcomes
    <3>4. CASE Load(p)
      BY <3>4, <2>2, ReturnKeepsReason DEF Load, Outcomes
    <3> QED BY <2>3, <3>1, <3>2, <3>3, <3>4
  <2>4. ASSUME NEW p \in Procs, New(p, "new", "join") \/ New(p, "newLoad", "load")
        PROVE  RefusalInv'
    <3>1. pc[p] = "new" => id[p] # ""
      BY DEF RefusalInv
    <3> QED BY <2>4, <3>1, <2>2, StepKeepsReason DEF New, Labels, Unlooked
  <2>5. ASSUME NEW p \in Procs, Mkdir(p) PROVE RefusalInv'
    <3>1. id[p] # ""
      BY <2>5 DEF Mkdir, RefusalInv
    <3>2. CASE Goto(p, "chown") /\ dirs' = dirs \cup Parents(Dir(p))
      BY <2>5, <3>1, <3>2, StepKeepsReason DEF Mkdir, Labels, Unlooked
    <3>3. Dir(p) \in Paths
      BY JoinAssumption DEF Dir, TypeOK
    <3>4. ASSUME NEW r \in {"error", "crashed"}, Return(p, r) PROVE RefusalInv'
      <4>1. dirs' \subseteq dirs \cup Parents(Dir(p)) /\ pc[p] = "mkdir"
        BY <2>5, <3>3, MkdirWithin DEF Mkdir
      <4> QED BY <3>4, <4>1, PartKeepsReason
    <3> QED BY <2>5, <3>2, <3>4 DEF Mkdir
  <2>6. ASSUME NEW p \in Procs, Chown(p) PROVE RefusalInv'
    BY <2>6, <2>2, ReturnKeepsReason DEF Chown, Outcomes
  <2>7. CASE UNCHANGED vars
    BY <2>7 DEF vars, RefusalInv, Reason, Dir
  <2> QED BY <2>1, <2>2, <2>3, <2>4, <2>5, <2>6, <2>7 DEF Next, Step
<1>3. TypeOK /\ RefusalInv => RefusalHasReason
  BY DEF RefusalInv, Reason, RefusalHasReason
<1> QED BY <1>1, <1>2, <1>3, Typing, Distinct, PTL DEF Spec

-----------------------------------------------------------------------------
(***************************************************************************)
(* The refinement: a call begins as an Ask, a container returned is the    *)
(* Grant, any other end of the call a Refuse, and the rest is stuttering.  *)
(***************************************************************************)
Taken     == {d \in Paths : granted[d] > 0}
Asked     == [p \in Procs |-> Dir(p)]
Contended == [p \in Procs |-> Dir(p) \in rivals[p]]
Answer    == [p \in Procs |-> IF pc[p] # "idle" THEN "waiting"
                              ELSE IF outcome[p] = "none" THEN "none"
                              ELSE IF outcome[p] = "running" THEN "container"
                              ELSE "refused"]

\* The beginning of a call is an Ask.
LEMMA CallIsAsk ==
  ASSUME TypeOK, NEW p \in Procs, NEW l \in {"arguments", "newLoad"}, NEW i \in Ids,
         Call(p, l, i)
  PROVE  Registry!Ask(p, Join[i])
<1> USE DEF TypeOK
<1>1. Taken' = Taken
  BY DEF Call, Taken
<1>2. Asked' = [Asked EXCEPT ![p] = Join[i]]
  BY DEF Call, Asked, Dir
<1>3. Answer' = [Answer EXCEPT ![p] = "waiting"] /\ Answer[p] # "waiting"
  <2>1. Answer'[p] = "waiting" /\ Answer[p] # "waiting"
    BY DEF Call, Answer
  <2>2. \A q \in Procs : q # p => pc'[q] = pc[q] /\ outcome'[q] = outcome[q]
    BY DEF Call
  <2> QED BY <2>1, <2>2 DEF Answer
<1> DEFINE Others == {q \in Procs : Answer[q] = "waiting" /\ Asked[q] = Join[i]}
<1>4. \A q \in Procs : Answer[q] = "waiting" <=> q \in Busy
  BY DEF Answer, Busy
<1>5. Others = {q \in Busy : Dir(q) = Join[i]}
  BY <1>4 DEF Asked, Busy
<1>6. Contended'[p] = (Others # {})
  <2>1. Dir(p)' = Join[i] /\ rivals'[p] = {Dir(b) : b \in Busy}
    BY DEF Call, Dir
  <2>2. Contended'[p] = (Join[i] \in {Dir(b) : b \in Busy})
    BY <2>1, Zenon DEF Contended
  <2>3. (Join[i] \in {Dir(b) : b \in Busy}) = (Others # {})
    BY <1>5
  <2> QED BY <2>2, <2>3, Zenon
<1>7. ASSUME NEW q \in Procs, q # p
      PROVE  Contended'[q] = (Contended[q] \/ q \in Others)
  <2>1. Dir(q)' = Dir(q)
    BY <1>7 DEF Call, Dir
  <2>2. /\ Contended'[q] = (Dir(q)' \in rivals'[q])
        /\ Contended[q] = (Dir(q) \in rivals[q])
    BY Zenon DEF Contended
  <2>3. CASE q \in Busy
    <3>1. rivals'[q] = rivals[q] \cup {Join[i]}
      BY <1>7, <2>3 DEF Call
    <3>2. (Dir(q)' \in rivals'[q]) = (Dir(q) \in rivals[q] \/ q \in Others)
      BY <2>1, <2>3, <3>1, <1>5
    <3> QED BY <3>2, <2>2, Zenon
  <2>4. CASE q \notin Busy
    <3>1. rivals'[q] = rivals[q]
      BY <1>7, <2>4 DEF Call
    <3>2. (Dir(q)' \in rivals'[q]) = (Dir(q) \in rivals[q] \/ q \in Others)
      BY <2>1, <2>4, <3>1, <1>5
    <3> QED BY <3>2, <2>2, Zenon
  <2> QED BY <2>3, <2>4
<1>8. Contended' = [q \in Procs |-> IF q = p THEN Others # {}
                                    ELSE Contended[q] \/ q \in Others]
  <2>1. Contended' = [q \in Procs |-> Contended'[q]]
    BY DEF Contended
  <2> QED BY <2>1, <1>6, <1>7
<1> QED BY <1>1, <1>2, <1>3, <1>8
        DEF Registry!Ask, Taken, Asked, Contended, Answer

\* The end of a call is a Grant or a Refuse.
LEMMA ReturnAnswers ==
  ASSUME TypeOK, NEW p \in Procs, pc[p] # "idle", NEW r \in Outcomes \ {"none"},
         Return(p, r)
  PROVE  /\ Asked' = Asked /\ Contended' = Contended /\ Answer[p] = "waiting"
         /\ Answer' = [Answer EXCEPT ![p] = IF r = "running" THEN "container"
                                            ELSE "refused"]
<1> USE DEF TypeOK
<1>1. Asked' = Asked /\ Contended' = Contended
  BY DEF Return, Asked, Contended, Dir
<1>2. /\ Answer[p] = "waiting"
      /\ Answer'[p] = IF r = "running" THEN "container" ELSE "refused"
  BY DEF Return, Answer
<1>3. \A q \in Procs : q # p => pc'[q] = pc[q] /\ outcome'[q] = outcome[q]
  BY DEF Return
<1> QED BY <1>1, <1>2, <1>3 DEF Answer

\* A call that ends without a container.
LEMMA ReturnIsRefuse ==
  ASSUME TypeOK, NEW p \in Procs, pc[p] # "idle",
         NEW r \in Outcomes \ {"none", "running"}, Return(p, r), UNCHANGED granted
  PROVE  Registry!Refuse(p)
<1>1. Taken' = Taken
  BY DEF Taken
<1> QED BY <1>1, ReturnAnswers
        DEF Registry!Refuse, Taken, Asked, Contended, Answer

\* A step inside a call is no step of the registry.
LEMMA GotoStutters ==
  ASSUME TypeOK, NEW p \in Procs, pc[p] # "idle", NEW l \in Labels \ {"idle"},
         Goto(p, l), UNCHANGED granted
  PROVE  UNCHANGED Registry!vars
<1>1. Taken' = Taken /\ Asked' = Asked /\ Contended' = Contended
  BY DEF Goto, Taken, Asked, Contended, Dir
<1>2. \A q \in Procs : (pc'[q] # "idle" <=> pc[q] # "idle") /\ outcome'[q] = outcome[q]
  BY DEF Goto, TypeOK
<1>3. Answer' = Answer
  BY <1>2 DEF Answer
<1> QED BY <1>1, <1>3 DEF Registry!vars, Taken, Asked, Contended, Answer

\* A container is granted: the directory has none, or the call has a rival.
LEMMA ChownIsGrant ==
  ASSUME TypeOK, RivalInv, NEW p \in Procs, pc[p] = "chown",
         granted' = [granted EXCEPT ![Dir(p)] = IF @ = Cap THEN Cap ELSE @ + 1],
         Return(p, "running")
  PROVE  Registry!Grant(p)
<1>1. Dir(p) \in Paths
  BY JoinAssumption DEF Dir, TypeOK
<1>2. granted[Dir(p)] \in Nat /\ granted'[Dir(p)] > 0
  BY <1>1 DEF TypeOK, Cap
<1>3. \A d \in Paths : d # Dir(p) => granted'[d] = granted[d]
  BY DEF TypeOK
<1>4. Taken' = Taken \cup {Asked[p]}
  BY <1>1, <1>2, <1>3 DEF Taken, Asked
<1>5. Asked[p] \notin Taken \/ Contended[p]
  <2>1. granted[Dir(p)] = 0 \/ Dir(p) \in rivals[p]
    BY DEF RivalInv, LateIsFree, Late
  <2>2. Dir(p) \in rivals[p] => Contended[p]
    BY Zenon DEF Contended
  <2>3. granted[Dir(p)] = 0 => Asked[p] \notin Taken
    BY <1>2 DEF Taken, Asked
  <2> QED BY <2>1, <2>2, <2>3
<1>6. /\ Asked' = Asked /\ Contended' = Contended /\ Answer[p] = "waiting"
      /\ Answer' = [Answer EXCEPT ![p] = "container"]
  BY ReturnAnswers DEF Outcomes
<1> QED BY <1>4, <1>5, <1>6 DEF Registry!Grant, Taken, Asked, Contended, Answer

\* Every step is a step of the registry or leaves it alone.
LEMMA StepSimulation ==
  ASSUME TypeOK, RivalInv, [Next]_vars
  PROVE  [Registry!Next]_(Registry!vars)
<1>1. ASSUME NEW p \in Procs, NEW l \in {"arguments", "newLoad"}, NEW i \in Ids,
             Call(p, l, i)
      PROVE  Registry!Next
  <2>1. Join[i] \in Paths
    BY JoinAssumption
  <2> QED BY <1>1, <2>1, CallIsAsk DEF Registry!Next
<1>2. ASSUME NEW p \in Procs, pc[p] # "idle", Error(p) \/ Crash(p)
      PROVE  Registry!Refuse(p)
  BY <1>2, ReturnIsRefuse DEF Error, Crash, Outcomes
<1>3. ASSUME NEW p \in Procs, Step(p) \/ Crash(p)
      PROVE  Registry!Grant(p) \/ Registry!Refuse(p) \/ UNCHANGED Registry!vars
  <2>1. pc[p] # "idle"
    BY <1>3 DEF Step, Crash, Arguments, New, SecureJoin, Stat, Mkdir, Chown, Load
  <2>2. CASE Arguments(p) \/ SecureJoin(p) \/ Stat(p) \/ Load(p)
    BY <2>1, <2>2, <1>2, ReturnIsRefuse, GotoStutters
       DEF Arguments, SecureJoin, Stat, Load, Outcomes, Labels
  <2>5. CASE Mkdir(p)
    <3>1. Goto(p, "chown") \/ \E r \in {"error", "crashed"} : Return(p, r)
      BY <2>5 DEF Mkdir
    <3>2. UNCHANGED granted
      BY <2>5 DEF Mkdir
    <3> QED BY <2>1, <3>1, <3>2, ReturnIsRefuse, GotoStutters DEF Outcomes, Labels
  <2>3. CASE New(p, "new", "join") \/ New(p, "newLoad", "load")
    BY <2>1, <2>3, <1>2, GotoStutters DEF New, Labels
  <2>4. CASE Chown(p)
    BY <2>1, <2>4, <1>2, ChownIsGrant DEF Chown
  <2> QED BY <1>3, <2>1, <2>2, <2>3, <2>4, <2>5, <1>2 DEF Step
<1>4. CASE UNCHANGED vars
  BY <1>4 DEF vars, Registry!vars, Dir
<1> QED BY <1>1, <1>3, <1>4 DEF Next, Registry!Next

\* The factory implements the registry, however calls overlap, fail and die.
THEOREM Refinement == Spec => ImplementsRegistry
<1>1. TypeOK /\ Init => Registry!Init
  <2> SUFFICES ASSUME TypeOK, Init PROVE Registry!Init
    OBVIOUS
  <2>1. Taken = {}
    BY DEF Init, Taken
  <2>2. Asked \in [Procs -> Paths]
    BY JoinAssumption DEF TypeOK, Asked, Dir
  <2>3. Answer = [p \in Procs |-> "none"]
    BY DEF Init, Answer
  <2>4. Contended = [p \in Procs |-> FALSE]
    <3>1. \A p \in Procs : rivals[p] = {}
      BY DEF Init
    <3>2. \A p \in Procs : Dir(p) \notin rivals[p]
      BY <3>1
    <3>3. ASSUME NEW p \in Procs PROVE (Dir(p) \in rivals[p]) = FALSE
      <4>1. (Dir(p) \in rivals[p]) \in BOOLEAN
        OBVIOUS
      <4> QED BY <3>2, <4>1
    <3> QED BY <3>3, Zenon DEF Contended
  <2> QED BY <2>1, <2>2, <2>3, <2>4
          DEF Registry!Init, Taken, Asked, Contended, Answer
<1> QED BY <1>1, Distinct, Typing, StepSimulation, PTL
        DEF Spec, ImplementsRegistry, Registry!Spec
=============================================================================
