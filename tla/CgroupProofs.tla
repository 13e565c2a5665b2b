---------------------------- MODULE CgroupProofs ----------------------------
(***************************************************************************)
(* NewCgroup leaves complete groups behind a nil error and an initial part *)
(* behind anything else, for any number of processes and any requests;     *)
(* remove gives up a group only after tries that others have disturbed;    *)
(* cleanPath never leads above the directory a path is joined to, and      *)
(* ensureParent makes exactly the directories between the mount point and  *)
(* the group, for every path.                                              *)
(***************************************************************************)
EXTENDS Cgroup, CgroupUtils, CgroupPath, FiniteSetTheorems, WellFoundedInduction, TLAPS

\* What a call has found: subsystems in the order of Defaults, each once;
\* nothing is made before they are all known.
Found(p) ==
  /\ pc[p] = "mountinfo" => enabled[p] = <<>>
  /\ pc[p] = "lstat" =>
       \A i \in 1 .. Len(enabled[p]) :
         \E d \in 1 .. 8 : d < at[p] /\ enabled[p][i] = Defaults[d]
  /\ \A i, j \in 1 .. Len(enabled[p]) : enabled[p][i] = enabled[p][j] => i = j
  /\ pc[p] \in {"mountinfo", "lstat"} => begun[p] = {}

\* How far it has come: the subsystems before the current one are configured,
\* and of the current one the files before the next.
Progress(p) ==
  /\ pc[p] \in {"mkdir", "write"} =>
       \A i \in 1 .. Len(enabled[p]) : i < at[p] => Configured(p, enabled[p][i])
  /\ pc[p] = "write" =>
       /\ at[p] <= Len(enabled[p])
       /\ enabled[p][at[p]] \in dirs \cup moved[p]
       /\ \A i \in 1 .. Len(Files(req[p], enabled[p][at[p]])) :
            i < k[p] => Applied(p, Files(req[p], enabled[p][at[p]])[i])

InOrder(p) ==
  \A i, j \in 1 .. Len(enabled[p]) :
    (i < j /\ enabled[p][j] \in begun[p]) => Configured(p, enabled[p][i])

Complete(p) ==
  result[p] = "ok" => \A i \in 1 .. Len(active[p]) : Configured(p, active[p][i])

CallInv(p) == Found(p) /\ Progress(p) /\ InOrder(p) /\ Complete(p)
IInv == TypeOK /\ \A p \in Procs : CallInv(p)

-----------------------------------------------------------------------------
LEMMA DefaultsFacts ==
  /\ Len(Defaults) = 8
  /\ \A d \in 1 .. 8 : Defaults[d] \in Subsystems
  /\ \A d, e \in 1 .. 8 : Defaults[d] = Defaults[e] => d = e
BY DEF Defaults, Subsystems

\* Whatever is asked for, a subsystem's Create writes files of the group.
LEMMA FilesType ==
  ASSUME NEW r \in Requests, NEW s \in Subsystems
  PROVE  Files(r, s) \in Seq(AllFiles)
<1>1. PidsFiles(r) \in Seq(AllFiles) /\ NetClsFiles(r) \in Seq(AllFiles)
  <2>1. "pids.max" \in AllFiles /\ "net_cls.classid" \in AllFiles
    BY DEF AllFiles
  <2>2. <<"pids.max">> \in Seq(AllFiles) /\ <<"net_cls.classid">> \in Seq(AllFiles)
    BY <2>1
  <2>3. <<>> \in Seq(AllFiles)
    OBVIOUS
  <2>4. PidsFiles(r) \in Seq(AllFiles)
    BY <2>2, <2>3, Zenon DEF PidsFiles
  <2>5. NetClsFiles(r) \in Seq(AllFiles)
    BY <2>2, <2>3, Zenon DEF NetClsFiles
  <2> QED BY <2>4, <2>5
<1>2. /\ NetPrioFiles(r) \in Seq(AllFiles)
      /\ r.cpuset \in Seq(AllFiles) /\ r.memory \in Seq(AllFiles)
  BY RequestsAssumption DEF NetPrioFiles, AllFiles
<1>3. \A f \in AllFiles : CpuFile(r, f) \in Seq(AllFiles)
  BY DEF CpuFile
<1>4. CpuFiles(r) \in Seq(AllFiles)
  <2>1. {"cpu.rt_period_us", "cpu.rt_runtime_us", "cpu.shares",
         "cpu.cfs_period_us", "cpu.cfs_quota_us"} \subseteq AllFiles
    BY DEF AllFiles, CpuNames
  <2> QED BY <1>3, <2>1 DEF CpuFiles
<1>5. s \in {"systemd", "pids", "net_cls", "net_prio", "cpuset", "cpu", "cpuacct", "memory"}
  BY DEF Subsystems, Defaults
<1>6. <<>> \in Seq(AllFiles)
  OBVIOUS
<1> QED BY <1>1, <1>2, <1>4, <1>5, <1>6 DEF Files

LEMMA FilesOfType == \A s : FilesOf(s) \subseteq AllFiles
BY DEF FilesOf, AllFiles

\* A subsystem that is configured stays so while its call goes on.
LEMMA StaysConfigured ==
  ASSUME TypeOK, NEW p \in Procs, NEW s \in Subsystems, Configured(p, s),
         dirs \subseteq dirs' \cup moved'[p], moved[p] \subseteq moved'[p], req'[p] = req[p],
         \A f \in AllFiles : Applied(p, f) => Applied(p, f)'
  PROVE  Configured(p, s)'
<1>1. Files(req[p], s) \in Seq(AllFiles)
  BY FilesType DEF TypeOK
<1>2. Files(req[p], s)' = Files(req[p], s)
  BY DEF Files, PidsFiles, NetClsFiles, NetPrioFiles, CpuFiles, CpuFile
<1> QED BY <1>1, <1>2 DEF Configured

\* A process that does not act keeps its part of the invariant.
LEMMA Bystander ==
  ASSUME IInv, NEW p \in Procs,
         pc'[p] = pc[p], req'[p] = req[p], enabled'[p] = enabled[p],
         at'[p] = at[p], k'[p] = k[p], result'[p] = result[p],
         active'[p] = active[p], begun'[p] = begun[p],
         dirs \subseteq dirs' \cup moved'[p], moved[p] \subseteq moved'[p],
         \A f \in AllFiles : Applied(p, f) => Applied(p, f)'
  PROVE  CallInv(p)'
<1>1. TypeOK /\ Found(p) /\ Progress(p) /\ InOrder(p) /\ Complete(p)
  BY DEF IInv, CallInv
<1>2. enabled[p] \in Seq(Subsystems) /\ active[p] \in Seq(Subsystems)
      /\ at[p] \in Nat \ {0} /\ req[p] \in Requests
  BY <1>1 DEF TypeOK
<1>3. \A s \in Subsystems : Configured(p, s) => Configured(p, s)'
  BY <1>1, StaysConfigured
<1>4. \A s : Files(req[p], s)' = Files(req[p], s)
  BY DEF Files, PidsFiles, NetClsFiles, NetPrioFiles, CpuFiles, CpuFile
<1>5. Found(p)'
  BY <1>1 DEF Found
<1>6. Progress(p)'
  <2>1. \A i \in 1 .. Len(enabled[p]) : enabled[p][i] \in Subsystems
    BY <1>2
  <2>2. pc[p] = "write" => Files(req[p], enabled[p][at[p]]) \in Seq(AllFiles)
    BY <1>1, <1>2, <2>1, FilesType DEF Progress
  <2> QED BY <1>1, <1>2, <1>3, <1>4, <2>1, <2>2 DEF Progress
<1>7. InOrder(p)' /\ Complete(p)'
  BY <1>1, <1>2, <1>3 DEF InOrder, Complete
<1> QED BY <1>5, <1>6, <1>7 DEF CallInv

LEMMA InitInv == Init => IInv
<1> SUFFICES ASSUME Init PROVE IInv
  OBVIOUS
<1>1. TypeOK
  <2>1. (CHOOSE r \in Requests : TRUE) \in Requests
    BY RequestsAssumption
  <2> QED BY <2>1, MountsAssumption DEF Init, TypeOK
<1>2. ASSUME NEW p \in Procs PROVE CallInv(p)
  BY <1>2 DEF Init, CallInv, Found, Progress, InOrder, Complete
<1> QED BY <1>1, <1>2 DEF IInv, Init

-----------------------------------------------------------------------------
LEMMA CallStep == ASSUME IInv, NEW q \in Procs, NEW r \in Requests, Call(q, r) PROVE IInv'
<1> USE DEF Call
<1>1. TypeOK'
  BY DEF IInv, TypeOK
<1>2. CallInv(q)'
  BY DEF IInv, TypeOK, CallInv, Found, Progress, InOrder, Complete
<1>3. ASSUME NEW p \in Procs, p # q PROVE CallInv(p)'
  <2>1. \A f \in AllFiles : Applied(p, f) => Applied(p, f)'
    BY <1>3 DEF IInv, TypeOK, Applied
  <2> QED BY <1>3, <2>1, Bystander DEF IInv, TypeOK
<1> QED BY <1>1, <1>2, <1>3 DEF IInv

\* A call ends with an error or dies, wherever it is.
LEMMA StopStep ==
  ASSUME IInv, NEW q \in Procs, Fail(q)
  PROVE  IInv'
<1> USE DEF Fail, Return, group, mounts
<1>1. TypeOK'
  BY DEF IInv, TypeOK
<1>2. ASSUME NEW p \in Procs PROVE \A f \in AllFiles : Applied(p, f) => Applied(p, f)'
  BY DEF Applied
<1>3. CallInv(q)'
  <2>1. \A s \in Subsystems : Configured(q, s) => Configured(q, s)'
    BY <1>2, StaysConfigured DEF IInv
  <2>2. enabled[q] \in Seq(Subsystems)
    BY DEF IInv, TypeOK
  <2>3. Found(q)' /\ Progress(q)' /\ Complete(q)'
    BY DEF IInv, TypeOK, CallInv, Found, Progress, Complete
  <2>4. InOrder(q)'
    BY <2>1, <2>2 DEF IInv, CallInv, InOrder
  <2> QED BY <2>3, <2>4 DEF CallInv
<1>4. ASSUME NEW p \in Procs, p # q PROVE CallInv(p)'
  BY <1>2, <1>4, Bystander DEF IInv, TypeOK
<1> QED BY <1>1, <1>3, <1>4 DEF IInv

LEMMA GetMountPointStep == ASSUME IInv, NEW q \in Procs, GetMountPoint(q) PROVE IInv'
<1>1. CASE Fail(q)
  BY <1>1, StopStep
<1>2. CASE /\ pc[q] = "mountinfo" /\ pc' = [pc EXCEPT ![q] = "lstat"]
           /\ UNCHANGED <<mounts, group, req, enabled, at, k, result, active, begun>>
  <2> USE <1>2 DEF group, mounts
  <2>1. TypeOK'
    BY DEF IInv, TypeOK
  <2>2. ASSUME NEW p \in Procs PROVE \A f \in AllFiles : Applied(p, f) => Applied(p, f)'
    BY DEF Applied
  <2>3. CallInv(q)'
    <3>1. pc[q] = "mountinfo" /\ pc'[q] = "lstat" /\ enabled[q] = <<>> /\ begun[q] = {}
      BY DEF IInv, TypeOK, CallInv, Found
    <3>2. Found(q)' /\ Progress(q)' /\ InOrder(q)'
      BY <3>1 DEF Found, Progress, InOrder
    <3>3. active[q] \in Seq(Subsystems) /\ Complete(q)
      BY DEF IInv, TypeOK, CallInv
    <3>4. Complete(q)'
      BY <2>2, <3>3, StaysConfigured DEF IInv, Complete
    <3> QED BY <3>2, <3>4 DEF CallInv
  <2>4. ASSUME NEW p \in Procs, p # q PROVE CallInv(p)'
    BY <2>2, <2>4, Bystander DEF IInv, TypeOK
  <2> QED BY <2>1, <2>3, <2>4 DEF IInv
<1> QED BY <1>1, <1>2 DEF GetMountPoint

LEMMA LstatStep == ASSUME IInv, NEW q \in Procs, Lstat(q) PROVE IInv'
<1> USE DEF Lstat, group, mounts
<1> DEFINE s == Defaults[at[q]]
<1>0. /\ at[q] \in 1 .. 8 /\ s \in Subsystems /\ enabled[q] \in Seq(Subsystems)
      /\ pc[q] = "lstat" /\ begun[q] = {} /\ Found(q)
  <2>1. at[q] \in Nat \ {0} /\ at[q] <= Len(Defaults)
    BY DEF IInv, TypeOK
  <2>2. at[q] \in 1 .. 8
    BY <2>1, DefaultsFacts
  <2>3. s \in Subsystems
    BY <2>2, DefaultsFacts
  <2>4. enabled[q] \in Seq(Subsystems) /\ pc[q] = "lstat" /\ begun[q] = {} /\ Found(q)
    BY DEF IInv, TypeOK, CallInv, Found
  <2> QED BY <2>2, <2>3, <2>4
<1>1. TypeOK'
  <2> HIDE DEF s
  <2>1. Append(enabled[q], s) \in Seq(Subsystems)
    BY <1>0
  <2>2. enabled' \in [Procs -> Seq(Subsystems)]
    <3>1. enabled' = [enabled EXCEPT ![q] = Append(@, s)] \/ enabled' = enabled
      BY DEF s
    <3> QED BY <2>1, <3>1 DEF IInv, TypeOK
  <2>3. at' \in [Procs -> Nat \ {0}]
    BY DEF IInv, TypeOK
  <2> QED BY <2>2, <2>3 DEF IInv, TypeOK
<1>2. ASSUME NEW p \in Procs PROVE \A f \in AllFiles : Applied(p, f) => Applied(p, f)'
  BY DEF Applied
<1>3. CallInv(q)'
  <2>1. at'[q] = at[q] + 1 /\ pc'[q] = "lstat" /\ begun'[q] = {}
    BY <1>0 DEF IInv, TypeOK
  <2>2. Found(q)'
    <3>1. CASE enabled' = enabled
      <4>1. \A i \in 1 .. Len(enabled[q]) :
              \E d \in 1 .. 8 : d < at'[q] /\ enabled[q][i] = Defaults[d]
        <5>1. \A d \in 1 .. 8 : d < at[q] => d < at'[q]
          BY <1>0, <2>1
        <5> HIDE DEF Lstat
        <5> QED BY <1>0, <5>1 DEF Found
      <4> HIDE DEF Lstat
      <4> QED BY <1>0, <2>1, <3>1, <4>1 DEF Found
    <3>2. CASE enabled' = [enabled EXCEPT ![q] = Append(@, s)]
      <4>1. /\ enabled'[q] = Append(enabled[q], s)
            /\ Len(enabled'[q]) = Len(enabled[q]) + 1
            /\ enabled'[q][Len(enabled[q]) + 1] = s
            /\ \A i \in 1 .. Len(enabled[q]) : enabled'[q][i] = enabled[q][i]
        BY <1>0, <3>2 DEF IInv, TypeOK
      <4>2. \A i \in 1 .. Len(enabled'[q]) : i \in 1 .. Len(enabled[q]) \/ i = Len(enabled[q]) + 1
        BY <1>0, <4>1
      <4>3. \A i \in 1 .. Len(enabled[q]) : enabled[q][i] # s
        BY <1>0, DefaultsFacts DEF Found
      <4>4. \A i \in 1 .. Len(enabled'[q]) :
              \E d \in 1 .. 8 : d < at'[q] /\ enabled'[q][i] = Defaults[d]
        <5> SUFFICES ASSUME NEW i \in 1 .. Len(enabled'[q])
                     PROVE  \E d \in 1 .. 8 : d < at'[q] /\ enabled'[q][i] = Defaults[d]
          OBVIOUS
        <5>1. CASE i \in 1 .. Len(enabled[q])
          <6>1. PICK d \in 1 .. 8 : d < at[q] /\ enabled[q][i] = Defaults[d]
            BY <1>0, <5>1 DEF Found
          <6>2. d < at'[q] /\ enabled'[q][i] = Defaults[d]
            BY <1>0, <2>1, <4>1, <5>1, <6>1
          <6> QED BY <6>2
        <5>2. CASE i = Len(enabled[q]) + 1
          <6>1. at[q] < at'[q] /\ enabled'[q][i] = Defaults[at[q]]
            BY <1>0, <2>1, <4>1, <5>2
          <6> QED BY <1>0, <6>1
        <5> QED BY <4>2, <5>1, <5>2
      <4>5. \A i, j \in 1 .. Len(enabled'[q]) : enabled'[q][i] = enabled'[q][j] => i = j
        <5> HIDE DEF Lstat, s
        <5> SUFFICES ASSUME NEW i \in 1 .. Len(enabled'[q]), NEW j \in 1 .. Len(enabled'[q]),
                            enabled'[q][i] = enabled'[q][j]
                     PROVE  i = j
          OBVIOUS
        <5>1. CASE i \in 1 .. Len(enabled[q]) /\ j \in 1 .. Len(enabled[q])
          BY <1>0, <4>1, <5>1 DEF Found
        <5>2. CASE i \notin 1 .. Len(enabled[q]) \/ j \notin 1 .. Len(enabled[q])
          BY <4>1, <4>2, <4>3, <5>2
        <5> QED BY <5>1, <5>2
      <4> QED BY <2>1, <4>4, <4>5 DEF Found
    <3> QED BY <3>1, <3>2
  <2>3. Progress(q)' /\ InOrder(q)'
    BY <2>1 DEF Progress, InOrder
  <2>4. Complete(q)'
    BY <1>2, StaysConfigured DEF IInv, TypeOK, CallInv, Complete
  <2> QED BY <2>2, <2>3, <2>4 DEF CallInv
<1>4. ASSUME NEW p \in Procs, p # q PROVE CallInv(p)'
  BY <1>2, <1>4, Bystander DEF IInv, TypeOK
<1> QED BY <1>1, <1>3, <1>4 DEF IInv

LEMMA LstatDoneStep == ASSUME IInv, NEW q \in Procs, LstatDone(q) PROVE IInv'
<1> USE DEF LstatDone, group, mounts
<1>1. TypeOK'
  BY DEF IInv, TypeOK
<1>2. ASSUME NEW p \in Procs PROVE \A f \in AllFiles : Applied(p, f) => Applied(p, f)'
  BY DEF Applied
<1>3. CallInv(q)'
  <2>1. pc'[q] = "mkdir" /\ at'[q] = 1 /\ begun'[q] = {} /\ enabled[q] \in Seq(Subsystems)
    BY DEF IInv, TypeOK, CallInv, Found
  <2>2. Found(q)' /\ Progress(q)' /\ InOrder(q)'
    BY <2>1 DEF IInv, CallInv, Found, Progress, InOrder
  <2>3. Complete(q)'
    BY <1>2, StaysConfigured DEF IInv, TypeOK, CallInv, Complete
  <2> QED BY <2>2, <2>3 DEF CallInv
<1>4. ASSUME NEW p \in Procs, p # q PROVE CallInv(p)'
  BY <1>2, <1>4, Bystander DEF IInv, TypeOK
<1> QED BY <1>1, <1>3, <1>4 DEF IInv

LEMMA MkdirStep == ASSUME IInv, NEW q \in Procs, Mkdir(q) PROVE IInv'
<1> DEFINE s == enabled[q][at[q]]
<1>0. /\ pc[q] = "mkdir" /\ at[q] \in 1 .. Len(enabled[q])
      /\ enabled[q] \in Seq(Subsystems) /\ s \in Subsystems
      /\ Found(q) /\ Progress(q) /\ InOrder(q) /\ Complete(q)
  BY DEF Mkdir, IInv, TypeOK, CallInv, Found
<1>1. CASE Fail(q)
  BY <1>1, StopStep
<1>2. CASE /\ dirs' = dirs \cup {s}
           /\ begun' = [begun EXCEPT ![q] = @ \cup {s}]
           /\ pc' = [pc EXCEPT ![q] = "write"]
           /\ k' = [k EXCEPT ![q] = 1]
           /\ UNCHANGED <<mounts, content, touched, req, enabled, at, result, active>>
  <2> USE <1>2 DEF mounts
  <2>1. TypeOK'
    BY <1>0 DEF IInv, TypeOK
  <2>2. ASSUME NEW p \in Procs PROVE \A f \in AllFiles : Applied(p, f) => Applied(p, f)'
    BY DEF Applied
  <2>3. CallInv(q)'
    <3>1. pc'[q] = "write" /\ k'[q] = 1 /\ begun'[q] = begun[q] \cup {s}
      BY DEF IInv, TypeOK
    <3>2. \A t \in Subsystems : Configured(q, t) => Configured(q, t)'
      BY <2>2, StaysConfigured DEF IInv
    <3>3. \A i \in 1 .. Len(enabled[q]) : enabled[q][i] \in Subsystems
      BY <1>0
    <3>4. Found(q)'
      BY <1>0, <3>1 DEF Found
    <3>5. Progress(q)'
      <4>1. \A i \in 1 .. Len(enabled[q]) : i < at[q] => Configured(q, enabled[q][i])'
        BY <1>0, <3>2, <3>3 DEF Progress
      <4>2. \A i \in 1 .. Len(Files(req[q], s)) : ~(i < 1)
        BY <1>0, FilesType DEF IInv, TypeOK
      <4> QED BY <1>0, <3>1, <4>1 DEF Progress
    <3>6. InOrder(q)'
      <4> SUFFICES ASSUME NEW i \in 1 .. Len(enabled[q]), NEW j \in 1 .. Len(enabled[q]),
                          i < j, enabled[q][j] \in begun'[q]
                   PROVE  Configured(q, enabled[q][i])'
        BY DEF InOrder
      <4>1. CASE enabled[q][j] \in begun[q]
        BY <1>0, <3>2, <3>3, <4>1 DEF InOrder
      <4>2. CASE enabled[q][j] = s
        <5>1. j = at[q]
          BY <1>0, <4>2 DEF Found
        <5> QED BY <1>0, <3>2, <3>3, <5>1 DEF Progress
      <4> QED BY <3>1, <4>1, <4>2
    <3>7. Complete(q)'
      BY <1>0, <3>2 DEF IInv, TypeOK, Complete
    <3> QED BY <3>4, <3>5, <3>6, <3>7 DEF CallInv
  <2>4. ASSUME NEW p \in Procs, p # q PROVE CallInv(p)'
    BY <2>2, <2>4, Bystander DEF IInv, TypeOK
  <2> QED BY <1>0, <2>1, <2>3, <2>4 DEF IInv
<1> QED BY <1>1, <1>2 DEF Mkdir

LEMMA WriteStep == ASSUME IInv, NEW q \in Procs, Write(q) PROVE IInv'
<1> DEFINE s == enabled[q][at[q]]
           files == Files(req[q], s)
           f0 == files[k[q]]
<1>0. /\ pc[q] = "write" /\ at[q] \in 1 .. Len(enabled[q]) /\ k[q] \in Nat \ {0}
      /\ enabled[q] \in Seq(Subsystems) /\ s \in Subsystems /\ s \in dirs \cup moved[q]
      /\ Found(q) /\ Progress(q) /\ InOrder(q) /\ Complete(q)
      /\ active[q] \in Seq(Subsystems) /\ req[q] \in Requests
  BY DEF Write, IInv, TypeOK, CallInv, Progress
<1>1. files \in Seq(AllFiles)
  BY <1>0, FilesType
<1>2. CASE Fail(q)
  BY <1>2, StopStep
<1>3. CASE /\ k[q] <= Len(files)
           /\ content' = [content EXCEPT ![f0] = req[q]]
           /\ touched' = [p \in Procs |-> IF p = q THEN touched[p] \ {f0}
                                                   ELSE touched[p] \cup {f0}]
           /\ k' = [k EXCEPT ![q] = @ + 1]
           /\ UNCHANGED <<mounts, dirs, pc, req, enabled, at, result, active, begun>>
  <2> USE <1>3 DEF mounts
  <2>1. f0 \in AllFiles
    BY <1>0, <1>1
  <2>2. TypeOK'
    BY <1>0, <2>1 DEF IInv, TypeOK
  <2>3. ASSUME NEW p \in Procs PROVE \A f \in AllFiles : Applied(p, f) => Applied(p, f)'
    BY <2>1 DEF IInv, TypeOK, Applied
  <2>4. \A f \in AllFiles : f = f0 => Applied(q, f)'
    <3> HIDE DEF f0
    <3>1. content'[f0] = req[q] /\ req'[q] = req[q]
      BY <2>1 DEF IInv, TypeOK
    <3> QED BY <3>1 DEF Applied
  <2>5. CallInv(q)'
    <3>1. \A t \in Subsystems : Configured(q, t) => Configured(q, t)'
      BY <2>3, StaysConfigured DEF IInv
    <3>2. \A i \in 1 .. Len(enabled[q]) : enabled[q][i] \in Subsystems
      BY <1>0
    <3>3. Found(q)' /\ InOrder(q)'
      BY <1>0, <3>1, <3>2 DEF Found, InOrder
    <3>4. Progress(q)'
      <4>1. files' = files
        BY DEF Files, PidsFiles, NetClsFiles, NetPrioFiles, CpuFiles, CpuFile
      <4>2. k'[q] = k[q] + 1
        BY DEF IInv, TypeOK
      <4>3. \A i \in 1 .. Len(files) : i < k'[q] => Applied(q, files[i])'
        <5> SUFFICES ASSUME NEW i \in 1 .. Len(files), i < k'[q] PROVE Applied(q, files[i])'
          OBVIOUS
        <5>1. CASE i = k[q]
          <6>1. files[i] = f0
            BY <5>1
          <6>2. files'[i] = f0
            BY <4>1, <6>1
          <6> HIDE DEF f0, files
          <6> QED BY <2>1, <2>4, <6>2
        <5>2. CASE i < k[q]
          BY <1>0, <1>1, <2>3, <5>2 DEF Progress
        <5> QED BY <1>0, <1>1, <4>2, <5>1, <5>2
      <4>4. \A i \in 1 .. Len(enabled[q]) : i < at[q] => Configured(q, enabled[q][i])'
        BY <1>0, <3>1, <3>2 DEF Progress
      <4> QED BY <1>0, <4>1, <4>3, <4>4 DEF Progress
    <3>5. Complete(q)'
      BY <1>0, <3>1 DEF Complete
    <3> QED BY <3>3, <3>4, <3>5 DEF CallInv
  <2>6. ASSUME NEW p \in Procs, p # q PROVE CallInv(p)'
    BY <2>3, <2>6, Bystander DEF IInv, TypeOK
  <2> QED BY <2>2, <2>5, <2>6 DEF IInv
<1>4. CASE /\ k[q] > Len(files)
           /\ pc' = [pc EXCEPT ![q] = "mkdir"]
           /\ at' = [at EXCEPT ![q] = @ + 1]
           /\ UNCHANGED <<mounts, group, req, enabled, k, result, active, begun>>
  <2> USE <1>4 DEF group, mounts
  <2>1. TypeOK'
    BY <1>0 DEF IInv, TypeOK
  <2>2. ASSUME NEW p \in Procs PROVE \A f \in AllFiles : Applied(p, f) => Applied(p, f)'
    BY DEF Applied
  <2>3. CallInv(q)'
    <3>1. \A t \in Subsystems : Configured(q, t) => Configured(q, t)'
      BY <2>2, StaysConfigured DEF IInv
    <3>2. \A i \in 1 .. Len(enabled[q]) : enabled[q][i] \in Subsystems
      BY <1>0
    <3>3. pc'[q] = "mkdir" /\ at'[q] = at[q] + 1
      BY <1>0 DEF IInv, TypeOK
    <3>4. Found(q)' /\ InOrder(q)' /\ Complete(q)'
      BY <1>0, <3>1, <3>2, <3>3 DEF Found, InOrder, Complete
    <3>5. Configured(q, s)
      <4>1. \A i \in 1 .. Len(files) : i < k[q] => Applied(q, files[i])
        BY <1>0 DEF Progress
      <4>2. \A i \in 1 .. Len(files) : i < k[q]
        BY <1>0, <1>1
      <4>3. s \in dirs \cup moved[q] /\ \A i \in 1 .. Len(files) : Applied(q, files[i])
        BY <1>0, <4>1, <4>2
      <4> QED BY <4>3 DEF Configured
    <3>6. \A i \in 1 .. Len(enabled[q]) : i < at'[q] => Configured(q, enabled[q][i])
      <4>1. \A i \in 1 .. Len(enabled[q]) : i < at[q] => Configured(q, enabled[q][i])
        BY <1>0 DEF Progress
      <4>2. \A i \in 1 .. Len(enabled[q]) : i < at[q] + 1 => i < at[q] \/ i = at[q]
        BY <1>0
      <4>3. Configured(q, enabled[q][at[q]])
        BY <3>5
      <4> HIDE DEF s, files, f0
      <4> QED BY <3>3, <4>1, <4>2, <4>3
    <3>7. Progress(q)'
      BY <3>1, <3>2, <3>3, <3>6 DEF Progress
    <3> QED BY <3>4, <3>7 DEF CallInv
  <2>4. ASSUME NEW p \in Procs, p # q PROVE CallInv(p)'
    BY <2>2, <2>4, Bystander DEF IInv, TypeOK
  <2> QED BY <2>1, <2>3, <2>4 DEF IInv
<1> QED BY <1>2, <1>3, <1>4 DEF Write

LEMMA DoneStep == ASSUME IInv, NEW q \in Procs, Done(q) PROVE IInv'
<1> USE DEF Done, Return, group, mounts
<1>1. TypeOK'
  BY DEF IInv, TypeOK
<1>2. ASSUME NEW p \in Procs PROVE \A f \in AllFiles : Applied(p, f) => Applied(p, f)'
  BY DEF Applied
<1>3. CallInv(q)'
  <2>1. /\ pc[q] = "mkdir" /\ at[q] > Len(enabled[q]) /\ at[q] \in Nat
        /\ enabled[q] \in Seq(Subsystems) /\ Found(q) /\ Progress(q) /\ InOrder(q)
    BY DEF IInv, TypeOK, CallInv
  <2>2. \A t \in Subsystems : Configured(q, t) => Configured(q, t)'
    BY <1>2, StaysConfigured DEF IInv
  <2>3. \A i \in 1 .. Len(enabled[q]) :
          enabled[q][i] \in Subsystems /\ Configured(q, enabled[q][i])
    BY <2>1 DEF Progress
  <2>4. pc'[q] = "idle" /\ result'[q] = "ok" /\ active'[q] = enabled[q]
    BY DEF IInv, TypeOK
  <2>5. Found(q)' /\ Progress(q)' /\ InOrder(q)' /\ Complete(q)'
    BY <2>1, <2>2, <2>3, <2>4 DEF Found, Progress, InOrder, Complete
  <2> QED BY <2>5 DEF CallInv
<1>4. ASSUME NEW p \in Procs, p # q PROVE CallInv(p)'
  BY <1>2, <1>4, Bystander DEF IInv, TypeOK
<1> QED BY <1>1, <1>3, <1>4 DEF IInv

LEMMA RemountStep == ASSUME IInv, NEW s \in Subsystems, Remount(s) PROVE IInv'
<1> USE DEF Remount
<1>1. TypeOK'
  <2>1. mounted' \subseteq Subsystems /\ dirs' \subseteq Subsystems /\ hidden' \subseteq Subsystems
    BY MountsAssumption DEF IInv, TypeOK
  <2>2. content' \in [AllFiles -> Requests \cup {Unset}]
    BY DEF IInv, TypeOK
  <2>3. hiddenContent' \in [AllFiles -> Requests \cup {Unset}]
    BY DEF IInv, TypeOK
  <2>4. touched' \in [Procs -> SUBSET AllFiles] /\ moved' \in [Procs -> SUBSET Subsystems]
    BY FilesOfType DEF IInv, TypeOK
  <2> QED BY <2>1, <2>2, <2>3, <2>4 DEF IInv, TypeOK
<1>2. ASSUME NEW p \in Procs PROVE CallInv(p)'
  <2>1. touched'[p] = touched[p] \cup FilesOf(s) /\ moved'[p] = moved[p] \cup {s}
    OBVIOUS
  <2>2. \A f \in AllFiles : Applied(p, f) => Applied(p, f)'
    BY <2>1 DEF Applied
  <2>3. dirs \subseteq dirs' \cup moved'[p] /\ moved[p] \subseteq moved'[p]
    BY <2>1
  <2> QED BY <2>2, <2>3, Bystander
<1> QED BY <1>1, <1>2 DEF IInv

LEMMA StutterStep == ASSUME IInv, UNCHANGED vars PROVE IInv'
<1> USE DEF vars
<1>1. TypeOK'
  BY DEF IInv, TypeOK
<1>2. ASSUME NEW p \in Procs PROVE CallInv(p)'
  <2>1. \A f \in AllFiles : Applied(p, f) => Applied(p, f)'
    BY DEF Applied
  <2> QED BY <2>1, Bystander
<1> QED BY <1>1, <1>2 DEF IInv

LEMMA NextInv == IInv /\ [Next]_vars => IInv'
<1> SUFFICES ASSUME IInv, [Next]_vars PROVE IInv'
  OBVIOUS
<1>1. ASSUME NEW p \in Procs, Step(p) PROVE IInv'
  BY <1>1, GetMountPointStep, LstatStep, LstatDoneStep, MkdirStep, WriteStep, DoneStep
     DEF Step
<1>2. ASSUME NEW p \in Procs, Crash(p) PROVE IInv'
  BY <1>2, StopStep DEF Crash
<1>3. ASSUME NEW p \in Procs, NEW r \in Requests, Call(p, r) PROVE IInv'
  BY <1>3, CallStep
<1>4. ASSUME NEW s \in Subsystems, Remount(s) PROVE IInv'
  BY <1>4, RemountStep
<1>5. CASE UNCHANGED vars
  BY <1>5, StutterStep
<1> QED BY <1>1, <1>2, <1>3, <1>4, <1>5 DEF Next

\* The inductive invariant holds for any processes, requests and mounts.
THEOREM Inductive == Spec => []IInv
BY InitInv, NextInv, PTL DEF Spec

\* Every variable keeps its type.
THEOREM Typing == Spec => []TypeOK
<1>1. IInv => TypeOK
  BY DEF IInv
<1> QED BY <1>1, Inductive, PTL

\* The group is complete in every subsystem of a cgroup that NewCgroup returned
\* (cgroup.go:51-62).
THEOREM Success == Spec => []CompleteOnSuccess
<1>1. IInv => CompleteOnSuccess
  BY DEF IInv, CallInv, Complete, CompleteOnSuccess
<1> QED BY <1>1, Inductive, PTL

\* A call that stops anywhere has each subsystem complete before it began the
\* next (cgroup.go:52-56).
THEOREM Prefix == Spec => []PrefixInOrder
<1>1. IInv => PrefixInOrder
  BY DEF IInv, CallInv, InOrder, PrefixInOrder
<1> QED BY <1>1, Inductive, PTL

-----------------------------------------------------------------------------
(***************************************************************************)
(* remove (CgroupUtils): what nil and an error mean.                       *)
(***************************************************************************)
RemoveType ==
  /\ groups \subseteq Groups
  /\ stage \in {"idle", "try", "walk"}
  /\ tries \in 0 .. Tries

\* Every try before the current one was disturbed.
Tried ==
  /\ stage = "try" => tries < Tries /\ disturbed = 1 .. tries
  /\ stage = "walk" =>
       tries >= 1 /\ 1 .. (tries - 1) \subseteq disturbed /\ disturbed \subseteq 1 .. tries
  /\ stage # "idle" => returned = "none"

\* A try that was not disturbed has found, or has yet to search the parent of,
\* every group there is below the path.
Searched ==
  stage = "walk" =>
    /\ path \in listed
    /\ opened = {} => listed = {path}
    /\ opened # {} => path \in opened
    /\ tries \notin disturbed =>
         tasks = {} /\ \A g \in groups : g # path /\ Front(g) \in opened => g \in listed

RemoveInv == RemoveType /\ Tried /\ Searched /\ RemovedOrBlocked

LEMMA RemoveInitInv == RemoveInit => RemoveInv
BY DEF RemoveInit, RemoveInv, RemoveType, Tried, Searched, RemovedOrBlocked, Tries

LEMMA RemoveCallKeeps == ASSUME RemoveInv, RemoveCall PROVE RemoveInv'
BY DEF RemoveCall, RemoveInv, RemoveType, Tried, Searched, RemovedOrBlocked, Tries

LEMMA TryKeeps == ASSUME RemoveInv, Try PROVE RemoveInv'
<1> USE DEF Try, RemoveInv, Incremented
<1>1. RemoveType'
  BY DEF RemoveType, Tried, Tries
<1>2. Tried'
  BY DEF RemoveType, Tried, Tries
<1>3. Searched'
  BY DEF RemoveType, Searched
<1>4. RemovedOrBlocked'
  BY DEF Tried, RemovedOrBlocked
<1> QED BY <1>1, <1>2, <1>3, <1>4

LEMMA OpenKeeps == ASSUME RemoveInv, NEW g \in Groups, Open(g) PROVE RemoveInv'
<1> USE DEF Open, RemoveInv
<1>1. RemoveType' /\ Tried' /\ RemovedOrBlocked'
  BY DEF RemoveType, Tried, RemovedOrBlocked
<1>2. Searched'
  BY DEF RemoveType, Searched, Children
<1> QED BY <1>1, <1>2

\* What could not be removed has been disturbed.
LEMMA RmdirKeeps == ASSUME RemoveInv, NEW g \in Groups, Rmdir(g) PROVE RemoveInv'
<1> USE DEF Rmdir, RemoveInv
<1>1. RemoveType' /\ Tried' /\ RemovedOrBlocked'
  BY DEF RemoveType, Tried, RemovedOrBlocked
<1>2. ASSUME tries \notin disturbed,
             NEW c \in groups', c # path, Front(c) \in opened
      PROVE  c \in listed'
  <2>1. c \in groups /\ c \in listed /\ tasks = {}
    BY <1>2 DEF Searched
  <2>2. CASE c = g
    <3>1. ~Removable(g)
      BY <1>2, <2>2
    <3>2. PICK d \in Children(g) : d \in groups
      BY <2>1, <3>1 DEF Removable
    <3>3. d \in listed
      BY <1>2, <3>2 DEF Searched, Children
    <3> QED BY <3>2, <3>3
  <2> QED BY <2>1, <2>2
<1>3. Searched'
  BY <1>2 DEF Searched
<1> QED BY <1>1, <1>3

LEMMA GoneKeeps == ASSUME RemoveInv, Gone PROVE RemoveInv'
BY DEF Gone, RemoveInv, RemoveType, Tried, Searched, RemovedOrBlocked

LEMMA RmpathKeeps == ASSUME RemoveInv, Rmpath PROVE RemoveInv'
<1> USE DEF Rmpath, RemoveInv
<1>1. ~Removable(path) => tries \in disturbed
  <2> SUFFICES ASSUME tries \notin disturbed PROVE Removable(path)
    OBVIOUS
  <2>1. tasks = {} /\ path \in opened /\ listed = {path}
    BY DEF Searched
  <2>2. Children(path) \cap groups = {}
    BY <2>1 DEF Searched, Children
  <2> QED BY <2>1, <2>2 DEF Removable
<1>2. tries \in Nat /\ tries >= 1 /\ tries <= Tries /\ Tries = 5
  BY DEF RemoveType, Tried, Tries
<1>3. ~Removable(path) => disturbed = 1 .. tries
  <2> SUFFICES ASSUME tries \in disturbed PROVE disturbed = 1 .. tries
    BY <1>1
  <2>1. disturbed \subseteq 1 .. tries /\ 1 .. (tries - 1) \subseteq disturbed
    BY DEF Tried
  <2>2. \A i \in 1 .. tries : i \in 1 .. (tries - 1) \/ i = tries
    BY <1>2
  <2> QED BY <2>1, <2>2
<1>4. CASE Removable(path)
  <2>1. /\ stage' = "idle" /\ returned' = "ok" /\ absent' = TRUE /\ groups' \subseteq groups
        /\ UNCHANGED tries
    BY <1>4 DEF Outcome
  <2> QED BY <2>1 DEF RemoveType, Tried, Searched, RemovedOrBlocked
<1>5. CASE ~Removable(path)
  <2>1. UNCHANGED <<groups, tries, disturbed>> /\ stage' = Failed
        /\ returned' = IF stage' = "idle" THEN "error" ELSE "none"
    BY <1>5 DEF Outcome
  <2>2. IF tries = Tries THEN stage' = "idle" ELSE stage' = "try"
    BY <2>1 DEF Failed
  <2>3. RemoveType' /\ Searched'
    BY <2>1, <2>2 DEF RemoveType, Searched
  <2>4. Tried' /\ RemovedOrBlocked'
    <3>1. CASE tries = Tries
      <4>1. stage' = "idle" /\ returned' = "error" /\ disturbed' = 1 .. Tries
        BY <1>3, <1>5, <2>1, <2>2, <3>1
      <4> QED BY <4>1 DEF Tried, RemovedOrBlocked
    <3>2. CASE tries # Tries
      <4>1. stage' = "try" /\ returned' = "none" /\ disturbed' = 1 .. tries /\ tries' = tries
        BY <1>3, <1>5, <2>1, <2>2, <3>2
      <4> QED BY <1>2, <3>2, <4>1 DEF Tried, RemovedOrBlocked
    <3> QED BY <3>1, <3>2
  <2> QED BY <2>3, <2>4
<1> QED BY <1>4, <1>5

\* Tasks and groups of others: what appears in a try disturbs it.
LEMMA OthersKeep ==
  ASSUME RemoveInv, NEW g \in Groups, Enter(g) \/ Leave(g) \/ Create(g) \/ Delete(g)
  PROVE  RemoveInv'
<1> USE DEF RemoveInv, Notice, call
<1>1. CASE Enter(g) \/ Create(g)
  BY <1>1 DEF Enter, Create, RemoveType, Tried, Searched, RemovedOrBlocked
<1>2. CASE Leave(g) \/ Delete(g)
  BY <1>2 DEF Leave, Delete, RemoveType, Tried, Searched, RemovedOrBlocked
<1> QED BY <1>1, <1>2

LEMMA RemoveNextInv == RemoveInv /\ [RemoveNext]_removeVars => RemoveInv'
<1> SUFFICES ASSUME RemoveInv, [RemoveNext]_removeVars PROVE RemoveInv'
  OBVIOUS
<1>1. CASE UNCHANGED removeVars
  BY <1>1 DEF removeVars, RemoveInv, RemoveType, Tried, Searched, RemovedOrBlocked
<1>2. CASE RemoveCall
  BY <1>2, RemoveCallKeeps
<1>3. CASE RemoveStep
  BY <1>3, TryKeeps, RmpathKeeps, GoneKeeps, OpenKeeps, RmdirKeeps DEF RemoveStep
<1>4. ASSUME NEW g \in Groups, Enter(g) \/ Leave(g) \/ Create(g) \/ Delete(g)
      PROVE  RemoveInv'
  BY <1>4, OthersKeep
<1> QED BY <1>1, <1>2, <1>3, <1>4 DEF RemoveNext

\* For any groups, tasks and others, remove returns nil only if the group was
\* gone at some time since the call, and an error only after five tries that
\* were all disturbed (utils.go:94-106).
THEOREM Removal == RemoveSpec => []RemovedOrBlocked
<1>1. RemoveInv => RemovedOrBlocked
  BY DEF RemoveInv
<1> QED BY <1>1, RemoveInitInv, RemoveNextInv, PTL DEF RemoveSpec

-----------------------------------------------------------------------------
(***************************************************************************)
(* Paths: what filepath.Clean leaves of every path.  No component is taken *)
(* back by a later one but by "..", so that the stack of an absolute path  *)
(* is the names that stay ahead of the ".." after them; and a relative one *)
(* has some ".." before those names.                                       *)
(***************************************************************************)
\* Induction over the naturals, for a set of them.
LEMMA NatSet ==
  ASSUME NEW G, 0 \in G, \A n \in Nat : n \in G => n + 1 \in G
  PROVE  Nat \subseteq G
<1> DEFINE Bad == Nat \ G
<1> SUFFICES ASSUME Bad # {} PROVE FALSE
  OBVIOUS
<1>1. PICK n \in Bad : \A m \in Bad : ~(<<m, n>> \in OpToRel(<, Nat))
  BY NatLessThanWellFounded, WFMin
<1>2. n # 0 /\ n - 1 \in Nat /\ n - 1 + 1 = n
  OBVIOUS
<1>3. \A m \in Bad : ~(m < n)
  BY <1>1 DEF OpToRel
<1>4. n - 1 \notin Bad
  BY <1>2, <1>3
<1> QED BY <1>2, <1>4

\* The recursion of the fold in Stack: what is left after some of the components.
StackFrom(abs, l, it, s) ==
  IF s = {} THEN <<>> ELSE Pushed(abs, it[s \ {Max(s)}], l[Max(s)])
Stacks(abs, l) == CHOOSE it : it = [s \in SUBSET DOMAIN l |-> StackFrom(abs, l, it, s)]
After(abs, l, n) == Stacks(abs, l)[1 .. n]

LEMMA StackIsStacks ==
  ASSUME NEW abs, NEW l PROVE Stack(abs, l) = Stacks(abs, l)[DOMAIN l]
BY DEF Stack, FoldLeft, MapThenFoldSet, Stacks, StackFrom

LEMMA MaxIn ==
  ASSUME NEW n \in Nat, NEW s \in SUBSET (1 .. n), s # {}
  PROVE  Max(s) \in s /\ \A i \in s : i <= Max(s)
<1> DEFINE Free == {v \in 0 .. n : \A i \in s : i <= n - v}
           G == {v \in Nat : v \in Free}
<1>1. \E x \in s : \A y \in s : x >= y
  <2> SUFFICES ASSUME \A x \in s : \E y \in s : ~(x >= y) PROVE FALSE
    OBVIOUS
  <2>1. 0 \in G
    OBVIOUS
  <2>2. ASSUME NEW v \in Nat, v \in G PROVE v + 1 \in G
    <3>1. n - v \notin s
      BY <2>2
    <3>2. \A i \in s : i <= n - (v + 1)
      BY <2>2, <3>1
    <3>3. v + 1 <= n
      <4>1. PICK i \in s : i <= n - (v + 1)
        BY <3>2
      <4> QED BY <4>1
    <3> QED BY <3>2, <3>3
  <2> HIDE DEF G
  <2>3. Nat \subseteq G
    BY <2>1, <2>2, NatSet
  <2>4. n + 1 \in G
    BY <2>3
  <2> QED BY <2>4 DEF G
<1> QED BY <1>1 DEF Max

LEMMA MaxOfFirst ==
  ASSUME NEW n \in Nat, n # 0
  PROVE  Max(1 .. n) = n /\ (1 .. n) \ {Max(1 .. n)} = 1 .. (n - 1)
<1>1. 1 .. n \in SUBSET (1 .. n) /\ n \in 1 .. n
  OBVIOUS
<1>2. Max(1 .. n) \in 1 .. n /\ n <= Max(1 .. n)
  BY <1>1, MaxIn
<1>3. Max(1 .. n) = n
  BY <1>2
<1> QED BY <1>3

LEMMA StacksExist ==
  ASSUME NEW abs, NEW l, NEW len \in Nat, DOMAIN l = 1 .. len
  PROVE  \E it : it = [s \in SUBSET DOMAIN l |-> StackFrom(abs, l, it, s)]
<1> DEFINE D(n) == SUBSET (1 .. n)
           Defined(n) == \E g : g = [s \in D(n) |-> StackFrom(abs, l, g, s)]
           G == {n \in Nat : Defined(n)}
<1>1. Defined(0)
  <2>1. \A s \in D(0) : s = {}
    OBVIOUS
  <2> DEFINE g == [s \in D(0) |-> <<>>]
  <2>2. g = [s \in D(0) |-> StackFrom(abs, l, g, s)]
    BY <2>1 DEF StackFrom
  <2> QED BY <2>2
<1>2. ASSUME NEW n \in Nat, Defined(n) PROVE Defined(n + 1)
  <2>1. PICK g : g = [s \in D(n) |-> StackFrom(abs, l, g, s)]
    BY <1>2
  <2> DEFINE h == [s \in D(n + 1) |-> StackFrom(abs, l, g, s)]
  <2>2. \A s \in D(n) : s \in D(n + 1) /\ h[s] = g[s]
    BY <2>1
  <2>3. ASSUME NEW s \in D(n + 1), s # {} PROVE s \ {Max(s)} \in D(n)
    <3>1. n + 1 \in Nat /\ s \in SUBSET (1 .. (n + 1))
      OBVIOUS
    <3>2. Max(s) \in s /\ \A i \in s : i <= Max(s)
      BY <2>3, <3>1, MaxIn
    <3>3. ASSUME NEW i \in s, i # Max(s) PROVE i \in 1 .. n
      <4>1. i \in 1 .. (n + 1) /\ Max(s) \in 1 .. (n + 1) /\ i <= Max(s)
        BY <3>1, <3>2
      <4> QED BY <3>3, <4>1
    <3> QED BY <3>3
  <2>4. \A s \in D(n + 1) : StackFrom(abs, l, g, s) = StackFrom(abs, l, h, s)
    BY <2>2, <2>3 DEF StackFrom
  <2>5. h = [s \in D(n + 1) |-> StackFrom(abs, l, h, s)]
    BY <2>4
  <2> QED BY <2>5
<1> HIDE DEF Defined
<1>3. 0 \in G /\ \A n \in Nat : n \in G => n + 1 \in G
  BY <1>1, <1>2
<1>4. Defined(len)
  <2> HIDE DEF G
  <2>1. Nat \subseteq G
    BY <1>3, NatSet
  <2> QED BY <2>1 DEF G
<1> QED BY <1>4 DEF Defined

Components == FileNames \cup {".", ".."}

\* The stack before the first component, and from one to the next.
LEMMA StackSteps ==
  ASSUME NEW abs, NEW l \in Seq(Components)
  PROVE  /\ After(abs, l, 0) = <<>>
         /\ \A n \in 0 .. (Len(l) - 1) :
              After(abs, l, n + 1) = Pushed(abs, After(abs, l, n), l[n + 1])
         /\ Stack(abs, l) = After(abs, l, Len(l))
<1>1. DOMAIN l = 1 .. Len(l) /\ Len(l) \in Nat
  OBVIOUS
<1>2. Stacks(abs, l) = [s \in SUBSET DOMAIN l |-> StackFrom(abs, l, Stacks(abs, l), s)]
  BY <1>1, StacksExist DEF Stacks
<1>3. \A s \in SUBSET (1 .. Len(l)) : Stacks(abs, l)[s] = StackFrom(abs, l, Stacks(abs, l), s)
  BY <1>1, <1>2
<1>4. After(abs, l, 0) = <<>>
  <2>1. 1 .. 0 = {} /\ 1 .. 0 \in SUBSET (1 .. Len(l))
    OBVIOUS
  <2> QED BY <1>3, <2>1 DEF After, StackFrom
<1>5. ASSUME NEW n \in 0 .. (Len(l) - 1)
      PROVE  After(abs, l, n + 1) = Pushed(abs, After(abs, l, n), l[n + 1])
  <2>1. n + 1 \in Nat /\ n + 1 # 0 /\ n + 1 - 1 = n /\ n + 1 <= Len(l) /\ n \in Nat
    BY <1>1
  <2>2. 1 .. (n + 1) \in SUBSET (1 .. Len(l)) /\ 1 .. (n + 1) # {}
    <3>1. \A m \in Nat : m <= Len(l) => 1 .. m \subseteq 1 .. Len(l)
      BY <1>1
    <3>2. 1 \in 1 .. (n + 1)
      BY <2>1
    <3> QED BY <2>1, <3>1, <3>2
  <2>3. Max(1 .. (n + 1)) = n + 1 /\ (1 .. (n + 1)) \ {n + 1} = 1 .. n
    BY <2>1, MaxOfFirst
  <2> QED BY <1>3, <2>2, <2>3 DEF After, StackFrom
<1> QED BY <1>1, <1>4, <1>5, StackIsStacks DEF After

-----------------------------------------------------------------------------
LEMMA Dots == "." \notin FileNames /\ ".." \notin FileNames
BY PathsAssumption

\* From one component to the next of a path, for what is true of a stack.
LEMMA StackInduction ==
  ASSUME NEW len \in Nat, NEW G, 0 \in G,
         \A n \in 0 .. (len - 1) : n \in G => n + 1 \in G
  PROVE  0 .. len \subseteq G
<1> DEFINE H == G \cup {n \in Nat : n > len}
<1>1. 0 \in H /\ \A n \in Nat : n \in H => n + 1 \in H
  OBVIOUS
<1> HIDE DEF H
<1>2. Nat \subseteq H
  BY <1>1, NatSet
<1> QED BY <1>2 DEF H

LEMMA NamesAreComponents == Seq(FileNames) \subseteq Seq(Components)
BY DEF Components

LEMMA Ends ==
  ASSUME NEW S, NEW s \in Seq(S)
  PROVE  /\ s # <<>> => Last(s) \in S /\ Front(s) \in Seq(S)
         /\ \A e \in S : /\ Append(s, e) \in Seq(S) /\ Append(s, e) # <<>>
                         /\ Last(Append(s, e)) = e /\ Front(Append(s, e)) = s
<1>1. ASSUME s # <<>> PROVE Last(s) \in S /\ Front(s) \in Seq(S)
  <2>1. Len(s) \in Nat /\ Len(s) > 0
    BY <1>1
  <2> QED BY <2>1 DEF Last, Front
<1>2. ASSUME NEW e \in S
      PROVE  /\ Append(s, e) \in Seq(S) /\ Append(s, e) # <<>>
             /\ Last(Append(s, e)) = e /\ Front(Append(s, e)) = s
  BY DEF Last, Front
<1> QED BY <1>1, <1>2

\* In an absolute path the stack holds names only.
LEMMA AbsoluteNames ==
  ASSUME NEW abs \in BOOLEAN, abs, NEW l \in Seq(Components)
  PROVE  \A n \in 0 .. Len(l) : After(abs, l, n) \in Seq(FileNames)
<1> DEFINE P(i) == After(abs, l, i) \in Seq(FileNames)
<1>0. Len(l) \in Nat
  OBVIOUS
<1>1. P(0)
  <2>1. After(abs, l, 0) = <<>>
    BY StackSteps
  <2>2. <<>> \in Seq(FileNames)
    OBVIOUS
  <2> QED BY <2>1, <2>2
<1>2. ASSUME NEW i \in 0 .. (Len(l) - 1), P(i) PROVE P(i + 1)
  <2> DEFINE s == After(abs, l, i)
             c == l[i + 1]
  <2>1. After(abs, l, i + 1) = Pushed(abs, s, c)
    BY StackSteps
  <2>2. i + 1 \in 1 .. Len(l)
    BY <1>0
  <2>3. c \in Components
    BY <2>2
  <2>4. s \in Seq(FileNames)
    BY <1>2
  <2> HIDE DEF s, c
  <2>5. Pushed(abs, s, c) \in Seq(FileNames)
    BY <2>3, <2>4, Ends, Dots DEF Pushed, Components
  <2> QED BY <2>1, <2>5
<1>3. \A i \in 0 .. Len(l) : P(i)
  <2> DEFINE G == {i \in 0 .. Len(l) : P(i)}
  <2> HIDE DEF P
  <2>1. 0 \in G /\ \A i \in 0 .. (Len(l) - 1) : i \in G => i + 1 \in G
    BY <1>0, <1>1, <1>2
  <2> HIDE DEF G
  <2>2. 0 .. Len(l) \subseteq G
    BY <1>0, <2>1, StackInduction
  <2> QED BY <2>2 DEF G
<1> QED BY <1>3

\* A path of names only is clean.
LEMMA NamesStay ==
  ASSUME NEW abs \in BOOLEAN, NEW l \in Seq(FileNames) PROVE Stack(abs, l) = l
<1> DEFINE P(i) == After(abs, l, i) = SubSeq(l, 1, i)
<1>0. Len(l) \in Nat /\ l \in Seq(Components)
  BY NamesAreComponents
<1>1. P(0)
  <2>1. SubSeq(l, 1, 0) = <<>>
    OBVIOUS
  <2>2. After(abs, l, 0) = <<>>
    BY <1>0, StackSteps
  <2> QED BY <2>1, <2>2
<1>2. ASSUME NEW i \in 0 .. (Len(l) - 1), P(i) PROVE P(i + 1)
  <2>1. After(abs, l, i + 1) = Pushed(abs, SubSeq(l, 1, i), l[i + 1])
    BY <1>0, <1>2, StackSteps
  <2>2. i + 1 \in 1 .. Len(l) /\ l[i + 1] \in FileNames
    BY <1>0
  <2>3. Pushed(abs, SubSeq(l, 1, i), l[i + 1]) = Append(SubSeq(l, 1, i), l[i + 1])
    BY <2>2, Dots DEF Pushed
  <2>4. Append(SubSeq(l, 1, i), l[i + 1]) = SubSeq(l, 1, i + 1)
    BY <2>2
  <2> QED BY <2>1, <2>3, <2>4
<1>3. \A i \in 0 .. Len(l) : P(i)
  <2> DEFINE G == {i \in 0 .. Len(l) : P(i)}
  <2> HIDE DEF P
  <2>1. 0 \in G /\ \A i \in 0 .. (Len(l) - 1) : i \in G => i + 1 \in G
    BY <1>0, <1>1, <1>2
  <2> HIDE DEF G
  <2>2. 0 .. Len(l) \subseteq G
    BY <1>0, <2>1, StackInduction
  <2> QED BY <2>2 DEF G
<1>4. After(abs, l, Len(l)) = SubSeq(l, 1, Len(l)) /\ SubSeq(l, 1, Len(l)) = l
  BY <1>0, <1>3
<1> QED BY <1>0, <1>4, StackSteps

LEMMA AppendIs ==
  ASSUME NEW c \in Nat, NEW R, NEW s \in [1 .. c -> R], NEW t \in [1 .. (c + 1) -> R],
         \A v \in 1 .. c : t[v] = s[v]
  PROVE  Len(s) = c /\ Append(s, t[c + 1]) = t
<1>1. s \in Seq(R) /\ Len(s) = c
  OBVIOUS
<1>2. t \in Seq(R) /\ Len(t) = c + 1
  OBVIOUS
<1>3. \A v \in 1 .. (c + 1) : v = c + 1 \/ v \in 1 .. c
  OBVIOUS
<1>4. Append(s, t[c + 1]) \in Seq(R) /\ Len(Append(s, t[c + 1])) = c + 1
  BY <1>1
<1>5. \A v \in 1 .. (c + 1) : Append(s, t[c + 1])[v] = t[v]
  BY <1>1, <1>3
<1> QED BY <1>1, <1>2, <1>4, <1>5

LEMMA FinitePlaces ==
  ASSUME NEW n \in Nat, NEW K \in SUBSET (1 .. n)
  PROVE  /\ IsFiniteSet(K) /\ Cardinality(K) \in Nat
         /\ Cardinality(K) = 0 <=> K = {}
<1>1. IsFiniteSet(1 .. n)
  BY FS_Interval
<1>2. IsFiniteSet(K)
  BY <1>1, FS_Subset
<1> QED BY <1>2, FS_CardinalityType, FS_EmptySet

\* What is picked grows by what is picked last.
LEMMA PickedAdd ==
  ASSUME NEW l, NEW n \in Nat, NEW K \in SUBSET (1 .. n), NEW m \in Nat, m > n
  PROVE  /\ Picked(l, K \cup {m}) = Append(Picked(l, K), l[m])
         /\ Len(Picked(l, K)) = Cardinality(K)
<1> DEFINE M == K \cup {m}
           c == Cardinality(K)
<1>1. /\ IsFiniteSet(K) /\ c \in Nat /\ m \notin K
      /\ IsFiniteSet(M) /\ Cardinality(M) = c + 1
  <2>2. IsFiniteSet(K) /\ Cardinality(K) \in Nat
    BY FinitePlaces
  <2>3. m \notin K
    OBVIOUS
  <2> QED BY <2>2, <2>3, FS_AddElement
<1>2. Place(M, m) = c + 1
  <2>1. ASSUME NEW j \in M PROVE j <= m
    OBVIOUS
  <2> HIDE DEF M
  <2>2. {j \in M : j <= m} = M
    BY <2>1
  <2> QED BY <1>1, <2>2 DEF Place
<1>3. ASSUME NEW i \in K
      PROVE  Place(M, i) = Place(K, i) /\ Place(K, i) \in Nat /\ Place(K, i) <= c
  <2>1. {j \in M : j <= i} = {j \in K : j <= i}
    OBVIOUS
  <2>2. {j \in K : j <= i} \in SUBSET K
    OBVIOUS
  <2> QED BY <1>1, <2>1, <2>2, FS_Subset, FS_CardinalityType DEF Place
<1>4. ASSUME NEW v \in 1 .. c PROVE Nth(M, v) = Nth(K, v)
  <2>1. Place(M, m) # v
    BY <1>1, <1>2
  <2>2. \A i : (i \in M /\ Place(M, i) = v) <=> (i \in K /\ Place(K, i) = v)
    BY <1>3, <2>1
  <2> QED BY <2>2 DEF Nth
<1>5. Nth(M, c + 1) = m
  <2>1. \A i \in M : Place(M, i) = c + 1 => i = m
    BY <1>1, <1>3
  <2> QED BY <1>2, <2>1 DEF Nth
<1> DEFINE s == Picked(l, K)
           t == Picked(l, M)
<1> HIDE DEF M, c
<1>6. s = [v \in 1 .. c |-> l[Nth(K, v)]] /\ t = [v \in 1 .. (c + 1) |-> l[Nth(M, v)]]
  BY <1>1 DEF Picked, c
<1> HIDE DEF s, t
<1> DEFINE R == {l[Nth(K, v)] : v \in 1 .. c} \cup {l[Nth(M, v)] : v \in 1 .. (c + 1)}
<1>7. s \in [1 .. c -> R] /\ t \in [1 .. (c + 1) -> R]
  BY <1>6
<1>8. \A v \in 1 .. c : t[v] = s[v]
  BY <1>1, <1>4, <1>6
<1>9. t[c + 1] = l[m]
  BY <1>1, <1>5, <1>6
<1> HIDE DEF R
<1>10. Len(s) = c /\ Append(s, t[c + 1]) = t
  BY <1>1, <1>7, <1>8, AppendIs
<1> QED BY <1>9, <1>10 DEF s, t, M, c

\* Kept, of the first n components; after each of them, there are as many names
\* more than ".." as names kept later.
KeptTo(l, n) ==
  {i \in 1 .. n :
     /\ l[i] \in FileNames
     /\ \A j \in i .. n : Count(l, i + 1, j, {".."}) <= Count(l, i + 1, j, FileNames)}
Later(K, i) == Cardinality({v \in K : v > i})
Balanced(l, n) ==
  \A i \in KeptTo(l, n) :
    Count(l, i + 1, n, FileNames) = Count(l, i + 1, n, {".."}) + Later(KeptTo(l, n), i)

LEMMA CountNone == ASSUME NEW l, NEW i \in Nat, NEW N PROVE Count(l, i + 1, i, N) = 0
<1>1. {v \in (i + 1) .. i : l[v] \in N} = {}
  OBVIOUS
<1> QED BY <1>1, FS_EmptySet DEF Count

LEMMA CountStep ==
  ASSUME NEW l, NEW n \in Nat, NEW i \in 0 .. n, NEW N
  PROVE  /\ Count(l, i + 1, n, N) \in Nat
         /\ l[n + 1] \in N => Count(l, i + 1, n + 1, N) = Count(l, i + 1, n, N) + 1
         /\ l[n + 1] \notin N => Count(l, i + 1, n + 1, N) = Count(l, i + 1, n, N)
<1> DEFINE A == {v \in (i + 1) .. n : l[v] \in N}
           B == {v \in (i + 1) .. (n + 1) : l[v] \in N}
<1>1. IsFiniteSet(A) /\ Cardinality(A) \in Nat /\ n + 1 \notin A
  <2>1. IsFiniteSet((i + 1) .. n) /\ A \in SUBSET ((i + 1) .. n)
    BY FS_Interval
  <2>2. n + 1 \notin (i + 1) .. n
    OBVIOUS
  <2> HIDE DEF A
  <2> QED BY <2>1, <2>2, FS_Subset, FS_CardinalityType
<1>2. (i + 1) .. (n + 1) = ((i + 1) .. n) \cup {n + 1}
  OBVIOUS
<1>3. B = IF l[n + 1] \in N THEN A \cup {n + 1} ELSE A
  BY <1>2
<1>4. Count(l, i + 1, n, N) = Cardinality(A) /\ Count(l, i + 1, n + 1, N) = Cardinality(B)
  BY DEF Count
<1> HIDE DEF A, B
<1> QED BY <1>1, <1>3, <1>4, FS_AddElement

LEMMA LaterStep ==
  ASSUME NEW n \in Nat, NEW K \in SUBSET (1 .. n), NEW i \in K
  PROVE  /\ Later(K, i) \in Nat
         /\ Later(K \cup {n + 1}, i) = Later(K, i) + 1
         /\ Later(K, i) = 0 <=> i = Max(K)
         /\ i # Max(K) => Later(K \ {Max(K)}, i) = Later(K, i) - 1
<1> DEFINE A == {v \in K : v > i}
           m == Max(K)
<1>1. IsFiniteSet(A) /\ Cardinality(A) \in Nat /\ n + 1 \notin A
  <2>1. IsFiniteSet(1 .. n)
    BY FS_Interval
  <2>2. A \in SUBSET (1 .. n)
    OBVIOUS
  <2>3. n + 1 \notin 1 .. n
    OBVIOUS
  <2> HIDE DEF A
  <2> QED BY <2>1, <2>2, <2>3, FS_Subset, FS_CardinalityType
<1>2. m \in K /\ \A v \in K : v <= m
  BY MaxIn
<1>3. {v \in K \cup {n + 1} : v > i} = A \cup {n + 1}
  OBVIOUS
<1> HIDE DEF m
<1>4. {v \in K \ {m} : v > i} = A \ {m}
  OBVIOUS
<1>5. i # m <=> m \in A
  BY <1>2
<1>6. A = {} <=> m \notin A
  <2>1. ASSUME NEW v \in A PROVE m > i
    <3>1. v \in 1 .. n /\ m \in 1 .. n /\ i \in 1 .. n /\ v > i /\ v <= m
      BY <1>2
    <3> QED BY <3>1
  <2> QED BY <1>2, <2>1
<1>7. Later(K, i) = Cardinality(A) /\ Later(K \cup {n + 1}, i) = Cardinality(A \cup {n + 1})
        /\ Later(K \ {m}, i) = Cardinality(A \ {m})
  BY <1>3, <1>4 DEF Later
<1> HIDE DEF A
<1>8. Cardinality(A \cup {n + 1}) = Cardinality(A) + 1
  BY <1>1, FS_AddElement
<1>9. Cardinality(A) = 0 <=> A = {}
  BY <1>1, FS_EmptySet
<1>10. m \in A => Cardinality(A \ {m}) = Cardinality(A) - 1
  BY <1>1, FS_RemoveElement
<1> QED BY <1>1, <1>5, <1>6, <1>7, <1>8, <1>9, <1>10 DEF m

\* From one component to the next.
LEMMA KeptStep ==
  ASSUME NEW l \in Seq(Components), NEW n \in 0 .. (Len(l) - 1), Balanced(l, n)
  PROVE  LET K == KeptTo(l, n)
             c == l[n + 1]
         IN  /\ c \in FileNames => KeptTo(l, n + 1) = K \cup {n + 1}
             /\ c = "." => KeptTo(l, n + 1) = K
             /\ c = ".." => KeptTo(l, n + 1) = K \ {Max(K)}
             /\ Balanced(l, n + 1)
<1> DEFINE K == KeptTo(l, n)
           c == l[n + 1]
           up(i, j) == Count(l, i + 1, j, {".."})
           down(i, j) == Count(l, i + 1, j, FileNames)
<1>0. Len(l) \in Nat /\ n \in Nat /\ n + 1 \in 1 .. Len(l) /\ c \in Components
  <2>1. Len(l) \in Nat
    OBVIOUS
  <2>2. n \in Nat /\ n + 1 \in 1 .. Len(l)
    BY <2>1
  <2> QED BY <2>1, <2>2
<1>1. K \in SUBSET (1 .. n)
  BY DEF KeptTo
<1>2. ASSUME NEW i \in 1 .. n
      PROVE  i \in KeptTo(l, n + 1) <=> i \in K /\ up(i, n + 1) <= down(i, n + 1)
  <2>1. \A j : j \in i .. (n + 1) <=> (j \in i .. n \/ j = n + 1)
    BY <1>0
  <2>2. i \in 1 .. (n + 1)
    BY <1>0
  <2> QED BY <2>1, <2>2 DEF KeptTo
<1>a. up(n + 1, n + 1) = 0 /\ down(n + 1, n + 1) = 0
  BY <1>0, CountNone
<1>3. n + 1 \in KeptTo(l, n + 1) <=> c \in FileNames
  <2>2. n + 1 \in 1 .. (n + 1) /\ \A j \in (n + 1) .. (n + 1) : j = n + 1
    BY <1>0
  <2> QED BY <1>a, <2>2 DEF KeptTo
<1>4. KeptTo(l, n + 1) \in SUBSET (1 .. (n + 1)) /\ \A i \in 1 .. (n + 1) : i = n + 1 \/ i \in 1 .. n
  BY <1>0 DEF KeptTo
<1>5. ASSUME NEW i \in K
      PROVE  /\ up(i, n) \in Nat /\ down(i, n) \in Nat /\ Later(K, i) \in Nat
             /\ down(i, n) = up(i, n) + Later(K, i)
             /\ up(i, n + 1) = IF c = ".." THEN up(i, n) + 1 ELSE up(i, n)
             /\ down(i, n + 1) = IF c \in FileNames THEN down(i, n) + 1 ELSE down(i, n)
  <2>1. i \in 0 .. n
    BY <1>1
  <2>2. /\ up(i, n) \in Nat /\ down(i, n) \in Nat
        /\ up(i, n + 1) = IF c = ".." THEN up(i, n) + 1 ELSE up(i, n)
        /\ down(i, n + 1) = IF c \in FileNames THEN down(i, n) + 1 ELSE down(i, n)
    BY <1>0, <2>1, CountStep
  <2>3. Later(K, i) \in Nat
    BY <1>0, <1>1, LaterStep
  <2>4. down(i, n) = up(i, n) + Later(K, i)
    BY DEF Balanced
  <2> QED BY <2>2, <2>3, <2>4
<1>6. ASSUME NEW i \in K
      PROVE  /\ Later(K \cup {n + 1}, i) = Later(K, i) + 1
             /\ Later(K, i) = 0 <=> i = Max(K)
             /\ i # Max(K) => Later(K \ {Max(K)}, i) = Later(K, i) - 1
  BY <1>0, <1>1, LaterStep
<1> DEFINE L == KeptTo(l, n + 1)
<1> HIDE DEF K, L, c, up, down
<1>7. CASE c \in FileNames
  <2>1. c # "." /\ c # ".."
    BY <1>7, Dots
  <2>2. L = K \cup {n + 1}
    <3>1. ASSUME NEW i \in K PROVE up(i, n + 1) <= down(i, n + 1)
      <4>1. /\ up(i, n) \in Nat /\ down(i, n) = up(i, n) + Later(K, i) /\ Later(K, i) \in Nat
            /\ up(i, n + 1) = up(i, n) /\ down(i, n + 1) = down(i, n) + 1
        BY <1>5, <1>7, <2>1
      <4> QED BY <4>1
    <3>2. \A i \in 1 .. n : i \in L <=> i \in K
      BY <1>2, <3>1 DEF L
    <3> QED BY <1>1, <1>3, <1>4, <1>7, <3>2 DEF L
  <2>4. Later(K \cup {n + 1}, n + 1) = 0
    <3>1. {v \in K \cup {n + 1} : v > n + 1} = {}
      <4>1. ASSUME NEW v \in K \cup {n + 1} PROVE ~(v > n + 1)
        BY <1>0, <1>1
      <4> QED BY <4>1
    <3> QED BY <3>1, FS_EmptySet DEF Later
  <2>5. ASSUME NEW i \in L PROVE down(i, n + 1) = up(i, n + 1) + Later(L, i)
    <3>1. CASE i = n + 1
      BY <1>a, <2>2, <2>4, <3>1
    <3>2. CASE i \in K
      <4>1. /\ up(i, n) \in Nat /\ down(i, n) = up(i, n) + Later(K, i) /\ Later(K, i) \in Nat
            /\ up(i, n + 1) = up(i, n) /\ down(i, n + 1) = down(i, n) + 1
        BY <1>5, <1>7, <2>1, <3>2
      <4>2. Later(L, i) = Later(K, i) + 1
        BY <1>6, <2>2, <3>2
      <4> QED BY <4>1, <4>2
    <3> QED BY <2>2, <3>1, <3>2
  <2>6. Balanced(l, n + 1)
    BY <2>5 DEF Balanced, L, up, down
  <2> QED BY <2>1, <2>2, <2>6 DEF K, L, c
<1>8. CASE c = "."
  <2>1. c \notin FileNames /\ c # ".."
    BY <1>8, Dots
  <2>2. L = K
    <3>1. ASSUME NEW i \in K PROVE up(i, n + 1) <= down(i, n + 1)
      <4>1. /\ up(i, n) \in Nat /\ down(i, n) = up(i, n) + Later(K, i) /\ Later(K, i) \in Nat
            /\ up(i, n + 1) = up(i, n) /\ down(i, n + 1) = down(i, n)
        BY <1>5, <2>1
      <4> QED BY <4>1
    <3>2. \A i \in 1 .. n : i \in L <=> i \in K
      BY <1>2, <3>1 DEF L
    <3> QED BY <1>1, <1>3, <1>4, <2>1, <3>2 DEF L
  <2>3. Balanced(l, n + 1)
    BY <1>5, <2>1, <2>2 DEF Balanced, L, up, down
  <2> QED BY <1>8, <2>1, <2>2, <2>3 DEF K, L, c
<1>9. CASE c = ".."
  <2>1. c \notin FileNames /\ c # "."
    BY <1>9, Dots
  <2>2. ASSUME NEW i \in K PROVE i \in L <=> i # Max(K)
    <3>1. i \in L <=> up(i, n) + 1 <= down(i, n)
      BY <1>1, <1>2, <1>5, <1>9, <2>1 DEF L
    <3> QED BY <1>5, <1>6, <3>1
  <2>3. L = K \ {Max(K)}
    BY <1>1, <1>2, <1>3, <1>4, <2>1, <2>2 DEF L
  <2>4. ASSUME NEW i \in L PROVE down(i, n + 1) = up(i, n + 1) + Later(L, i)
    <3>1. /\ up(i, n) \in Nat /\ down(i, n) = up(i, n) + Later(K, i) /\ Later(K, i) \in Nat
          /\ up(i, n + 1) = up(i, n) + 1 /\ down(i, n + 1) = down(i, n)
      BY <1>5, <1>9, <2>1, <2>3
    <3>2. Later(L, i) = Later(K, i) - 1
      BY <1>6, <2>3
    <3> QED BY <3>1, <3>2
  <2>5. Balanced(l, n + 1)
    BY <2>4 DEF Balanced, L, up, down
  <2> QED BY <1>9, <2>1, <2>3, <2>5 DEF K, L, c
<1> QED BY <1>0, <1>7, <1>8, <1>9 DEF Components

\* The stack of an absolute path is what its reference definition says.
LEMMA StackIsReduced ==
  ASSUME NEW abs \in BOOLEAN, abs, NEW l \in Seq(Components)
  PROVE  Stack(abs, l) = Reduced(l) /\ Stack(abs, l) \in Seq(FileNames)
<1> DEFINE P(i) == After(abs, l, i) = Picked(l, KeptTo(l, i)) /\ Balanced(l, i)
<1>0. Len(l) \in Nat
  OBVIOUS
<1>1. P(0)
  <2>1. KeptTo(l, 0) = {}
    BY DEF KeptTo
  <2>2. Cardinality({}) = 0
    BY FS_EmptySet
  <2>3. Picked(l, {}) = <<>>
    BY <2>2 DEF Picked
  <2>4. After(abs, l, 0) = <<>>
    BY StackSteps
  <2>5. Balanced(l, 0)
    BY <2>1 DEF Balanced
  <2> QED BY <2>1, <2>3, <2>4, <2>5
<1>2. ASSUME NEW i \in 0 .. (Len(l) - 1), P(i) PROVE P(i + 1)
  <2> DEFINE s == After(abs, l, i)
             c == l[i + 1]
             K == KeptTo(l, i)
  <2>1. i \in Nat /\ i \in 0 .. Len(l) /\ i + 1 \in 1 .. Len(l)
    BY <1>0
  <2>2. After(abs, l, i + 1) = Pushed(abs, s, c)
    BY StackSteps
  <2>3. s \in Seq(FileNames)
    BY <2>1, AbsoluteNames
  <2>4. c \in Components
    BY <2>1
  <2>5. K \in SUBSET (1 .. i) /\ i + 1 > i /\ i + 1 \in Nat
    BY <2>1 DEF KeptTo
  <2>6. /\ c \in FileNames => KeptTo(l, i + 1) = K \cup {i + 1}
        /\ c = "." => KeptTo(l, i + 1) = K
        /\ c = ".." => KeptTo(l, i + 1) = K \ {Max(K)}
        /\ Balanced(l, i + 1)
    BY <1>2, KeptStep
  <2>7. s = Picked(l, K)
    BY <1>2
  <2> HIDE DEF s, c, K
  <2>8. CASE c \in FileNames
    <3>1. Pushed(abs, s, c) = Append(s, c)
      BY <2>8, Dots DEF Pushed
    <3>2. Picked(l, K \cup {i + 1}) = Append(s, c)
      BY <2>1, <2>5, <2>7, PickedAdd DEF c
    <3> QED BY <2>2, <2>6, <2>8, <3>1, <3>2
  <2>9. CASE c = "."
    BY <2>2, <2>6, <2>7, <2>9 DEF Pushed
  <2>10. CASE c = ".." /\ s = <<>>
    <3>1. Len(s) = 0
      BY <2>10
    <3>2. Len(s) = Cardinality(K)
      BY <2>1, <2>5, <2>7, PickedAdd
    <3>3. K = {}
      BY <2>1, <2>5, <3>1, <3>2, FinitePlaces
    <3>4. K \ {Max(K)} = K
      BY <3>3
    <3>5. Pushed(abs, s, c) = s
      BY <2>10 DEF Pushed
    <3> QED BY <2>2, <2>6, <2>7, <2>10, <3>4, <3>5
  <2>11. CASE c = ".." /\ s # <<>>
    <3>1. Last(s) # ".."
      BY <2>3, <2>11, Ends, Dots
    <3>2. Pushed(abs, s, c) = Front(s)
      BY <2>11, <3>1 DEF Pushed
    <3>3. K # {}
      <4>1. Len(s) # 0
        BY <2>3, <2>11
      <4>2. Len(s) = Cardinality(K)
        BY <2>1, <2>5, <2>7, PickedAdd
      <4> QED BY <4>1, <4>2, FS_EmptySet
    <3>4. Max(K) \in K /\ \A v \in K : v <= Max(K)
      BY <2>1, <2>5, <3>3, MaxIn
    <3> DEFINE m == Max(K)
               J == K \ {m}
    <3> HIDE DEF m
    <3>5. m \in Nat /\ m - 1 \in Nat /\ m > m - 1 /\ m \in K /\ \A v \in K : v <= m
      <4>1. m \in K /\ \A v \in K : v <= m
        BY <3>4 DEF m
      <4>2. m \in 1 .. i
        BY <2>5, <4>1
      <4> QED BY <2>1, <4>1, <4>2
    <3>6. J \in SUBSET (1 .. (m - 1))
      BY <2>5, <3>5
    <3>7. K = J \cup {m}
      BY <3>5
    <3> HIDE DEF J
    <3>8. s = Append(Picked(l, J), l[m])
      BY <2>7, <3>5, <3>6, <3>7, PickedAdd
    <3>9. Picked(l, J) = Front(s)
      <4> DEFINE R == {l[Nth(J, v)] : v \in 1 .. Cardinality(J)} \cup {l[m]}
      <4>1. Cardinality(J) \in Nat
        BY <3>5, <3>6, FinitePlaces
      <4>2. Picked(l, J) \in Seq(R) /\ l[m] \in R
        BY <4>1 DEF Picked
      <4> HIDE DEF R
      <4> QED BY <3>8, <4>2, Ends
    <3> QED BY <2>2, <2>6, <2>11, <3>2, <3>9 DEF J, m
  <2> QED BY <2>4, <2>8, <2>9, <2>10, <2>11 DEF Components
<1>3. \A i \in 0 .. Len(l) : P(i)
  <2> DEFINE G == {i \in 0 .. Len(l) : P(i)}
  <2> HIDE DEF P
  <2>1. 0 \in G /\ \A i \in 0 .. (Len(l) - 1) : i \in G => i + 1 \in G
    BY <1>0, <1>1, <1>2
  <2> HIDE DEF G
  <2>2. 0 .. Len(l) \subseteq G
    BY <1>0, <2>1, StackInduction
  <2> QED BY <2>2 DEF G
<1>4. KeptTo(l, Len(l)) = Kept(l)
  BY DEF KeptTo, Kept
<1>5. Len(l) \in 0 .. Len(l)
  BY <1>0
<1>6. After(abs, l, Len(l)) = Picked(l, KeptTo(l, Len(l)))
  BY <1>3, <1>5
<1>7. Stack(abs, l) = After(abs, l, Len(l))
  BY StackSteps
<1>8. After(abs, l, Len(l)) \in Seq(FileNames)
  BY <1>5, AbsoluteNames
<1> QED BY <1>4, <1>6, <1>7, <1>8 DEF Reduced

\* The stack of a relative path is that of the absolute one after some "..".
Ups(m) == [v \in 1 .. m |-> ".."]

LEMMA RelativeStack ==
  ASSUME NEW rel \in BOOLEAN, ~rel, NEW abs \in BOOLEAN, abs, NEW l \in Seq(Components)
  PROVE  \E m \in Nat : Stack(rel, l) = Ups(m) \o Stack(abs, l)
<1> DEFINE P(i) == \E m \in Nat : After(rel, l, i) = Ups(m) \o After(abs, l, i)
<1>0. Len(l) \in Nat
  OBVIOUS
<1>1. P(0)
  <2>1. After(rel, l, 0) = <<>> /\ After(abs, l, 0) = <<>>
    BY StackSteps
  <2>2. Ups(0) \o <<>> = <<>>
    BY DEF Ups
  <2> QED BY <2>1, <2>2
<1>2. ASSUME NEW i \in 0 .. (Len(l) - 1), P(i) PROVE P(i + 1)
  <2> DEFINE s == After(abs, l, i)
             r == After(rel, l, i)
             c == l[i + 1]
  <2>1. i \in 0 .. Len(l) /\ i + 1 \in 1 .. Len(l)
    BY <1>0
  <2>2. c \in Components
    BY <2>1
  <2>3. s \in Seq(FileNames)
    BY <2>1, AbsoluteNames
  <2>4. After(rel, l, i + 1) = Pushed(rel, r, c) /\ After(abs, l, i + 1) = Pushed(abs, s, c)
    BY StackSteps
  <2>5. PICK m \in Nat : r = Ups(m) \o s
    BY <1>2
  <2> HIDE DEF s, r, c
  <2> DEFINE u == Ups(m)
  <2>6. u \in Seq({".."}) /\ Len(u) = m
    BY DEF Ups
  <2> SUFFICES \E n \in Nat : Pushed(rel, r, c) = Ups(n) \o Pushed(abs, s, c)
    BY <2>4
  <2>7. CASE c \in FileNames
    <3>1. Pushed(rel, r, c) = Append(r, c) /\ Pushed(abs, s, c) = Append(s, c)
      BY <2>7, Dots DEF Pushed
    <3> HIDE DEF u
    <3>2. Append(u \o s, c) = u \o Append(s, c)
      BY <2>3, <2>6, <2>7
    <3> QED BY <2>5, <3>1, <3>2 DEF u
  <2>8. CASE c = "."
    BY <2>5, <2>8 DEF Pushed
  <2>9. CASE c = ".." /\ s # <<>>
    <3> HIDE DEF u
    <3>1. r \in Seq(Components) /\ r # <<>> /\ Last(r) = Last(s) /\ Front(r) = u \o Front(s)
      <4>1. u \in Seq(Components) /\ s \in Seq(Components)
        BY <2>3, <2>6 DEF Components
      <4>2. Len(s) > 0 /\ Len(s) \in Nat /\ Len(u) \in Nat
        BY <2>9, <4>1
      <4>3. r = u \o s
        BY <2>5 DEF u
      <4>4. r \in Seq(Components) /\ Len(r) = Len(u) + Len(s)
        BY <4>1, <4>3
      <4>5. Last(r) = Last(s)
        BY <4>1, <4>2, <4>3, <4>4 DEF Last
      <4>6. Front(r) = u \o Front(s)
        BY <4>1, <4>2, <4>3, <4>4 DEF Front
      <4> QED BY <4>2, <4>4, <4>5, <4>6
    <3>2. Last(s) # ".."
      BY <2>3, <2>9, Ends, Dots
    <3>3. Pushed(rel, r, c) = Front(r) /\ Pushed(abs, s, c) = Front(s)
      BY <2>9, <3>1, <3>2 DEF Pushed
    <3> QED BY <3>1, <3>3 DEF u
  <2>10. CASE c = ".." /\ s = <<>>
    <3>1. r = u /\ Pushed(abs, s, c) = <<>>
      <4>1. Pushed(abs, s, c) = <<>>
        BY <2>10 DEF Pushed
      <4> HIDE DEF u
      <4>2. u \o <<>> = u
        BY <2>6
      <4> QED BY <2>5, <2>10, <4>1, <4>2 DEF u
    <3> HIDE DEF u
    <3>2. u # <<>> => Last(u) = ".."
      <4>1. u # <<>> => Len(u) > 0 /\ Len(u) \in Nat
        BY <2>6
      <4> QED BY <2>6, <4>1 DEF Last
    <3>3. Pushed(rel, r, c) = Append(u, "..")
      BY <2>10, <3>1, <3>2 DEF Pushed
    <3>4. Append(u, "..") = Ups(m + 1) /\ Ups(m + 1) \o <<>> = Ups(m + 1)
      BY <2>6 DEF u, Ups
    <3>5. Pushed(rel, r, c) = Ups(m + 1) \o Pushed(abs, s, c)
      BY <3>1, <3>3, <3>4
    <3>6. m + 1 \in Nat
      OBVIOUS
    <3> QED BY <3>5, <3>6
  <2> QED BY <2>2, <2>7, <2>8, <2>9, <2>10 DEF Components
<1>3. \A i \in 0 .. Len(l) : P(i)
  <2> DEFINE G == {i \in 0 .. Len(l) : P(i)}
  <2> HIDE DEF P
  <2>1. 0 \in G /\ \A i \in 0 .. (Len(l) - 1) : i \in G => i + 1 \in G
    BY <1>0, <1>1, <1>2
  <2> HIDE DEF G
  <2>2. 0 .. Len(l) \subseteq G
    BY <1>0, <2>1, StackInduction
  <2> QED BY <2>2 DEF G
<1>4. Len(l) \in 0 .. Len(l)
  BY <1>0
<1>5. P(Len(l))
  BY <1>3, <1>4
<1>6. Stack(rel, l) = After(rel, l, Len(l)) /\ Stack(abs, l) = After(abs, l, Len(l))
  BY StackSteps
<1> QED BY <1>5, <1>6

\* From the root, the leading ".." lead nowhere.
LEMMA UpsVanish ==
  ASSUME NEW abs \in BOOLEAN, abs, NEW m \in Nat, NEW t \in Seq(FileNames)
  PROVE  Ups(m) \o t \in Seq(Components) /\ Stack(abs, Ups(m) \o t) = t
<1> DEFINE u == Ups(m)
           l == u \o t
           Rest(i) == IF i <= m THEN <<>> ELSE SubSeq(t, 1, i - m)
           P(i) == After(abs, l, i) = Rest(i)
<1>1. u \in Seq(Components) /\ Len(u) = m /\ \A i \in 1 .. m : u[i] = ".."
  BY DEF Ups, Components
<1>2. t \in Seq(Components) /\ Len(t) \in Nat
  BY NamesAreComponents
<1> HIDE DEF u
<1>3. l \in Seq(Components) /\ Len(l) = m + Len(t)
  BY <1>1, <1>2
<1>4. \A i \in 1 .. Len(l) : l[i] = IF i <= m THEN ".." ELSE t[i - m]
  BY <1>1, <1>2
<1> HIDE DEF l
<1>0. Len(l) \in Nat
  BY <1>2, <1>3
<1>a. P(0)
  <2>1. After(abs, l, 0) = <<>>
    BY <1>3, StackSteps
  <2>2. 0 <= m
    OBVIOUS
  <2> QED BY <2>1, <2>2
<1>b. ASSUME NEW i \in 0 .. (Len(l) - 1), P(i) PROVE P(i + 1)
  <2> DEFINE s == After(abs, l, i)
             c == l[i + 1]
  <2>1. After(abs, l, i + 1) = Pushed(abs, s, c)
    BY <1>3, StackSteps
  <2>2. i \in Nat /\ i + 1 \in 1 .. Len(l)
    BY <1>0
  <2>3. c = IF i + 1 <= m THEN ".." ELSE t[i + 1 - m]
    BY <1>4, <2>2
  <2>4. s = IF i <= m THEN <<>> ELSE SubSeq(t, 1, i - m)
    BY <1>b
  <2> HIDE DEF s, c
  <2>5. CASE i + 1 <= m
    <3>1. s = <<>> /\ c = ".."
      BY <2>2, <2>3, <2>4, <2>5
    <3>2. Pushed(abs, s, c) = <<>>
      BY <3>1 DEF Pushed
    <3> QED BY <2>1, <2>5, <3>2
  <2>6. CASE i + 1 > m
    <3> DEFINE v == i - m
    <3>1. v \in Nat /\ v + 1 \in 1 .. Len(t) /\ i + 1 - m = v + 1 /\ ~(i + 1 <= m)
      BY <1>2, <1>3, <2>2, <2>6
    <3>2. s = SubSeq(t, 1, v)
      <4>1. i <= m => v = 0
        BY <2>2, <3>1
      <4>2. SubSeq(t, 1, 0) = <<>>
        OBVIOUS
      <4> QED BY <2>4, <4>1, <4>2
    <3>3. c = t[v + 1]
      BY <2>3, <3>1
    <3> HIDE DEF v
    <3>4. c \in FileNames
      BY <3>1, <3>3
    <3>5. Pushed(abs, s, c) = Append(s, c)
      BY <3>4, Dots DEF Pushed
    <3>6. Append(SubSeq(t, 1, v), t[v + 1]) = SubSeq(t, 1, v + 1)
      BY <3>1
    <3>7. After(abs, l, i + 1) = SubSeq(t, 1, i + 1 - m)
      BY <2>1, <3>1, <3>2, <3>3, <3>5, <3>6
    <3>8. Rest(i + 1) = SubSeq(t, 1, i + 1 - m)
      BY <3>1
    <3> HIDE DEF Rest
    <3> QED BY <3>7, <3>8
  <2>7. i + 1 <= m \/ i + 1 > m
    BY <2>2
  <2> QED BY <2>5, <2>6, <2>7
<1>c. \A i \in 0 .. Len(l) : P(i)
  <2> DEFINE G == {i \in 0 .. Len(l) : P(i)}
  <2> HIDE DEF P
  <2>1. 0 \in G /\ \A i \in 0 .. (Len(l) - 1) : i \in G => i + 1 \in G
    BY <1>0, <1>a, <1>b
  <2> HIDE DEF G
  <2>2. 0 .. Len(l) \subseteq G
    BY <1>0, <2>1, StackInduction
  <2> QED BY <2>2 DEF G
<1>5. Stack(abs, l) = After(abs, l, Len(l)) /\ P(Len(l))
  <2>1. Len(l) \in 0 .. Len(l)
    BY <1>0
  <2>2. P(Len(l))
    BY <1>c, <2>1
  <2> QED BY <1>3, <2>2, StackSteps
<1>6. (IF Len(l) <= m THEN <<>> ELSE SubSeq(t, 1, Len(l) - m)) = t
  <2>1. Len(l) - m = Len(t) /\ (Len(l) <= m <=> Len(t) = 0)
    BY <1>2, <1>3
  <2>2. SubSeq(t, 1, Len(t)) = t /\ (Len(t) = 0 => t = <<>>)
    OBVIOUS
  <2> QED BY <2>1, <2>2
<1> QED BY <1>3, <1>5, <1>6 DEF l, u

-----------------------------------------------------------------------------
(***************************************************************************)
(* What cleanPath returns, for every path.                                 *)
(***************************************************************************)
PathType == [abs : BOOLEAN, names : Seq(Components)]

LEMMA ReducedNames ==
  ASSUME NEW l \in Seq(Components)
  PROVE  /\ Stack(TRUE, l) = Reduced(l) /\ Reduced(l) \in Seq(FileNames)
         /\ l \in Seq(FileNames) => Reduced(l) = l
<1>1. Stack(TRUE, l) = Reduced(l) /\ Stack(TRUE, l) \in Seq(FileNames)
  BY StackIsReduced
<1>2. l \in Seq(FileNames) => Stack(TRUE, l) = l
  BY NamesStay
<1> QED BY <1>1, <1>2

LEMMA NothingReduced == Reduced(<<>>) = <<>>
<1>1. <<>> \in Seq(FileNames) /\ <<>> \in Seq(Components)
  OBVIOUS
<1> QED BY <1>1, ReducedNames

LEMMA PathExcept ==
  ASSUME NEW abs, NEW l, NEW b
  PROVE  /\ [[abs |-> abs, names |-> l] EXCEPT !.abs = b] = [abs |-> b, names |-> l]
         /\ [[abs |-> abs, names |-> l] EXCEPT !.names = b] = [abs |-> abs, names |-> b]
<1> DEFINE p == [abs |-> abs, names |-> l]
<1>1. p.abs = abs /\ p.names = l /\ DOMAIN p = {"abs", "names"}
  OBVIOUS
<1> HIDE DEF p
<1>2. [p EXCEPT !.abs = b] = [abs |-> b, names |-> l]
  BY <1>1
<1>3. [p EXCEPT !.names = b] = [abs |-> abs, names |-> b]
  BY <1>1
<1> QED BY <1>2, <1>3 DEF p

LEMMA MadeRelative ==
  ASSUME NEW l PROVE [Absolute(l) EXCEPT !.abs = FALSE] = [abs |-> FALSE, names |-> l]
<1>1. \A a, b : [[abs |-> a, names |-> l] EXCEPT !.abs = b] = [abs |-> b, names |-> l]
  BY PathExcept
<1>2. PICK f : f = FALSE
  OBVIOUS
<1>3. PICK t : t = TRUE
  OBVIOUS
<1>4. [[abs |-> t, names |-> l] EXCEPT !.abs = f] = [abs |-> f, names |-> l]
  BY <1>1
<1> QED BY <1>2, <1>3, <1>4, Zenon DEF Absolute

LEMMA CleanIs ==
  ASSUME NEW abs, NEW l
  PROVE  Clean([abs |-> abs, names |-> l]) =
           [abs |-> abs,
            names |-> IF Stack(abs, l) = <<>> /\ ~abs THEN <<".">> ELSE Stack(abs, l)]
<1> DEFINE p == [abs |-> abs, names |-> l]
<1>1. \A m : [p EXCEPT !.names = m] = [abs |-> abs, names |-> m]
  OBVIOUS
<1>2. p.abs = abs /\ p.names = l
  OBVIOUS
<1> HIDE DEF p
<1>3. Clean(p) =
        [p EXCEPT !.names = IF Stack(abs, l) = <<>> /\ ~abs THEN <<".">> ELSE Stack(abs, l)]
  BY <1>2 DEF Clean
<1> QED BY <1>1, <1>3 DEF p

LEMMA CleanAbsolute ==
  ASSUME NEW l \in Seq(Components) PROVE Clean(Absolute(l)) = Absolute(Reduced(l))
<1>1. (IF Stack(TRUE, l) = <<>> /\ ~TRUE THEN <<".">> ELSE Stack(TRUE, l)) = Reduced(l)
  BY ReducedNames
<1> QED BY <1>1, CleanIs DEF Absolute

LEMMA DotVanishes == <<".">> \in Seq(Components) /\ Reduced(<<".">>) = <<>>
<1> DEFINE l == <<".">>
<1>1. l \in Seq(Components) /\ Len(l) = 1 /\ l[1] = "."
  BY DEF Components
<1> HIDE DEF l
<1>2. 0 \in 0 .. (Len(l) - 1) /\ 0 + 1 = 1
  BY <1>1
<1>3. /\ After(TRUE, l, 0) = <<>>
      /\ After(TRUE, l, 1) = Pushed(TRUE, After(TRUE, l, 0), l[1])
      /\ Stack(TRUE, l) = After(TRUE, l, 1)
  BY <1>1, <1>2, StackSteps
<1>4. Stack(TRUE, l) = <<>>
  BY <1>1, <1>3 DEF Pushed
<1> QED BY <1>1, <1>4, ReducedNames DEF l

\* What is left of a path: "." stands for nothing in a relative one.
Cleared(p) ==
  LET r == Reduced(p.names)
  IN  [abs |-> p.abs,
       names |-> IF r = <<>> /\ ~p.abs /\ p # EmptyPath THEN <<".">> ELSE r]

LEMMA CleanPathClears == ASSUME NEW p \in PathType PROVE cleanPath(p) = Cleared(p)
<1> DEFINE l == p.names
           r == Reduced(l)
<1>1. l \in Seq(Components) /\ p.abs \in BOOLEAN /\ p = [abs |-> p.abs, names |-> l]
  BY DEF PathType
<1>2. r \in Seq(FileNames) /\ r \in Seq(Components) /\ Reduced(r) = r
  BY <1>1, ReducedNames, NamesAreComponents
<1> HIDE DEF l, r
<1>3. CASE p.abs
  <2>1. p = Absolute(l)
    BY <1>1, <1>3 DEF Absolute
  <2>2. Clean(p) = Absolute(r)
    BY <1>1, <2>1, CleanAbsolute DEF r
  <2>3. Clean(Absolute(r)) = Absolute(r)
    BY <1>2, CleanAbsolute
  <2>4. p # EmptyPath /\ Absolute(r).abs
    BY <1>3 DEF EmptyPath, Absolute
  <2>5. cleanPath(p) = Absolute(r)
    BY <2>2, <2>3, <2>4 DEF cleanPath
  <2>6. Cleared(p) = Absolute(r)
    BY <1>1, <1>3 DEF Cleared, Absolute, r, l
  <2> QED BY <2>5, <2>6
<1>4. CASE ~p.abs /\ p = EmptyPath
  <2>1. cleanPath(p) = p
    BY <1>4 DEF cleanPath
  <2>2. l = <<>>
    BY <1>4 DEF l, EmptyPath
  <2>3. r = <<>>
    BY <2>2, NothingReduced DEF r
  <2>4. Cleared(p) = p
    BY <1>4, <2>3 DEF Cleared, EmptyPath, r, l
  <2> QED BY <2>1, <2>4
<1>5. CASE ~p.abs /\ p # EmptyPath
  <2>1. PICK m \in Nat : Stack(FALSE, l) = Ups(m) \o Stack(TRUE, l)
    BY <1>1, RelativeStack
  <2> DEFINE s == Ups(m) \o r
             v == IF s = <<>> THEN <<".">> ELSE s
  <2>2. Stack(p.abs, l) = s
    BY <1>1, <1>5, <2>1, ReducedNames DEF r
  <2>3. s \in Seq(Components) /\ Reduced(s) = r
    <3>1. s \in Seq(Components) /\ Stack(TRUE, s) = r
      BY <1>2, UpsVanish
    <3> QED BY <3>1, ReducedNames
  <2>4. s = <<>> => r = <<>>
    BY <2>3, NothingReduced
  <2> HIDE DEF s
  <2>5. Clean(p) = [abs |-> FALSE, names |-> v]
    <3>0. Clean([abs |-> p.abs, names |-> l]) =
            [abs |-> p.abs,
             names |-> IF Stack(p.abs, l) = <<>> /\ ~p.abs THEN <<".">> ELSE Stack(p.abs, l)]
      BY CleanIs
    <3>1. Clean(p) = [abs |-> p.abs, names |-> IF s = <<>> /\ ~p.abs THEN <<".">> ELSE s]
      BY <1>1, <2>2, <3>0
    <3> QED BY <1>1, <1>5, <3>1
  <2>6. v \in Seq(Components) /\ Reduced(v) = r
    BY <2>3, <2>4, DotVanishes
  <2> HIDE DEF v
  <2>7. Clean(Absolute(v)) = Absolute(r)
    BY <2>6, CleanAbsolute
  <2> DEFINE q == [abs |-> FALSE, names |-> r]
  <2>8. [Absolute(r) EXCEPT !.abs = FALSE] = q
    BY MadeRelative
  <2>9. cleanPath(p) = Clean(q)
    <3>1. ~Clean(p).abs /\ Clean(p).names = v
      BY <2>5
    <3>2. Clean([Clean(Absolute(Clean(p).names)) EXCEPT !.abs = FALSE]) = Clean(q)
      BY <2>7, <2>8, <3>1, Zenon
    <3> HIDE DEF q
    <3> QED BY <1>5, <3>1, <3>2, Zenon DEF cleanPath
  <2>10. Stack(FALSE, r) = r
    BY <1>2, NamesStay
  <2>11. Clean(q) = [abs |-> FALSE, names |-> IF r = <<>> THEN <<".">> ELSE r]
    <3>1. (IF Stack(FALSE, r) = <<>> /\ ~FALSE THEN <<".">> ELSE Stack(FALSE, r))
            = IF r = <<>> THEN <<".">> ELSE r
      BY <2>10
    <3> QED BY <3>1, CleanIs
  <2> QED BY <1>1, <1>5, <2>9, <2>11 DEF Cleared, r, l
<1> QED BY <1>3, <1>4, <1>5

LEMMA ClearedAgain ==
  ASSUME NEW p \in PathType
  PROVE  /\ Cleared(p) \in PathType /\ Cleared(Cleared(p)) = Cleared(p)
<1> DEFINE r == Reduced(p.names)
<1>1. /\ r \in Seq(FileNames) /\ r \in Seq(Components) /\ Reduced(r) = r
      /\ p.abs \in BOOLEAN /\ p.names \in Seq(Components)
  <2>1. p.abs \in BOOLEAN /\ p.names \in Seq(Components)
    BY DEF PathType
  <2> QED BY <2>1, ReducedNames, NamesAreComponents
<1>2. CASE r = <<>> /\ ~p.abs /\ p # EmptyPath
  <2>1. Cleared(p) = [abs |-> FALSE, names |-> <<".">>]
    BY <1>1, <1>2 DEF Cleared
  <2>2. Cleared(p) # EmptyPath
    BY <2>1 DEF EmptyPath
  <2> QED BY <2>1, <2>2, DotVanishes DEF Cleared, PathType
<1>3. CASE ~(r = <<>> /\ ~p.abs /\ p # EmptyPath)
  <2>1. Cleared(p) = [abs |-> p.abs, names |-> r]
    BY <1>3 DEF Cleared
  <2> HIDE DEF r
  <2>2. r = <<>> /\ ~p.abs => Cleared(p) = EmptyPath
    BY <1>1, <2>1 DEF EmptyPath
  <2> QED BY <1>1, <2>1, <2>2 DEF Cleared, PathType
<1> QED BY <1>2, <1>3

-----------------------------------------------------------------------------
(***************************************************************************)
(* The walk of ensureParent, for every path and mount point.               *)
(***************************************************************************)
Wanted == Reduced(root.names \o asked.names)
Inside == IsStrictPrefix(root.names, Wanted)
Base   == Len(root.names)
Height == Len(Wanted) - Len(below)
Ancestor(v) == Absolute(SubSeq(Wanted, 1, v))

PathsTyped ==
  /\ asked \in PathType
  /\ root.names \in Seq(FileNames) /\ root = Absolute(root.names)
  /\ below \in Seq(PathType) /\ made \in Seq(PathType)
  /\ walk \in {"idle", "up", "down"}

\* The call is for the ancestor as many levels up as calls have been left.
Nested ==
  /\ walk # "idle" =>
       /\ outcome = "none" /\ Height \in Nat /\ current = Ancestor(Height)
       /\ \A i \in 1 .. Len(below) : below[i] = Ancestor(Height + i)
  /\ walk = "idle" /\ outcome = "none" => below = <<>>

\* On the way up nothing is made, and none of the ancestors passed has the mount
\* point as its parent.
Climbing ==
  /\ walk = "up" \/ outcome \in {"clean", "error"} \/ (walk = "idle" /\ outcome = "none")
       => made = <<>>
  /\ walk = "up" => \A j \in Height .. (Len(Wanted) - 1) : SubSeq(Wanted, 1, j) # root.names
  /\ outcome = "error" => ~Inside

\* On the way down everything is made from below the mount point to here.
Descending ==
  /\ walk = "down" => Base + Len(made) + 1 = Height
  /\ outcome = "ok" => Base + Len(made) = Len(Wanted)
  /\ walk = "down" \/ outcome = "ok" \/ made # <<>> => Inside
  /\ \A i \in 1 .. Len(made) : made[i] = Ancestor(Base + i)

PathInv == PathsTyped /\ Nested /\ Climbing /\ Descending /\ PathStaysBelow

LEMMA WantedType ==
  ASSUME PathsTyped
  PROVE  /\ Wanted \in Seq(FileNames) /\ Wanted \in Seq(Components) /\ Len(Wanted) \in Nat
         /\ Path(asked) = Absolute(Wanted)
         /\ Base \in Nat
<1>1. root.names \o asked.names \in Seq(Components)
  <2>1. root.names \in Seq(Components) /\ asked.names \in Seq(Components)
    BY NamesAreComponents DEF PathsTyped, PathType
  <2> QED BY <2>1
<1>2. Wanted \in Seq(FileNames)
  BY <1>1, ReducedNames DEF Wanted
<1>3. Path(asked) = Absolute(Wanted)
  BY <1>1, CleanAbsolute DEF Path, Wanted
<1>4. Base \in Nat
  BY DEF Base, PathsTyped
<1> QED BY <1>2, <1>3, <1>4, NamesAreComponents

LEMMA InsideIs ==
  ASSUME PathsTyped
  PROVE  Inside <=> Base \in 0 .. (Len(Wanted) - 1) /\ SubSeq(Wanted, 1, Base) = root.names
<1>1. /\ Wanted \in Seq(FileNames) /\ Len(Wanted) \in Nat /\ Base \in Nat
      /\ root.names \in Seq(FileNames) /\ Base = Len(root.names)
  BY WantedType DEF PathsTyped, Base
<1>2. ASSUME Inside
      PROVE  Base \in 0 .. (Len(Wanted) - 1) /\ SubSeq(Wanted, 1, Base) = root.names
  <2>1. IsPrefix(root.names, Wanted) /\ root.names # Wanted
    BY <1>2 DEF Inside, IsStrictPrefix
  <2> QED BY <1>1, <2>1 DEF IsPrefix
<1>3. ASSUME Base \in 0 .. (Len(Wanted) - 1), SubSeq(Wanted, 1, Base) = root.names
      PROVE  Inside
  <2>1. IsPrefix(root.names, Wanted)
    BY <1>1, <1>3 DEF IsPrefix
  <2>2. root.names # Wanted
    BY <1>1, <1>3
  <2> QED BY <2>1, <2>2 DEF Inside, IsStrictPrefix
<1> QED BY <1>2, <1>3

LEMMA AncestorFacts ==
  ASSUME PathsTyped, NEW v \in 0 .. Len(Wanted)
  PROVE  /\ Ancestor(v) \in PathType /\ Ancestor(v).names = SubSeq(Wanted, 1, v)
         /\ Len(SubSeq(Wanted, 1, v)) = v
         /\ cleanPath(Ancestor(v)) = Ancestor(v)
         /\ v = 0 => Dir(Ancestor(v)) = Ancestor(v)
         /\ v > 0 => Dir(Ancestor(v)) = Ancestor(v - 1) /\ Ancestor(v - 1) # Ancestor(v)
<1> DEFINE s == SubSeq(Wanted, 1, v)
<1>0. Wanted \in Seq(FileNames) /\ Len(Wanted) \in Nat
  BY WantedType
<1>1. s \in Seq(FileNames) /\ Len(s) = v /\ v \in Nat
  BY <1>0
<1>2. s \in Seq(Components) /\ Reduced(s) = s
  BY <1>1, NamesAreComponents, ReducedNames
<1>3. v > 0 => Front(s) = SubSeq(Wanted, 1, v - 1) /\ Len(SubSeq(Wanted, 1, v - 1)) = v - 1
  BY <1>0, <1>1 DEF Front
<1>4. Ancestor(v) = [abs |-> TRUE, names |-> s]
  BY DEF Ancestor, Absolute
<1> HIDE DEF s
<1>5. Ancestor(v) \in PathType
  BY <1>2, <1>4 DEF PathType
<1>6. Ancestor(v).abs /\ Ancestor(v).names = s
  BY <1>4
<1>7. cleanPath(Ancestor(v)) = Ancestor(v)
  BY <1>2, <1>4, <1>5, <1>6, CleanPathClears DEF Cleared
<1>8. ASSUME v = 0 PROVE Dir(Ancestor(v)) = Ancestor(v)
  BY <1>1, <1>6, <1>8 DEF Dir
<1>9. ASSUME v > 0
      PROVE  Dir(Ancestor(v)) = Ancestor(v - 1) /\ Ancestor(v - 1) # Ancestor(v)
  <2>1. Ancestor(v - 1) = [abs |-> TRUE, names |-> Front(s)]
    BY <1>3, <1>9 DEF Ancestor, Absolute
  <2>2. s # <<>>
    BY <1>1, <1>9
  <2>3. Dir(Ancestor(v)) = [Ancestor(v) EXCEPT !.names = Front(s)]
    BY <1>6, <2>2 DEF Dir
  <2>4. Len(Front(s)) # Len(s)
    BY <1>1, <1>3, <1>9
  <2>5. Ancestor(v - 1).names # Ancestor(v).names
    BY <1>6, <2>1, <2>4
  <2>6. [Ancestor(v) EXCEPT !.names = Front(s)] = [abs |-> TRUE, names |-> Front(s)]
    <3>1. [[abs |-> TRUE, names |-> s] EXCEPT !.names = Front(s)]
            = [abs |-> TRUE, names |-> Front(s)]
      BY PathExcept, Zenon
    <3> QED BY <1>4, <3>1, Zenon
  <2> QED BY <2>1, <2>3, <2>5, <2>6
<1> QED BY <1>1, <1>5, <1>6, <1>7, <1>8, <1>9 DEF s

LEMMA PathInitInv == PathInit => PathInv
<1> SUFFICES ASSUME PathInit PROVE PathInv
  OBVIOUS
<1>1. PathsTyped
  <2>1. asked \in PathType
    BY PathsAssumption DEF PathInit, PathType, Components
  <2>2. PICK l \in Roots : root = Absolute(l)
    BY DEF PathInit
  <2>3. root.names = l /\ l \in Seq(FileNames)
    BY <2>2, PathsAssumption DEF Absolute
  <2> QED BY <2>1, <2>2, <2>3 DEF PathInit, PathsTyped
<1>2. Nested /\ Climbing /\ PathStaysBelow
  BY DEF PathInit, Nested, Climbing, PathStaysBelow
<1>3. Descending
  BY DEF PathInit, Descending
<1> QED BY <1>1, <1>2, <1>3 DEF PathInv

LEMMA CleanItStep == ASSUME PathInv, CleanIt PROVE PathInv'
<1> USE DEF PathInv
<1>1. PathsTyped'
  BY DEF PathsTyped, CleanIt
<1>2. /\ outcome' = "clean" /\ walk' = "idle" /\ below' = <<>> /\ made' = <<>>
      /\ current' = Cleared(asked) /\ asked' = asked
  BY CleanPathClears DEF CleanIt, Nested, Climbing, PathsTyped
<1>3. Nested' /\ Climbing'
  BY <1>2 DEF Nested, Climbing
<1>4. Descending'
  BY <1>2 DEF Descending
<1>5. PathStaysBelow'
  <2> DEFINE r == Reduced(asked.names)
             p == Cleared(asked)
  <2>1. asked.abs \in BOOLEAN /\ asked.names \in Seq(Components)
    BY DEF PathsTyped, PathType
  <2>2. r \in Seq(FileNames)
    BY <2>1, ReducedNames
  <2>3. p.abs = asked.abs
        /\ p.names = IF r = <<>> /\ ~asked.abs /\ asked # EmptyPath THEN <<".">> ELSE r
    BY DEF Cleared
  <2>4. cleanPath(p) = p
    BY ClearedAgain, CleanPathClears DEF PathsTyped
  <2> HIDE DEF p, r
  <2>5. \A i \in 1 .. Len(r) : r[i] \in FileNames
    BY <2>2
  <2>6. r # <<".">>
    <3>1. Len(<<".">>) = 1 /\ <<".">>[1] = "."
      OBVIOUS
    <3> QED BY <2>5, <3>1, Dots
  <2>8. IF p.names = <<".">> THEN ~p.abs /\ r = <<>> ELSE p.names = r
    BY <2>3, <2>6
  <2> QED BY <1>2, <2>3, <2>4, <2>8 DEF PathStaysBelow, p, r
<1> QED BY <1>1, <1>3, <1>4, <1>5

\* No other step is one of a path that has been cleaned.
LEMMA StaysBelow == ASSUME PathInv, outcome' # "clean" PROVE PathStaysBelow'
BY DEF PathStaysBelow

LEMMA EnsureParentStep == ASSUME PathInv, EnsureParent PROVE PathInv'
<1> USE DEF PathInv
<1>1. PathsTyped'
  BY DEF PathsTyped, EnsureParent
<1>2. /\ outcome' = "none" /\ walk' = "up" /\ below' = <<>> /\ made' = <<>>
      /\ asked' = asked /\ root' = root /\ current' = Absolute(Wanted)
  BY WantedType DEF EnsureParent, Nested, Climbing
<1>3. Wanted' = Wanted /\ Height' = Len(Wanted) /\ Len(Wanted) \in Nat
  <2>1. Wanted' = Wanted /\ Len(below') = 0 /\ Len(Wanted) \in Nat
    BY <1>2, WantedType DEF Wanted
  <2> QED BY <2>1 DEF Height
<1>4. Ancestor(Height)' = Absolute(Wanted)
  <2>1. SubSeq(Wanted, 1, Len(Wanted)) = Wanted
    BY WantedType
  <2> QED BY <1>3, <2>1 DEF Ancestor
<1>5. Nested'
  BY <1>2, <1>3, <1>4 DEF Nested
<1>6. Climbing'
  BY <1>2, <1>3 DEF Climbing
<1>7. Descending'
  BY <1>2 DEF Descending
<1> QED BY <1>1, <1>2, <1>5, <1>6, <1>7, StaysBelow
LEMMA UpStep == ASSUME PathInv, Up PROVE PathInv'
<1> USE DEF PathInv
<1> DEFINE h == Height
<1>1. /\ walk = "up" /\ outcome = "none" /\ made = <<>> /\ current = Ancestor(h)
      /\ h \in Nat /\ h <= Len(Wanted) /\ Len(Wanted) \in Nat /\ Base \in Nat
      /\ h = Len(Wanted) - Len(below) /\ below \in Seq(PathType)
      /\ \A i \in 1 .. Len(below) : below[i] = Ancestor(h + i)
      /\ \A j \in h .. (Len(Wanted) - 1) : SubSeq(Wanted, 1, j) # root.names
  <2>1. Len(Wanted) \in Nat /\ Base \in Nat
    BY WantedType
  <2>2. walk = "up" /\ below \in Seq(PathType) /\ Len(below) \in Nat
    BY DEF Up, PathsTyped
  <2> QED BY <2>1, <2>2 DEF Nested, Climbing, Height
<1>2. asked' = asked /\ root' = root /\ made' = made /\ Wanted' = Wanted
  BY DEF Up, Wanted
<1>3. h \in 0 .. Len(Wanted) /\ (h > 0 => h - 1 \in 0 .. Len(Wanted))
  BY <1>1
<1> HIDE DEF h
<1>4. PathsTyped
  OBVIOUS
<1>5. current \in PathType
  BY <1>1, <1>3, <1>4, AncestorFacts
<1>6. h = 0 => Dir(current) = current
  BY <1>1, <1>3, <1>4, AncestorFacts
<1>7. h > 0 => /\ Dir(current) = Ancestor(h - 1) /\ Dir(current) # current
               /\ cleanPath(Dir(current)) = Ancestor(h - 1)
  BY <1>1, <1>3, <1>4, AncestorFacts
<1>8. h > 0 => (Ancestor(h - 1) = root <=> SubSeq(Wanted, 1, h - 1) = root.names)
  BY <1>3, <1>4, AncestorFacts DEF PathsTyped, Ancestor
<1>9. outcome' # "clean" => PathStaysBelow'
  BY StaysBelow
<1>10. CASE Dir(current) = current
  <2>1. /\ walk' = "idle" /\ outcome' = "error" /\ below' = <<>> /\ current' = current
    BY <1>10 DEF Up
  <2>2. h = 0
    BY <1>1, <1>7, <1>10
  <2>3. ~Inside
    <3>1. SUFFICES ASSUME Inside PROVE FALSE
      OBVIOUS
    <3>2. Base \in 0 .. (Len(Wanted) - 1) /\ SubSeq(Wanted, 1, Base) = root.names
      BY <1>4, <3>1, InsideIs
    <3> QED BY <1>1, <2>2, <3>2
  <2>4. Inside' = Inside
    BY <1>2 DEF Inside
  <2>5. PathsTyped'
    BY <1>2, <2>1 DEF PathsTyped
  <2>6. Nested' /\ Climbing' /\ Descending'
    BY <1>1, <1>2, <2>1, <2>3, <2>4 DEF Nested, Climbing, Descending
  <2> QED BY <1>9, <2>1, <2>5, <2>6
<1>11. CASE Dir(current) # current /\ cleanPath(Dir(current)) # root
  <2>1. /\ walk' = "up" /\ outcome' = "none" /\ current' = Dir(current)
        /\ below' = <<current>> \o below
    BY <1>1, <1>11 DEF Up
  <2>2. h > 0 /\ h - 1 \in Nat
    BY <1>1, <1>6, <1>11
  <2>3. /\ below' \in Seq(PathType) /\ Len(below') = Len(below) + 1
        /\ \A i \in 1 .. Len(below') : below'[i] = IF i = 1 THEN current ELSE below[i - 1]
    BY <1>1, <1>5, <2>1
  <2>4. Height' = h - 1
    BY <1>1, <1>2, <2>3 DEF Height
  <2>5. \A v : Ancestor(v)' = Ancestor(v)
    BY <1>2 DEF Ancestor
  <2>6. ASSUME NEW i \in 1 .. Len(below') PROVE below'[i] = Ancestor(h - 1 + i)
    <3>1. CASE i = 1
      BY <1>1, <2>2, <2>3, <3>1
    <3>2. CASE i # 1
      <4>1. i - 1 \in 1 .. Len(below) /\ h + (i - 1) = h - 1 + i
        BY <1>1, <2>3, <3>2
      <4> QED BY <1>1, <2>3, <3>2, <4>1
    <3> QED BY <3>1, <3>2
  <2>7. Nested'
    BY <1>7, <2>1, <2>2, <2>4, <2>5, <2>6 DEF Nested
  <2>8. \A j \in (h - 1) .. (Len(Wanted) - 1) : SubSeq(Wanted, 1, j) # root.names
    <3>1. SubSeq(Wanted, 1, h - 1) # root.names
      BY <1>7, <1>8, <1>11, <2>2
    <3>2. \A j \in (h - 1) .. (Len(Wanted) - 1) : j = h - 1 \/ j \in h .. (Len(Wanted) - 1)
      BY <1>1, <2>2
    <3> QED BY <1>1, <3>1, <3>2
  <2>9. Climbing'
    BY <1>1, <1>2, <2>1, <2>4, <2>8 DEF Climbing
  <2>10. Descending'
    BY <1>1, <1>2, <2>1 DEF Descending
  <2>11. PathsTyped'
    BY <1>2, <2>1, <2>3 DEF PathsTyped
  <2> QED BY <1>9, <2>1, <2>7, <2>9, <2>10, <2>11
<1>12. CASE Dir(current) # current /\ cleanPath(Dir(current)) = root
  <2>1. /\ walk' = "down" /\ outcome' = "none" /\ current' = current /\ below' = below
    BY <1>1, <1>12 DEF Up
  <2>2. h > 0
    BY <1>1, <1>6, <1>12
  <2>3. SubSeq(Wanted, 1, h - 1) = root.names /\ Len(root.names) = h - 1
    BY <1>3, <1>4, <1>7, <1>8, <1>12, <2>2, AncestorFacts
  <2>4. Inside
    <3>1. h - 1 \in 0 .. (Len(Wanted) - 1)
      BY <1>1, <2>2
    <3> QED BY <1>4, <2>3, <3>1, InsideIs DEF Base
  <2>5. Inside' = Inside /\ Base' = Base /\ Height' = h /\ \A v : Ancestor(v)' = Ancestor(v)
    BY <1>1, <1>2, <2>1 DEF Inside, Base, Height, Ancestor
  <2>6. Nested'
    BY <1>1, <2>1, <2>5 DEF Nested
  <2>7. Climbing'
    BY <2>1 DEF Climbing
  <2>8. Base + Len(made) + 1 = h
    BY <1>1, <2>3 DEF Base
  <2>9. Descending'
    BY <1>1, <1>2, <2>1, <2>4, <2>5, <2>8 DEF Descending
  <2>10. PathsTyped'
    BY <1>2, <2>1 DEF PathsTyped
  <2> QED BY <1>9, <2>1, <2>6, <2>7, <2>9, <2>10
<1> QED BY <1>10, <1>11, <1>12

LEMMA DownStep == ASSUME PathInv, Down PROVE PathInv'
<1> USE DEF PathInv
<1> DEFINE h == Height
<1>1. /\ walk = "down" /\ outcome = "none" /\ current = Ancestor(h)
      /\ h \in Nat /\ h <= Len(Wanted) /\ Len(Wanted) \in Nat /\ Base \in Nat
      /\ h = Len(Wanted) - Len(below) /\ below \in Seq(PathType) /\ made \in Seq(PathType)
      /\ \A i \in 1 .. Len(below) : below[i] = Ancestor(h + i)
      /\ Base + Len(made) + 1 = h /\ Inside
      /\ \A i \in 1 .. Len(made) : made[i] = Ancestor(Base + i)
  <2>1. Len(Wanted) \in Nat /\ Base \in Nat
    BY WantedType
  <2>2. /\ walk = "down" /\ below \in Seq(PathType) /\ Len(below) \in Nat
        /\ made \in Seq(PathType)
    BY DEF Down, PathsTyped
  <2> QED BY <2>1, <2>2 DEF Nested, Descending, Height
<1>2. /\ asked' = asked /\ root' = root /\ Wanted' = Wanted /\ Inside' = Inside
      /\ Base' = Base /\ \A v : Ancestor(v)' = Ancestor(v)
  BY DEF Down, Wanted, Inside, Base, Ancestor
<1> HIDE DEF h
<1>3. current \in PathType
  <2>1. PathsTyped /\ h \in 0 .. Len(Wanted)
    BY <1>1
  <2> QED BY <1>1, <2>1, AncestorFacts
<1>4. outcome' # "clean" => PathStaysBelow'
  BY StaysBelow
<1>5. CASE walk' = "idle" /\ outcome' = "failed" /\ below' = <<>> /\ UNCHANGED <<current, made>>
  <2>1. PathsTyped'
    BY <1>2, <1>5 DEF PathsTyped
  <2>2. Nested' /\ Climbing' /\ Descending'
    BY <1>1, <1>2, <1>5 DEF Nested, Climbing, Descending
  <2> QED BY <1>4, <1>5, <2>1, <2>2
<1>7. Base \in Nat /\ Len(made) \in Nat /\ h \in Nat /\ h = Base + (Len(made) + 1)
  <2>1. Len(made) \in Nat
    BY <1>1
  <2>2. Base \in Nat /\ h \in Nat /\ Base + Len(made) + 1 = h
    BY <1>1
  <2> QED BY <2>1, <2>2
<1>6. CASE made' = Append(made, current)
  <2>1. /\ made' \in Seq(PathType) /\ Len(made') = Len(made) + 1
        /\ \A i \in 1 .. Len(made') :
             made'[i] = IF i = Len(made) + 1 THEN current ELSE made[i]
    <3>1. made \in Seq(PathType)
      BY <1>1
    <3> QED BY <1>3, <1>6, <3>1
  <2>2. \A i \in 1 .. Len(made') : made'[i] = Ancestor(Base + i)
    <3> SUFFICES ASSUME NEW i \in 1 .. Len(made') PROVE made'[i] = Ancestor(Base + i)
      OBVIOUS
    <3>1. CASE i = Len(made) + 1
      <4>1. Base + i = h
        BY <1>7, <3>1
      <4> QED BY <1>1, <2>1, <3>1, <4>1
    <3>2. CASE i # Len(made) + 1
      <4>1. i \in 1 .. Len(made)
        BY <1>1, <2>1, <3>2
      <4> QED BY <1>1, <2>1, <3>2, <4>1
    <3> QED BY <3>1, <3>2
  <2>3. CASE below = <<>>
    <3>1. walk' = "idle" /\ outcome' = "ok" /\ below' = <<>> /\ current' = current
      BY <1>6, <2>3 DEF Down
    <3>2. Base + Len(made') = Len(Wanted)
      BY <1>1, <2>1, <2>3
    <3>3. PathsTyped'
      BY <1>2, <2>1, <3>1 DEF PathsTyped
    <3>4. Nested' /\ Climbing' /\ Descending'
      BY <1>1, <1>2, <2>2, <3>1, <3>2 DEF Nested, Climbing, Descending
    <3> QED BY <1>4, <3>1, <3>3, <3>4
  <2>4. CASE below # <<>>
    <3>1. /\ walk' = "down" /\ outcome' = "none"
          /\ current' = Head(below) /\ below' = Tail(below)
      BY <1>1, <1>6, <2>4 DEF Down
    <3>2. /\ below' \in Seq(PathType) /\ Len(below') = Len(below) - 1 /\ Len(below) > 0
          /\ current' = below[1]
          /\ \A i \in 1 .. Len(below') : below'[i] = below[i + 1]
      BY <1>1, <2>4, <3>1
    <3>3. Height' = h + 1 /\ h + 1 \in Nat
      BY <1>1, <1>2, <3>2 DEF Height
    <3>4. current' = Ancestor(h + 1)
      BY <1>1, <3>2
    <3>5. ASSUME NEW i \in 1 .. Len(below') PROVE below'[i] = Ancestor(h + 1 + i)
      <4>1. i + 1 \in 1 .. Len(below) /\ h + (i + 1) = h + 1 + i
        BY <1>1, <3>2
      <4> QED BY <1>1, <3>2, <4>1
    <3>6. Nested'
      BY <1>2, <3>1, <3>3, <3>4, <3>5 DEF Nested
    <3>7. Climbing'
      BY <3>1 DEF Climbing
    <3>8. Base + Len(made') + 1 = h + 1
      BY <1>7, <2>1
    <3>9. Descending'
      BY <1>1, <1>2, <2>2, <3>1, <3>3, <3>8 DEF Descending
    <3>10. PathsTyped'
      BY <1>2, <2>1, <3>1, <3>2 DEF PathsTyped
    <3> QED BY <1>4, <3>1, <3>6, <3>7, <3>9, <3>10
  <2> QED BY <2>3, <2>4
<1> QED BY <1>5, <1>6 DEF Down

LEMMA PathInductive == PathSpec => []PathInv
<1>1. PathInit => PathInv
  BY PathInitInv
<1>2. PathInv /\ [PathNext]_pathVars => PathInv'
  <2> SUFFICES ASSUME PathInv, [PathNext]_pathVars PROVE PathInv'
    OBVIOUS
  <2>1. CASE UNCHANGED pathVars
    <3>1. PathsTyped' /\ Nested' /\ Climbing' /\ Descending'
      BY <2>1 DEF PathInv, pathVars, PathsTyped, Nested, Climbing, Descending, Height,
                  Wanted, Ancestor, Inside, Base
    <3>2. PathStaysBelow'
      BY <2>1 DEF PathInv, pathVars, PathStaysBelow
    <3> QED BY <3>1, <3>2 DEF PathInv
  <2> QED BY <2>1, CleanItStep, EnsureParentStep, UpStep, DownStep DEF PathNext
<1> QED BY <1>1, <1>2, PTL DEF PathSpec

\* cleanPath never leads above the directory a path is joined to, and has
\* nothing left to clean, for every path.
THEOREM CleanBelow == PathSpec => []PathStaysBelow
<1>1. PathInv => PathStaysBelow
  BY DEF PathInv
<1> QED BY <1>1, PathInductive, PTL

\* For every path and mount point, ensureParent makes the directories from below
\* the mount point to the one asked for, parents first, or refuses the path.
THEOREM ParentsMade == PathSpec => []MadeBelowRoot
<1>1. PathInv => MadeBelowRoot
  <2> SUFFICES ASSUME PathInv PROVE MadeBelowRoot
    OBVIOUS
  <2>1. \A i \in 1 .. Len(made) : Inside /\ made[i] = Ancestor(Base + i)
    <3> SUFFICES ASSUME NEW i \in 1 .. Len(made)
                 PROVE  Inside /\ made[i] = Ancestor(Base + i)
      OBVIOUS
    <3>1. made # <<>>
      OBVIOUS
    <3> QED BY <3>1 DEF PathInv, Descending
  <2>2. \A v : Ancestor(v).abs /\ Ancestor(v).names = SubSeq(Wanted, 1, v)
    BY DEF Ancestor, Absolute
  <2>3. \A i \in 1 .. Len(made) :
          Inside /\ made[i].abs /\ made[i].names = SubSeq(Wanted, 1, Base + i)
    BY <2>1, <2>2
  <2>4. outcome = "ok" => Base + Len(made) = Len(Wanted) /\ Inside
    BY DEF PathInv, Descending
  <2>5. outcome = "error" => made = <<>> /\ ~Inside
    BY DEF PathInv, Climbing
  <2> QED BY <2>3, <2>4, <2>5 DEF MadeBelowRoot, Wanted, Inside, Base
<1> QED BY <1>1, PathInductive, PTL
=============================================================================
