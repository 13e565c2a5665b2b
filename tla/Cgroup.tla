------------------------------- MODULE Cgroup -------------------------------
(***************************************************************************)
(* NewCgroup of src/cgroups/cgroup.go: find the cgroup mount point, keep   *)
(* the default subsystems that have a directory there, create the group in *)
(* each of them in order, and stop at the first failure with no rollback.  *)
(* Several processes do so for the SAME path while hierarchies are mounted *)
(* and unmounted: nothing but the Lstat of a directory tells a hierarchy   *)
(* from the plain directory it is mounted on.  A subsystem's Create is its *)
(* MkdirAll and then one write per file its resources set; MemoryController*)
(* and Cpuset give the detail of the two subsystems that do more.          *)
(***************************************************************************)
EXTENDS Integers, Sequences

CONSTANTS
  Procs,       \* processes that call NewCgroup
  Requests,    \* the Resources values they pass, records: see Files
  Interfaces,  \* network interfaces that may get a priority
  CpusetFiles, MemoryFiles,   \* files of these two that a request may set
  Existing,       \* subsystems with a directory at the cgroup mount point
  Mounts,      \* the sets of hierarchies that may be mounted together
  Unset        \* content of a file nobody wrote

VARIABLES
  mounted,                   \* hierarchies mounted now
  dirs, content,             \* subsystems that have the group; who set a file
  hidden, hiddenContent,     \* the same of what is not in sight: see Remount
  pc, req, enabled, at, k,   \* each process's call; k counts a Create's writes
  result, active,            \* what NewCgroup returned, and its subsystems
  begun, touched, moved      \* ghosts: see Mkdir, Write and Remount

vars == <<mounted, dirs, content, hidden, hiddenContent, pc, req, enabled, at, k,
          result, active, begun, touched, moved>>
mounts == <<mounted, hidden, hiddenContent, moved>>
group == <<dirs, content, touched>>

\* defaults(root), in the order NewCgroup initializes them.
Defaults == <<"systemd", "pids", "net_cls", "net_prio", "cpuset", "cpu",
              "cpuacct", "memory">>
Subsystems == {Defaults[i] : i \in 1 .. Len(Defaults)}

(***************************************************************************)
(* What the Create of each subsystem writes, in order.  A nil pointer is 0 *)
(* in pids and classid, which Create treats alike; cpu is the set of the   *)
(* files whose pointer is not nil; of cpuset and memory, the request tells *)
(* the files directly.  net_prio writes one file, one interface at a time. *)
(***************************************************************************)
PidsFiles(r) == IF r.pids > 0 THEN <<"pids.max">> ELSE <<>>
NetClsFiles(r) == IF r.classid > 0 THEN <<"net_cls.classid">> ELSE <<>>
NetPrioFiles(r) == r.prios

CpuFile(r, f) == IF f \in r.cpu THEN <<f>> ELSE <<>>
CpuFiles(r) ==
  CpuFile(r, "cpu.rt_period_us") \o CpuFile(r, "cpu.rt_runtime_us")
    \o CpuFile(r, "cpu.shares") \o CpuFile(r, "cpu.cfs_period_us")
    \o CpuFile(r, "cpu.cfs_quota_us")

Files(r, s) ==
  CASE s = "pids"     -> PidsFiles(r)
    [] s = "net_cls"  -> NetClsFiles(r)
    [] s = "net_prio" -> NetPrioFiles(r)
    [] s = "cpu"      -> CpuFiles(r)
    [] s = "cpuset"   -> r.cpuset
    [] s = "memory"   -> r.memory
    [] s \in {"systemd", "cpuacct"} -> <<>>   \* not creators

CpuNames == {"cpu.rt_period_us", "cpu.rt_runtime_us", "cpu.shares",
             "cpu.cfs_period_us", "cpu.cfs_quota_us"}
FilesOf(s) ==
  CASE s = "pids"     -> {"pids.max"}
    [] s = "net_cls"  -> {"net_cls.classid"}
    [] s = "net_prio" -> Interfaces
    [] s = "cpu"      -> CpuNames
    [] s = "cpuset"   -> CpusetFiles
    [] s = "memory"   -> MemoryFiles
    [] OTHER          -> {}
AllFiles == {"pids.max", "net_cls.classid"} \cup CpuNames
              \cup Interfaces \cup CpusetFiles \cup MemoryFiles

ASSUME RequestsAssumption ==
  /\ Requests # {} /\ Unset \notin Requests
  /\ \A r \in Requests :
       /\ r.pids \in Int /\ r.classid \in Nat /\ r.cpu \subseteq AllFiles
       /\ r.prios \in Seq(Interfaces)
       /\ r.cpuset \in Seq(CpusetFiles) /\ r.memory \in Seq(MemoryFiles)
ASSUME MountsAssumption == Existing \subseteq Subsystems /\ Mounts \subseteq SUBSET Existing

-----------------------------------------------------------------------------
Init ==
  /\ mounted \in Mounts
  /\ dirs = {}
  /\ content = [f \in AllFiles |-> Unset]
  /\ hidden = {} /\ hiddenContent = content
  /\ pc = [p \in Procs |-> "idle"]
  /\ req = [p \in Procs |-> CHOOSE r \in Requests : TRUE]
  /\ enabled = [p \in Procs |-> <<>>]
  /\ at = [p \in Procs |-> 1]
  /\ k = [p \in Procs |-> 1]
  /\ result = [p \in Procs |-> "none"]
  /\ active = [p \in Procs |-> <<>>]
  /\ begun = [p \in Procs |-> {}]
  /\ touched = [p \in Procs |-> {}]
  /\ moved = [p \in Procs |-> {}]

Call(p, r) ==
  /\ pc[p] = "idle"
  /\ pc' = [pc EXCEPT ![p] = "mountinfo"]
  /\ req' = [req EXCEPT ![p] = r]
  /\ enabled' = [enabled EXCEPT ![p] = <<>>]
  /\ at' = [at EXCEPT ![p] = 1]
  /\ k' = [k EXCEPT ![p] = 1]
  /\ result' = [result EXCEPT ![p] = "none"]
  /\ active' = [active EXCEPT ![p] = <<>>]
  /\ begun' = [begun EXCEPT ![p] = {}]
  /\ touched' = [touched EXCEPT ![p] = {}]
  /\ moved' = [moved EXCEPT ![p] = {}]
  /\ UNCHANGED <<mounted, dirs, content, hidden, hiddenContent>>

Return(p, r, subsystems) ==
  /\ pc' = [pc EXCEPT ![p] = "idle"]
  /\ result' = [result EXCEPT ![p] = r]
  /\ active' = [active EXCEPT ![p] = subsystems]
  /\ at' = [at EXCEPT ![p] = 1]
  /\ k' = [k EXCEPT ![p] = 1]
  /\ UNCHANGED <<mounts, req, enabled>>

\* Mutant: the error of a subsystem is dropped on the way out.
FailAsOk(p) == Return(p, "ok", enabled[p]) /\ UNCHANGED <<group, begun>>
\* Mutant: a subsystem that fails is passed over.
FailGoesOn(p) ==
  /\ pc' = [pc EXCEPT ![p] = "mkdir"] /\ at' = [at EXCEPT ![p] = @ + 1]
  /\ UNCHANGED <<mounts, group, req, enabled, k, result, active, begun>>
\* No cgroup is returned: an error is, or the process has died.
Fail(p) == Return(p, "failed", <<>>) /\ UNCHANGED <<group, begun>>

\* getMountPoint, then defaults.
GetMountPoint(p) ==
  /\ pc[p] = "mountinfo"
  /\ \/ /\ mounted # {}
        /\ pc' = [pc EXCEPT ![p] = "lstat"]
        /\ UNCHANGED <<mounts, group, req, enabled, at, k, result, active, begun>>
     \/ Fail(p)

\* Lstat of the directory of one default subsystem.
Lstat(p) ==
  /\ pc[p] = "lstat" /\ at[p] <= Len(Defaults)
  /\ at' = [at EXCEPT ![p] = @ + 1]
  /\ \/ /\ Defaults[at[p]] \in Existing
        /\ enabled' = [enabled EXCEPT ![p] = Append(@, Defaults[at[p]])]
     \/ UNCHANGED enabled  \* not there yet, or Lstat failed
  /\ UNCHANGED <<mounts, group, pc, req, k, result, active, begun>>

LstatDone(p) ==
  /\ pc[p] = "lstat" /\ at[p] > Len(Defaults)
  /\ pc' = [pc EXCEPT ![p] = "mkdir"]
  /\ at' = [at EXCEPT ![p] = 1]
  /\ UNCHANGED <<mounts, group, req, enabled, k, result, active, begun>>

\* initializeSubsystem: MkdirAll of the group in the next enabled subsystem.
Mkdir(p) ==
  /\ pc[p] = "mkdir" /\ at[p] <= Len(enabled[p])
  /\ LET s == enabled[p][at[p]] IN
     \/ /\ dirs' = dirs \cup {s}
        /\ begun' = [begun EXCEPT ![p] = @ \cup {s}]
        /\ pc' = [pc EXCEPT ![p] = "write"]
        /\ k' = [k EXCEPT ![p] = 1]
        /\ UNCHANGED <<mounts, content, touched, req, enabled, at, result, active>>
     \/ Fail(p)

Write(p) ==
  /\ pc[p] = "write"
  /\ LET files == Files(req[p], enabled[p][at[p]]) IN
     \/ /\ k[p] <= Len(files)
        /\ \/ /\ enabled[p][at[p]] \in dirs
              /\ content' = [content EXCEPT ![files[k[p]]] = req[p]]
              /\ touched' = [q \in Procs |->
                   IF q = p THEN touched[q] \ {files[k[p]]}
                            ELSE touched[q] \cup {files[k[p]]}]
              /\ k' = [k EXCEPT ![p] = @ + 1]
              /\ UNCHANGED <<mounts, dirs, pc, req, enabled, at, result, active, begun>>
           \/ Fail(p)
     \/ /\ k[p] > Len(files)
        /\ pc' = [pc EXCEPT ![p] = "mkdir"]
        /\ at' = [at EXCEPT ![p] = @ + 1]
        /\ UNCHANGED <<mounts, group, req, enabled, k, result, active, begun>>

Done(p) ==
  /\ pc[p] = "mkdir" /\ at[p] > Len(enabled[p])
  /\ Return(p, "ok", enabled[p])
  /\ UNCHANGED <<group, begun>>

\* The process dies.
Crash(p) ==
  /\ pc[p] # "idle"
  /\ Fail(p)

\* The hierarchy of s is mounted on its directory, or unmounted from it: the
\* groups and files of the one are hidden and those of the other in sight.
Remount(s) ==
  /\ mounted' \in Mounts
  /\ mounted' = IF s \in mounted THEN mounted \ {s} ELSE mounted \cup {s}
  /\ dirs' = (dirs \ {s}) \cup (hidden \cap {s})
  /\ hidden' = (hidden \ {s}) \cup (dirs \cap {s})
  /\ content' = [f \in AllFiles |->
       IF f \in FilesOf(s) THEN hiddenContent[f] ELSE content[f]]
  /\ hiddenContent' = [f \in AllFiles |->
       IF f \in FilesOf(s) THEN content[f] ELSE hiddenContent[f]]
  /\ touched' = [p \in Procs |-> touched[p] \cup FilesOf(s)]
  /\ moved' = [p \in Procs |-> moved[p] \cup {s}]
  /\ UNCHANGED <<pc, req, enabled, at, k, result, active, begun>>

Step(p) ==
  GetMountPoint(p) \/ Lstat(p) \/ LstatDone(p) \/ Mkdir(p) \/ Write(p) \/ Done(p)

Next ==
  \/ \E p \in Procs : (Step(p) \/ Crash(p) \/ \E r \in Requests : Call(p, r))
  \/ \E s \in Subsystems : Remount(s)

Spec == Init /\ [][Next]_vars

-----------------------------------------------------------------------------
\* Every variable keeps its type.
TypeOK ==
  /\ mounted \subseteq Subsystems /\ dirs \subseteq Subsystems /\ hidden \subseteq Subsystems
  /\ content \in [AllFiles -> Requests \cup {Unset}]
  /\ hiddenContent \in [AllFiles -> Requests \cup {Unset}]
  /\ pc \in [Procs -> {"idle", "mountinfo", "lstat", "mkdir", "write"}]
  /\ req \in [Procs -> Requests]
  /\ enabled \in [Procs -> Seq(Subsystems)] /\ active \in [Procs -> Seq(Subsystems)]
  /\ at \in [Procs -> Nat \ {0}] /\ k \in [Procs -> Nat \ {0}]
  /\ result \in [Procs -> {"none", "ok", "failed"}]
  /\ begun \in [Procs -> SUBSET Subsystems]
  /\ touched \in [Procs -> SUBSET AllFiles]
  /\ moved \in [Procs -> SUBSET Subsystems]

\* p's request is in force in s, but for files another process wrote since, and
\* if the hierarchy of s has been in its place since p's call began.
Applied(p, f) == f \notin touched[p] => content[f] = req[p]
Configured(p, s) ==
  s \in moved[p] \/
  /\ s \in dirs
  /\ \A i \in 1 .. Len(Files(req[p], s)) : Applied(p, Files(req[p], s)[i])

\* NewCgroup returns a cgroup only if the group exists in every subsystem it
\* returns, with all the resources asked for, after whatever earlier attempts
\* died or failed and left behind, but where a hierarchy was mounted or
\* unmounted under the call.
CompleteOnSuccess ==
  \A p \in Procs : result[p] = "ok" =>
    \A i \in 1 .. Len(active[p]) : Configured(p, active[p][i])

\* Whenever a call stops, by failure, death or success, it has touched an
\* initial part of its enabled subsystems: each is complete before the next
\* is begun, so a retry finds nothing set out of order.
PrefixInOrder ==
  \A p \in Procs : \A i, j \in 1 .. Len(enabled[p]) :
    (i < j /\ enabled[p][j] \in begun[p]) => Configured(p, enabled[p][i])
=============================================================================
