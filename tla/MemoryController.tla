-------------------------- MODULE MemoryController --------------------------
(***************************************************************************)
(* The memory cgroup controller of src/cgroups/memory.go: Create, Update   *)
(* and Stat on ONE cgroup, run by several processes at once.  Every file   *)
(* operation is a step, so two calls interleave between any two writes and *)
(* a process may die between them; one that starts again constructs its    *)
(* controller anew.  The kernel's side (which write it refuses, when       *)
(* kernel memory becomes accounted) is external.                           *)
(***************************************************************************)
EXTENDS Integers, Sequences

CONSTANTS
  Procs,           \* processes that use the controller
  Requests,        \* the MemoryResource values callers pass
  NoMemory,        \* Resources.Memory == nil
  Nil,             \* a nil pointer field of a MemoryResource
  Unlimited,       \* PAGE_COUNTER_MAX, what the kernel stores for -1
  IgnoredNames,    \* the names given to IgnoreModules
  UseOptionalSwap  \* is OptionalSwap() among the options of NewMemory?

VARIABLES
  exists, file, accounted,                             \* the cgroup
  populated,        \* have tasks joined it, or groups been made below it?
  swapAccounting,   \* does the kernel have the memory.memsw.* files?
  mounted,          \* is the memory hierarchy mounted at the root?
  ignored,          \* the ignored modules of each process's controller
  pc, op, req, order, at, result, stats,               \* each process's call
  touched   \* ghost: settings others wrote since p's call or p's own write

group == <<exists, file, accounted, populated, swapAccounting, mounted>>
call  == <<op, req>>
vars  == <<exists, file, accounted, populated, swapAccounting, mounted, ignored,
           pc, op, req, order, at, result, stats, touched>>

Settings  == {"limit", "soft", "memsw", "kmem", "kmemtcp", "oom", "swappiness"}
\* Mutant: one module name is repeated.
ModulesTwice == <<"limit", "limit", "kmem", "kmemtcp">>
Modules   == <<"limit", "memsw", "kmem", "kmemtcp">>
StatNames == {"limit", "memsw", "kmem", "kmemtcp"}
Fields    == {"Limit", "Reservation", "Swap", "Kernel", "KernelTCP",
              "DisableOOMKiller", "Swappiness"}
Amounts   == 0 .. Unlimited

ASSUME UnlimitedAssumption == Unlimited \in Nat /\ Unlimited > 100
ASSUME NilAssumption == Nil \notin Int
ASSUME OptionAssumption == UseOptionalSwap \in BOOLEAN
ASSUME RequestsAssumption ==
  /\ NoMemory \notin Requests
  /\ \A r \in Requests : r \in [Fields -> (-1 .. Unlimited) \cup {Nil}]

(***************************************************************************)
(* getMemorySettings: the settings in the order set() writes them, and the *)
(* value the request gives each.                                           *)
(***************************************************************************)
\* Mutant: the third setting has the name of the first.
OrderLimitTwice ==
  <<"limit", "soft", "limit", "kmem", "kmemtcp", "oom", "swappiness">>
\* Mutant: memsw is written before limit.
OrderMemswFirst ==
  <<"memsw", "soft", "limit", "kmem", "kmemtcp", "oom", "swappiness">>
Order == <<"limit", "soft", "memsw", "kmem", "kmemtcp", "oom", "swappiness">>

SwappedOrder == [Order EXCEPT ![1] = Order[2], ![2] = Order[1]]

OomControlValue(r) == IF r["DisableOOMKiller"] = 1 THEN 1 ELSE Nil

Value(r, n) ==
  CASE n = "limit"      -> r["Limit"]
    [] n = "soft"       -> r["Reservation"]
    [] n = "memsw"      -> r["Swap"]
    [] n = "kmem"       -> r["Kernel"]
    [] n = "kmemtcp"    -> r["KernelTCP"]
    [] n = "oom"        -> OomControlValue(r)
    [] n = "swappiness" -> r["Swappiness"]

Stored(v) == IF v = -1 THEN Unlimited ELSE v

FreshFile == [n \in Settings |-> IF n = "oom" THEN 0
                                 ELSE IF n = "swappiness" THEN 60 ELSE Unlimited]
NoStats == [n \in StatNames |-> 0]

(***************************************************************************)
(* The kernel: the answers a write of v to setting n may get.  A populated *)
(* group may have more memory in use than a finite limit allows and than   *)
(* can be reclaimed; whether it has is left open.                          *)
(***************************************************************************)
Limits == {"limit", "memsw", "kmem", "kmemtcp"}

Verdicts(n, v) ==
  CASE ~exists                                           -> {"ENOENT"}
    [] exists /\ n = "memsw" /\ ~swapAccounting           -> {"EACCES"}
    [] exists /\ n = "memsw" /\ swapAccounting /\ v < file["limit"] -> {"EINVAL"}
    [] exists /\ n = "limit" /\ v > file["memsw"]         -> {"EINVAL"}
    [] exists /\ n = "kmem" /\ populated /\ ~accounted /\ v # Unlimited -> {"EBUSY"}
    [] OTHER -> IF n \in Limits /\ populated /\ v # Unlimited
                THEN {"ok", "EBUSY"} ELSE {"ok"}

Accept(p, n, v) ==
  /\ file' = [file EXCEPT ![n] = v]
  /\ accounted' = (accounted \/ (n = "kmem" /\ v # Unlimited))
  /\ touched' = [q \in Procs |-> IF q = p THEN touched[q] \ {n}
                                 ELSE touched[q] \cup {n}]
  /\ UNCHANGED <<exists, populated, swapAccounting, mounted>>

Errors == {"ENOENT", "EACCES", "EINVAL", "EBUSY", "EIO"}

-----------------------------------------------------------------------------
Init ==
  /\ mounted \in BOOLEAN
  /\ exists \in BOOLEAN /\ (exists => mounted)
  /\ file = FreshFile
  /\ accounted = FALSE
  /\ populated = FALSE
  /\ swapAccounting \in BOOLEAN
  /\ ignored = [p \in Procs |-> {}]
  /\ pc = [p \in Procs |-> "new"]
  /\ op = [p \in Procs |-> "none"]
  /\ req = [p \in Procs |-> NoMemory]
  /\ order = [p \in Procs |-> Order]
  /\ at = [p \in Procs |-> 1]
  /\ result = [p \in Procs |-> "none"]
  /\ stats = [p \in Procs |-> NoStats]
  /\ touched = [p \in Procs |-> {}]

(***************************************************************************)
(* NewMemory with its options: IgnoreModules, then OptionalSwap, which     *)
(* looks once for a memsw file at the root of the hierarchy.  A look-up    *)
(* that fails in another way than "not found" ignores nothing.             *)
(***************************************************************************)
IgnoredSets == {{}, IgnoredNames, IgnoredNames \cup {"memsw"}}

NewMemory(p) ==
  /\ pc[p] = "new"
  /\ pc' = [pc EXCEPT ![p] = "idle"]
  /\ \/ ignored' = [ignored EXCEPT ![p] = IgnoredNames]
     \/ /\ UseOptionalSwap /\ ~(mounted /\ swapAccounting)
        /\ ignored' = [ignored EXCEPT ![p] = IgnoredNames \cup {"memsw"}]
  /\ UNCHANGED <<group, call, order, at, result, stats, touched>>

Entry == [Create |-> "mkdir", Update |-> "order", Stat |-> "open"]

Call(p, o, r) ==
  /\ pc[p] = "idle" /\ mounted
  /\ (o = "Stat") => (r = NoMemory)
  /\ pc' = [pc EXCEPT ![p] = Entry[o]]
  /\ op' = [op EXCEPT ![p] = o]
  /\ req' = [req EXCEPT ![p] = r]
  /\ order' = [order EXCEPT ![p] = Order]
  /\ at' = [at EXCEPT ![p] = 1]
  /\ result' = [result EXCEPT ![p] = "none"]
  /\ stats' = [stats EXCEPT ![p] = NoStats]
  /\ touched' = [touched EXCEPT ![p] = {}]
  /\ UNCHANGED <<group, ignored>>

Return(p, r) ==
  /\ pc' = [pc EXCEPT ![p] = "idle"]
  /\ result' = [result EXCEPT ![p] = r]
  /\ order' = [order EXCEPT ![p] = Order]
  /\ UNCHANGED <<call, at, stats>>

Goto(p, l) ==
  /\ pc' = [pc EXCEPT ![p] = l]
  /\ UNCHANGED <<call, result, stats>>

(***************************************************************************)
(* Create: MkdirAll, the kernel-memory probe (1, then -1), then set().     *)
(***************************************************************************)
AfterMkdir(p) ==
  \/ req[p] = NoMemory /\ Return(p, "ok")
  \/ /\ req[p] # NoMemory /\ req[p]["Kernel"] # Nil
     /\ Goto(p, "probeOn") /\ UNCHANGED <<order, at>>
  \/ /\ req[p] # NoMemory /\ req[p]["Kernel"] = Nil
     /\ Goto(p, "set") /\ UNCHANGED <<order, at>>

Mkdir(p) ==
  /\ pc[p] = "mkdir"
  /\ \/ /\ exists' = TRUE
        /\ AfterMkdir(p)
        /\ UNCHANGED <<file, accounted, populated, swapAccounting, mounted, touched>>
     \/ Return(p, "EIO") /\ UNCHANGED <<group, touched>>

Probe(p, from, v, to) ==
  /\ pc[p] = from
  /\ \/ /\ "ok" \in Verdicts("kmem", v)
        /\ Accept(p, "kmem", v)
        /\ Goto(p, to) /\ UNCHANGED <<order, at>>
     \/ \E r \in (Verdicts("kmem", v) \ {"ok"}) \cup {"EIO"} :
          Return(p, r) /\ UNCHANGED <<group, touched>>

\* Mutant: the probe writes only -1.
ProbeOnUnlimited(p) == Probe(p, "probeOn", Unlimited, "probeOff")
ProbeOn(p)  == Probe(p, "probeOn", 1, "probeOff")
ProbeOff(p) == Probe(p, "probeOff", Unlimited, "set")

(***************************************************************************)
(* Update: choose the order of the first two settings from the limit the   *)
(* group has now; the group may change before the first write.             *)
(***************************************************************************)
Positive(v) == v # Nil /\ v # -1 /\ v # 0

ChooseOrder(p) ==
  /\ pc[p] = "order"
  /\ \/ req[p] = NoMemory /\ Return(p, "ok")
     \/ /\ req[p] # NoMemory
        /\ ~(Positive(req[p]["Limit"]) /\ Positive(req[p]["Swap"]))
        /\ Goto(p, "set") /\ UNCHANGED <<order, at>>
     \/ /\ req[p] # NoMemory
        /\ Positive(req[p]["Limit"]) /\ Positive(req[p]["Swap"])
        /\ \/ /\ exists
              /\ order' = [order EXCEPT ![p] =
                   IF file["limit"] < req[p]["Swap"] THEN SwappedOrder ELSE Order]
              /\ Goto(p, "set") /\ UNCHANGED at
           \/ Return(p, IF exists THEN "EIO" ELSE "ENOENT")
  /\ UNCHANGED <<group, touched>>

(***************************************************************************)
(* set: one write per non-nil setting, nil ones skipped; the first error   *)
(* ends the call.  NextIs(p, j): the loop's next write is its j-th setting.*)
(***************************************************************************)
Asked(p, n) == req[p] # NoMemory /\ Value(req[p], n) # Nil

NextIs(p, j) ==
  /\ pc[p] = "set"
  /\ \A k \in at[p] .. (j - 1) : ~Asked(p, order[p][k])

Write(p) ==
  \E j \in at[p] .. Len(Order) :
    /\ NextIs(p, j) /\ Asked(p, order[p][j])
    /\ LET n == order[p][j]
           v == Stored(Value(req[p], n))
       IN \/ /\ "ok" \in Verdicts(n, v)
             /\ at' = [at EXCEPT ![p] = j + 1]
             /\ Accept(p, n, v)
             /\ UNCHANGED <<pc, call, order, result, stats>>
          \/ \E r \in (Verdicts(n, v) \ {"ok"}) \cup {"EIO"} :
               Return(p, r) /\ UNCHANGED <<group, touched>>

SetDone(p) ==
  /\ NextIs(p, Len(Order) + 1)
  /\ Return(p, "ok")
  /\ UNCHANGED <<group, touched>>

(***************************************************************************)
(* Stat: open memory.stat, then read the files of each module not ignored. *)
(* Of the four files of a module only limit_in_bytes is kept.              *)
(***************************************************************************)
StatOpen(p) ==
  /\ pc[p] = "open"
  /\ \/ exists /\ Goto(p, "read") /\ UNCHANGED <<order, at>>
     \/ Return(p, IF exists THEN "EIO" ELSE "ENOENT")
  /\ UNCHANGED <<group, touched>>

\* Mutant: a module whose file cannot be read is passed over.
StatReadPassesOver(p) ==
  /\ pc[p] = "read" /\ at[p] <= Len(Modules)
  /\ at' = [at EXCEPT ![p] = @ + 1]
  /\ \/ /\ Modules[at[p]] \notin ignored[p]
        /\ stats' = [stats EXCEPT ![p][Modules[at[p]]] = file[Modules[at[p]]]]
     \/ stats' = stats
  /\ UNCHANGED <<pc, call, order, result, group, touched>>

StatRead(p) ==
  /\ pc[p] = "read" /\ at[p] <= Len(Modules)
  /\ LET n == Modules[at[p]]
         present == n # "memsw" \/ swapAccounting
     IN \/ /\ n \in ignored[p] \/ present
           /\ at' = [at EXCEPT ![p] = @ + 1]
           /\ stats' = IF n \in ignored[p] THEN stats
                       ELSE [stats EXCEPT ![p][n] = file[n]]
           /\ UNCHANGED <<pc, call, order, result>>
        \/ /\ n \notin ignored[p]
           /\ Return(p, IF present THEN "EIO" ELSE "ENOENT")
  /\ UNCHANGED <<group, touched>>

StatDone(p) ==
  /\ pc[p] = "read" /\ at[p] > Len(Modules)
  /\ Return(p, "ok")
  /\ UNCHANGED <<group, touched>>

-----------------------------------------------------------------------------
(***************************************************************************)
(* The environment: the hierarchy gets mounted; a task joins the group or  *)
(* a group is made below it; a process dies inside a call, and the next    *)
(* one starts with nothing of its own.                                     *)
(***************************************************************************)
local == <<ignored, pc, op, req, order, at, result, stats, touched>>

Mount ==
  /\ ~mounted
  /\ mounted' = TRUE
  /\ UNCHANGED <<exists, file, accounted, populated, swapAccounting, local>>

Join ==
  /\ exists /\ ~populated
  /\ populated' = TRUE
  /\ UNCHANGED <<exists, file, accounted, swapAccounting, mounted, local>>

Crash(p) ==
  /\ pc[p] \notin {"idle", "new"}
  /\ pc' = [pc EXCEPT ![p] = "new"]
  /\ ignored' = [ignored EXCEPT ![p] = {}]
  /\ op' = [op EXCEPT ![p] = "none"]
  /\ req' = [req EXCEPT ![p] = NoMemory]
  /\ order' = [order EXCEPT ![p] = Order]
  /\ at' = [at EXCEPT ![p] = 1]
  /\ stats' = [stats EXCEPT ![p] = NoStats]
  /\ touched' = [touched EXCEPT ![p] = {}]
  /\ UNCHANGED <<group, result>>

Step(p) ==
  /\ \/ Mkdir(p) \/ ProbeOn(p) \/ ProbeOff(p) \/ ChooseOrder(p)
     \/ Write(p) \/ SetDone(p) \/ StatOpen(p) \/ StatRead(p) \/ StatDone(p)
  /\ UNCHANGED ignored

Next ==
  \/ \E p \in Procs :
       \/ NewMemory(p)
       \/ \E o \in {"Create", "Update", "Stat"}, r \in Requests \cup {NoMemory} :
             Call(p, o, r)
       \/ Step(p)
       \/ Crash(p)
  \/ Mount \/ Join

Spec == Init /\ [][Next]_vars

-----------------------------------------------------------------------------
\* Every variable keeps its type.
TypeOK ==
  /\ exists \in BOOLEAN /\ accounted \in BOOLEAN
  /\ populated \in BOOLEAN /\ swapAccounting \in BOOLEAN /\ mounted \in BOOLEAN
  /\ file \in [Settings -> Amounts]
  /\ ignored \in [Procs -> IgnoredSets]
  /\ pc \in [Procs -> {"new", "idle", "mkdir", "probeOn", "probeOff", "order", "set",
                       "open", "read"}]
  /\ op \in [Procs -> {"none", "Create", "Update", "Stat"}]
  /\ req \in [Procs -> Requests \cup {NoMemory}]
  /\ order \in [Procs -> {Order, SwappedOrder}]
  /\ at \in [Procs -> 1 .. 8]
  /\ result \in [Procs -> Errors \cup {"none", "ok"}]
  /\ stats \in [Procs -> [StatNames -> Amounts]]
  /\ touched \in [Procs -> SUBSET Settings]

\* A Create or Update that returned nil has put every value it was asked for
\* in the group's files, -1 as "unlimited", in whichever order it wrote them,
\* except where another process wrote the same file after it (memory.go set).
AppliedOnSuccess ==
  \A p \in Procs, n \in Settings :
    (result[p] = "ok" /\ Asked(p, n) /\ n \notin touched[p])
      => file[n] = Stored(Value(req[p], n))

\* Kernel memory is accounted once a Create that asked for a kernel limit has
\* returned nil, even if the limit asked for is -1: that is what the probe of
\* 1 and -1 is for (memory.go:85-88).
KernelAccounted ==
  \A p \in Procs :
    (op[p] = "Create" /\ result[p] = "ok" /\ Asked(p, "kmem")) => accounted

\* A Create with a kernel limit that is refused with EBUSY after it has written
\* a setting is refused for memory in use, never for tasks that joined before
\* kernel memory was accounted: the probe precedes every write of set().
HalfwayBusyIsUsage ==
  \A p \in Procs :
    (/\ op[p] = "Create" /\ result[p] = "EBUSY" /\ Asked(p, "kmem")
     /\ at[p] > 1) => accounted

\* The kernel's ordering rule refuses a consistent request (limit <= swap, or
\* only one of the two), of Create or Update and whatever others write
\* meanwhile, only if at that moment the request raises the limit above the
\* group's memsw limit, or lowers memsw below a limit that is not its own.
Consistent(r) ==
  (r["Limit"] # Nil /\ r["Swap"] # Nil) => Stored(r["Limit"]) <= Stored(r["Swap"])

RefusedOnlyWhenRaising ==
  [][\A p \in Procs :
       (/\ result[p] # "EINVAL" /\ result'[p] = "EINVAL"
        /\ Consistent(req[p])) =>
         \/ /\ Asked(p, "limit")
            /\ Stored(req[p]["Limit"]) > file["memsw"]
         \/ /\ Asked(p, "memsw") /\ Stored(req[p]["Swap"]) < file["limit"]
            /\ Asked(p, "limit") => "limit" \in touched[p]]_vars

\* A Stat that returned nil reports 0 for a module its controller ignores,
\* and for every other the limit in the group's file, unless another process
\* wrote that file after the call began.
StatExact ==
  \A p \in Procs, n \in StatNames :
    (op[p] = "Stat" /\ result[p] = "ok") =>
       /\ n \in ignored[p] => stats[p][n] = 0
       /\ n \notin ignored[p] \cup touched[p] => stats[p][n] = file[n]

\* Stat reads the limit and the memsw limit at two moments.  It returns a limit
\* above the memsw limit, which no group ever has, only if others wrote both
\* files after the call began; one write of another process cannot tear it.
TornOnlyIfBothWritten ==
  \A p \in Procs :
    (/\ op[p] = "Stat" /\ result[p] = "ok"
     /\ {"limit", "memsw"} \cap ignored[p] = {}
     /\ stats[p]["limit"] > stats[p]["memsw"]) => {"limit", "memsw"} \subseteq touched[p]

\* The inductive invariant behind AppliedOnSuccess, KernelAccounted and
\* HalfwayBusyIsUsage: where a call stands says what it is, the probe precedes
\* set(), and set() has applied the settings it has passed.
Control(p) ==
  /\ pc[p] = "new" => op[p] = "none"
  /\ pc[p] \notin {"idle", "new"} => result[p] = "none"
  /\ pc[p] \in {"mkdir", "probeOn", "probeOff"} => op[p] = "Create" /\ at[p] = 1
  /\ pc[p] = "order" => op[p] = "Update" /\ at[p] = 1
  /\ pc[p] \in {"open", "read"} => op[p] = "Stat"
  /\ pc[p] \in {"probeOn", "probeOff", "set"} => req[p] # NoMemory
  /\ pc[p] = "set" => op[p] # "Stat"
  /\ op[p] = "Stat" => req[p] = NoMemory

Probed(p) ==
  (/\ op[p] = "Create" /\ Asked(p, "kmem")
   /\ pc[p] \in {"probeOff", "set"} \/ result[p] = "ok" \/ at[p] > 1) => accounted

Passed(p, n) ==
  \/ result[p] = "ok"
  \/ pc[p] = "set" /\ \E j \in 1 .. (at[p] - 1) : order[p][j] = n

Applied(p) ==
  \A n \in Settings : (Passed(p, n) /\ Asked(p, n) /\ n \notin touched[p])
                         => file[n] = Stored(Value(req[p], n))

CallInv == \A p \in Procs : Control(p) /\ Probed(p) /\ Applied(p)

\* An Update whose limit and swap are positive and consistent, run alone on a
\* group that exists, is not refused by the kernel's ordering rule: "swap
\* changes first then set the memory limit" (memory.go:111-112).
RaiseAccepted ==
  \A p \in Procs :
    (/\ op[p] = "Update" /\ result[p] = "EINVAL" /\ touched[p] = {}
     /\ Asked(p, "limit") /\ Asked(p, "memsw"))
      => ~(0 < req[p]["Limit"] /\ req[p]["Limit"] <= req[p]["Swap"])
=============================================================================
