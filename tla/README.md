# godocker in TLA+

Formal models of godocker (Go packages `cgroups`, `container`, `configs` and the
`run` command), checked with TLC, their safety proved with TLAPS. Paths and line
numbers below are those of the repository.

godocker is a container runtime in the making, modelled on runc and containerd:
a command line over a library that keeps container directories, sets up cgroup
v1 groups, joins namespaces and jails a process in its root file system. A large
part of the files is commented out; what runs, and what the tests call, is
modelled here.

## Inventory

| Component | State | Operations | What makes it correct |
|---|---|---|---|
| memory controller (`cgroups/memory.go`) | files of one memory group, kernel-memory accounting | Create, Update, Stat | nil means every setting is applied; the kernel-memory probe precedes everything; the order of writes respects the kernel's `limit <= memsw` |
| cpuset controller (`cgroups/cpuset.go`) | groups below the mount point, cpus and mems of each | Create, Update, `ensureParent`, `copyIfNeeded` | no group is left without cpus or mems, and none that has some loses its last; a copy replaces no value |
| cgroup manager (`cgroups/cgroup.go`, `utils.go`; pids, net_cls, net_prio, cpu, named) | one group in up to eight hierarchies | NewCgroup | nil means complete; failures leave an ordered prefix; a group is a group and not a plain directory |
| metrics (`cgroups/cpu.go`, `cpuacct.go`, `pids.go`, `memory.go`, `stats.go`) | one `Stats` value | Stat of each controller, pids Create/Update | torn reads stay consistent; failed reads leave no half update, or at least no old values |
| container factory (`container/factory.go`, `run` in `utils.go`) | the state directory, shared by all processes | New, Create, Load | ids are distinct; a call is told the truth about its id; a failure leaves nothing |
| namespaces (`configs/namespaces.go`) | a memo behind a mutex; the list of a configuration | IsNamespaceSupported, Add, Remove, Contains, PathOf | one goroutine at a time; one answer per type; the list is a map |
| root file system (`container/rootfs.go`, clone flags of `container/process.go`) | mount trees and their propagation, working directory, descriptors | pivotRoot, chroot, readonlyPath | the host loses no mount; the process cannot get back; read only means read only |
| nsenter (`nsenter/nsenter.go`) | the process's namespaces; the number in `docker_pid` | a C constructor before `main`: five setns, one command | the command runs inside the container named, and in nobody else's namespaces |
| container init (`container/process.go`, `init.go`, StartInitialization in `factory.go`, `distinct/main.go`) | environment and descriptors of the process | clone with namespaces, the `init` command, StartInitialization | the namespaces asked for, and a command only inside them |
| cgroup removal and paths (`cgroups/utils.go`, `ensureParent` in `cpuset.go`) | the groups below a path and their tasks | `remove` with its retries, `cleanPath`, the walk to the mount point | nil means gone; an error means five tries were blocked; no path leads out |
| device permissions (`configs/devices.go`) | a rule's string | Union, Difference, Intersection, IsEmpty, IsValid | the strings behave as sets, whatever strings came in |
| command line, configuration types, systemd and blkio controllers | none, or commented out | flag tables, records, formatters | not modelled |

How they interact. A `run` process calls `container.New` and `factory.Create`
(`utils.go:79-98`) and then `Run` of the container, which does nothing yet.
`NewCgroup` calls `Create` of every controller through interfaces
(`subsystem.go`); nothing calls `NewCgroup` yet but its contract is that several
processes may. All interaction is through files: the state directory, the cgroup
hierarchies and the mount table are shared by every process on the host, and
nothing locks them. The only lock in use is `nsLock` of `namespaces.go` (the
mutexes of `cgroup` and `linuxContainer` are never taken).

What is hard, therefore: calls of several processes interleave between any two
file operations; any operation may fail and any process may be killed between
two of them, and what it wrote stays; values are read, decided on, and written
later; counters move while they are read one file at a time. `PROJECT.json`
lists each such place under "hazards", at its line.

## Modules

Every system call or file operation is an action; a process takes them one by
one, following the code's order, and `pc` says which is next. A process may die
(`Crash`, `Die`) at any step, except where there is nothing left to find
afterwards: GroupStats, Namespaces and ProcessStart model reads and state that
end with the process, and a `remove` that dies is one that stops between two
of its system calls, which the next one finds as it finds any other state. Ghost variables,
which the program does not have, are marked in the declarations.

| Module | Models | State and actions against the code |
|---|---|---|
| `MemoryController` | Create, Update, Stat on one group | `file`: contents of the group's files; `order`: the slice of settings, after Update's swap; `at`: the index in the loop of `set` (or of `Stat`). `NewMemory` applies the options, once: `ignored` is what it leaves in the controller of each process, and stays when the hierarchy is mounted later (`Mount`). `Mkdir`, `ProbeOn`/`ProbeOff` (1, then -1), `ChooseOrder` (the read of `memory.limit_in_bytes`), `Write`, `SetDone`, `StatOpen`, `StatRead`, `StatDone`. `swapAccounting`: whether the kernel has the `memory.memsw.*` files, any of the two at first; `populated`: whether tasks have joined the group, or groups been made below it. `touched` (ghost): files another process wrote later. |
| `Cpuset` | Create with `ensureParent` and `copyIfNeeded` | `level`: how far the recursion has unwound; `cur`, `par`: the bytes read from the group and its parent, used later. |
| `Cgroup` | NewCgroup | `enabled`: the slice of subsystems found by Lstat; `at`: the index of both loops; `k`: writes of the current Create. What each Create writes is a pure operator of the request (`PidsFiles`, `NetClsFiles`, `NetPrioFiles`, `CpuFiles`). `Existing`: the directories at the mount point, with a hierarchy on them (`mounted`) or without; `Remount` mounts or unmounts one, which puts the groups made so far out of sight (`hidden`, `hiddenContent`) and others in it. `begun`, `touched`, `moved` (ghosts): the groups a call has made, the files others wrote later, the hierarchies that came or went during it. |
| `GroupStats` | Stat of cpu, cpuacct, pids, memory; Create and Update of pids | `stats`: the caller's value, whose CPU part may be nil; `got`: the locals of cpuacct's Stat. |
| `ContainerFactory` | New, Create, Load as `run` uses them | `dirs`: the directories on disk, the only record of containers. `Arguments`, `New`, `SecureJoin`, `Stat`, `Mkdir` (which may stop after some of the parents), `Chown`, `Load`. Ghosts: `granted` counts containers per directory, `existed` and `rivals` say what a call met: its directory, and the directories of the calls that overlapped it. |
| `ContainerRegistry` | abstract: what the factory gives its callers | `taken`, and an answer per caller; a taken directory is given again only to a caller that waited for it together with another (`contended`). |
| `Namespaces` | IsNamespaceSupported; Add, Remove, Contains, PathOf | `nsLock`, `supported`: the code's; `list`: a configuration's namespaces, with `AddNs`, `RemoveNs` and `ContainsNs` (the library has Remove and Contains of its own). |
| `Rootfs` | pivotRoot, chroot, readonlyPath in several containers | `tree`, `prop`: each container's copy of the host's mounts and its propagation; `oldRoot`: where the old root is mounted. |
| `ProcessStart` | NewInitProcess's clone flags, the constructor of nsenter, `init`, StartInitialization | One process starts per behaviour, on the host or as a container's init. `pc`: constructor, `open`, `setns`, Go; `at`: the loop over `namespaces`; `fd`: whose `/proc/<pid>/ns` the descriptor is of. `holder`, `inside`: who has the number `docker_pid` on the host and in each container's `/proc`, changed by `Environment` between any two calls. `launcher`: which program cloned a container, and so which namespaces it has of its own. |
| `CgroupUtils` | `remove` over `os.RemoveAll` | `tries`: the code's counter; `listed`, `opened`: the directories RemoveAll has found and searched. `Open`, `Rmdir`, `Rmpath`, `Gone` are its system calls; `Enter`, `Leave`, `Create`, `Delete` are other processes. |
| `CgroupPath` | `cleanPath`, `filepath.Clean`, the walk of `ensureParent` | A path is whether it is absolute and its components; `Stack` is Clean's loop over them, and `Reduced` the reference it is compared with. `current`: the argument of ensureParent; `below`: the calls it returns to. `Cpuset` takes up where the walk has reached the mount point: its groups are below it. |
| `Devices` | DevicePermissions | A string is the sequence of its characters; `perm` is operated on again and again, `ideal` (ghost) is the set it should stand for. |

`MC...` modules give each of them a small instance. `...Proofs` modules hold the
theorems.

`MCUtils` takes the four small ones (CgroupUtils, CgroupPath, Devices, Namespaces) together; `helper` says which of them a
behaviour runs, and the variables of the others stand still.

External parts, each marked in "map": the kernel's rules for memory writes
(`Verdicts`, `Accept`; a populated group may answer EBUSY to any finite limit,
since it may use more than can be reclaimed), for cpusets (`Accepts`), the relation of the cpuacct
counters (user and system add up to usage at any moment, and only grow),
mount propagation, and `os.RemoveAll` with the kernel's rmdir of a cgroup. A host
whose root is mounted shared is assumed, as systemd sets it up and as the comment at `rootfs.go:50` takes for granted;
`readonlyPath`'s bind mount is taken to inherit the flags of what it covers.

## Runs

`PROJECT.json` describes each run in a sentence. All bounds are in the `.cfg`
and the `MC` module.

| Run | Instance | Shows |
|---|---|---|
| `mem_race` | two processes, two requests (limit and swap, or a limit alone; kernel memory of -1 or 5), OptionalSwap and two modules to ignore, with and without memsw files, the hierarchy mounted before or after NewMemory, tasks that may join, symmetric | what a nil return means under interleaving and death; EINVAL only for a real raise; no EBUSY halfway for want of kernel-memory accounting; what a Stat may report while others write |
| `mem_raise` (violation) | one process, eight requests | Update's reordering does not do what its comment says |
| `cpuset_race` | two processes, `a` and `a/b` | groups are never left empty behind a nil return, and none is ever emptied |
| `cpuset_copy` (violation) | the same | a copy may overwrite a value |
| `cgroup_race` | two processes, two requests, pids and cpu, one of which is mounted and unmounted, symmetric | complete or an ordered prefix, where no hierarchy came or went under the call |
| `stats_race` | two processors, three kernel events, word of 24 | what torn reads still guarantee |
| `factory_race` | two processes at a time, five ids for three directories | a late call gets no container, a refusal has a reason, and the factory implements the registry |
| `factory_distinct` (violation) | the same | one id, two containers |
| `rootfs_race` | two containers, two mounts, two layers | the host is safe, success means jailed |
| `start_race` | two containers and the host, every environment of the three variables | which namespaces a command gets |
| `utils` | four groups; paths of up to five components below two mount points; strings of up to four characters; two goroutines, a known and two unknown types | nil from `remove` means gone, and it returns; no path leads out; permissions are sets; mutual exclusion, agreement, the list of namespaces is a map, every call returns |
| `device_valid` (violation) | the same strings | IsValid rejects strings of r, w and m in another order |

Why the bounds are enough. Each hazard is a conflict of two actors over one
object, so two suffice; requests are chosen so that every branch of the code is
taken (each setting present and absent, -1, a raise above the memsw limit, a
kernel limit with and without a value, between `mem_race` and the eight
requests of `mem_raise`). Ids include another spelling of one id,
a nested id, one that leads to the root, and the empty one, which is all that
SecureJoin can do to a path. In `stats_race` three events place one change between any two reads;
the word of 24 makes the third tick overflow, as 2^64 would after some
5.8 years of processor time, and the property says up to where it must not matter.
Two layers are two calls of `readonlyPath` on one path. In `start_race` two
containers are enough for the number to pass from one to the other and for the
process to be a third. The groups of `utils` have a sibling and a grandchild;
five components hold a name, a dot and as many `..` as climb out again; four
characters hold every permission and one more, unknown or repeated. No action is
disabled by a bound except kernel events (`MaxEvents`) and repeated read-only
mounts (`MaxLayers`); the count of grants stops at two (`Cap`) and the grant
itself goes on.

`start_race` and `utils` do not check deadlock: a process that has run its
command, or returned from `init`, is at its end, and so is a path that has been
made.

Symmetry (over processes, processors, containers, mounts) is used in runs
without liveness properties only.

Fairness. `Namespaces!FairSpec` has weak fairness of each goroutine's steps and
strong fairness of `Lock`: a goroutine that can run goes on, and `sync.Mutex`
hands itself over to a waiter that has lost for a millisecond (its starvation
mode). `CgroupUtils!RemoveSpec` has weak fairness of the caller's steps: it waits for
nothing but a sleep, which ends. No fairness is assumed of calls, failures,
deaths, other processes or the kernel, so `RemoveReturns` holds although tasks
may enter the group for ever.

Each passing property has a mutant in `PROJECT.json`: a plausible bug, defined
next to the definition it replaces, that makes TLC find the property violated.

## Proofs

TLAPS proves these for every value of the constants, under the ASSUMEs of the
modules (which TLC evaluates on each instance): requests are numbers or a mark,
names of files are distinct, a set of groups holds the parents of its groups
(Cpuset), boot values and bounds are naturals (GroupStats), and the like. Every
safety invariant and action property that a passing run checks is proved.

- `MemoryControllerProofs`: `Typing`, `Inductive`, `Success`
  (`AppliedOnSuccess`), `Accounted` (`KernelAccounted`), `HalfwayBusy`
  (`HalfwayBusyIsUsage`). `AppliedOnSuccess` says nothing of calls under way, so
  it is not inductive; `CallInv` adds where each label may occur (`Control`), that
  the probe is done when `set` begins (`Probed`), and that the settings the loop has
  passed are in the files unless another process wrote them since (`Applied`). The
  step over a write uses `OrderFacts`: both orders of the seven settings list each
  exactly once. `LimitBelowSwap`: the rule the kernel applies to each write keeps
  every group's limit at or below its memsw limit. `Refusal`
  (`RefusedOnlyWhenRaising`) looks at the step that gets EINVAL: a limit that this
  call has written itself is in the file, unless others wrote it since. `Stat`
  (`StatExact`) and `StatTorn` (`TornOnlyIfBothWritten`) add `StatInv`: what `Stat`
  has read is what the files hold while nobody writes them (`Reading`); by
  `LimitBelowSwap`, the limit it has read stays below memsw until somebody writes
  memsw (`Below`), and a torn pair needs writes of both (`Torn`).
- `CpusetProofs`: `Filled` (`PopulatedOnSuccess`), `Asked` (`ExplicitOnSuccess`),
  `TasksKeepCpus` (the action property `NeverEmptied`), for any hierarchy. A group is filled only if its
  parent was, so the argument is an induction along the path that the walk itself
  makes: the mount point holds what is online (`RootFull`), and every level the
  walk has left is filled (`Walking`, `FilledTo`). Between the read of a group's
  file and the write of its parent's value others may write both: `Copying` says
  that a value read as not empty is still not empty, since no Create writes an
  empty one, and that the copy is made only of a value that is not empty itself,
  which is also all that `TasksKeepCpus` needs.
  `Written` does for the values asked for what `Applied` does above.
- `CgroupProofs`, of creation: `Typing`, `Success` (`CompleteOnSuccess`), `Prefix`
  (`PrefixInOrder`). The properties speak of what is left when a call ends;
  `CallInv` adds what holds inside: the subsystems found occur once each, in the
  order of the defaults (`Found`), those before the current one are configured, and
  of the current one the files before the next (`Progress`), each unless its
  hierarchy was mounted or unmounted since the call began (`moved`). That no subsystem occurs twice is needed for `PrefixInOrder`:
  otherwise its later place would count as begun before those in between are
  complete. `FilesType` shows for every request that what a Create writes are files
  of the group, and `StaysConfigured` that a subsystem once configured stays so
  while others write, fail and die.
- `CgroupProofs`, of `remove`: `Removal` (`RemovedOrBlocked`), by `Tried`: all tries
  before the current one were disturbed; and `Searched`: a try that has not been
  disturbed has listed every group whose parent it has opened. When it meets a
  group it cannot remove, that group has a child it has not searched or a task,
  and both disturbed it; so only five disturbed tries end in an error.
- `CgroupProofs`, of paths: `CleanBelow` (`PathStaysBelow`) and `ParentsMade`
  (`MadeBelowRoot`), for paths of any length. What a path leads to is stated
  without `filepath.Clean`: `Reduced` keeps the names of which no stretch after
  them has more `..` than names. The lemmas carry this along the fold over the
  components (`StackIsReduced`), show that a relative path only puts some `..` in
  front of the same names (`RelativeStack`), which vanish when it is made absolute
  (`UpsVanish`), and so what `cleanPath` returns for every path
  (`CleanPathClears`). The walk needs `PathInv`: the calls left are for the
  ancestors between here and the path (`Nested`), none of the ancestors passed on
  the way up is a child of the mount point (`Climbing`), and on the way down what
  was made lies between the mount point and here (`Descending`).
- `GroupStatsProofs`: `Typing`, `NothingOnError` (`AllOrNothing`), `Throttled`
  (`ThrottledBounded`), `Fresh` (`MemoryFresh`). The invariant says where each
  Stat may be and that nothing is reported before its last file is read
  (`Place`), and that throttled periods reported earlier are part of those there
  are now (`Counted`), which is why a short read that leaves them is harmless.
  `Snapshot` (`SnapshotOrdered`) and `Monotone` (the action property `UsageGrows`)
  compare three sums over the processors that are read at three moments. The
  lemmas on sums go by a least counterexample; `ReadsBound` then orders the
  locals (user and kernel time as read are at most the total read after them, and
  this at most what the processors have used now), and `ReportBound` the value
  reported, each only while the ticks fit the word.
- `ContainerFactoryProofs`, for any number of overlapping calls: `Typing`,
  `LateCall`
  (`LateCallGetsNone`), `Distinct` (`DistinctUnlessRivals`), `Refusal` (`RefusalHasReason`)
  and `Refinement`: every step of the factory is a step of `ContainerRegistry` or
  a stutter. The invariant `RivalInv` says that a call past its Stat either has a
  directory nobody was granted, or has met a rival for it, and so has everyone
  who was granted it; `RefusalInv` that a directory a call may be refused for
  exists already, or is made by a call that it overlaps, by one that fails halfway
  too (`MkdirWithin`: however far MkdirAll gets, it makes parents only).
- `ConfigsProofs`, of namespaces: `Exclusion`, `Agreement`, by the invariant
  `Remembered`: a known type has been answered only if the answer is remembered.
  `IsMap`, by two lemmas about the operators (`AddedIsMap`, `RemovedIsMap`): on any
  list without repeated types, Add and Remove change what it says of one type
  only.
- `ConfigsProofs`, of device permissions: `Operations` (`SetOperations`), and
  `Valid`, which says exactly what strings IsValid accepts (the run `device_valid`
  shows what it rejects), for strings over any characters and of any length.
  `FromSetLists` shows that the string of a set lists that set in order;
  `InOrderIsCanonical` that no other string in order does, by its length, which is
  at most three.
- `RootfsProofs`: `HostSafe`, `Unpinned`. The invariant `Slaved` says that a
  process about to change the propagation stands in the old root, and that one
  about to unmount has made it a slave: the unmount then stays in its copy.
  `Jail` (`NoWayBack`) and `Readonly` (`ReadonlyOnSuccess`), by `CallInv`, of each
  process: `Within` says which call a label belongs to, `Jailed` that the root is
  the new one from `pivot_root` on and the old one off before the last chdir,
  `Layered` that a mount put on a path takes the flags of those below it.
- `ProcessStartProofs`: `FromTarget` (`JoinedFromTarget`), `Inside`
  (`CommandInside`). The invariant
  `Looking` says that while `docker_pid` is looked up the mount namespace is still
  the process's own, so that its `/proc` is the one it started with; `Entered`
  that after `at - 1` rounds without a failure the first `at - 1` kinds are the
  target's.

The proofs have no induction principle to cite, because those of the library take
an operator as a parameter. Where a fact about every path or every set of
processors needs induction, it is made of sets instead: `NatSet` (a set of
naturals with 0 and the successor of each of its members is all of them) follows
from the well-foundedness of `<`, and the fact becomes the set of the numbers it
holds for.

Only model-checked: liveness (`CallsReturn`, `RemoveReturns`), which is beyond
TLAPS; and false of the code are the four properties that runs find violated.

## Where the code and its documents differ

Found by runs (see "findings" for the quotations):

- `mem_raise`: `memory.go:118` swaps the limit with the soft limit, not with
  memsw, so raising both above the old memsw limit gets EINVAL.
- `cpuset_copy`: `cpuset.go:136` writes what was read earlier; a value another
  process has set meanwhile is overwritten.
- `factory_distinct`: between `factory.go:109` and `114` two calls both find the
  directory missing, and both get a container for the one id.
- `device_valid`: `IsValid` (`devices.go:99-101`) rejects `"wr"`, although its comment
  promises any subset of r, w and m.

Noticed while modelling, and part of the models, but without a run of their own:

- OptionalSwap (`memory.go:55-61`) only makes Stat pass over memsw, against "allows
  the memory controller to not fail" (`memory.go:53-54`); a request with Swap is
  written all the same, and fails after the limits before it.
- `cgroup.go:47` looks at a directory, and not at what is mounted there: made before
  the mount, or left by an unmount, it gets a group of plain files that limit
  nothing. `Existing` and `Remount` of Cgroup have this.
- After a failed Chown (`factory.go:118`), or MkdirAll, what was made stays, against
  `factory.go:33`, and the id is refused from then on.
- For an id in use Create returns `nil, nil` (`factory.go:109-110` returns the nil
  `err` of Stat), where `factory.go:28` lists IdInUse, and `utils.go:114` calls
  `Run` on the nil interface: outcome "panic" of ContainerFactory, whose reasons
  `RefusalHasReason` gives.
- Load never looks at the file system (`factory.go:150`), against `factory.go:39`.
  Create also accepts ids that `factory.go:19-20` excludes.
- `main.go` registers only the `init` command, so that `run` cannot be reached from
  the command line yet; and since `run` takes exactly one argument,
  `Args().Tail()` is always empty.
- `cpu.go:123` and `cpuacct.go:63` dereference `stats.CPU` without the "get or
  create" that `cpu.go:107` announces; GroupStats has the panic as an outcome.
- `sc.Err()` is asked inside the scan loops (`cpu.go:110`, `memory.go:234`,
  `utils.go:40`, `159`, `190`), where it is always nil; a read error ends the
  loop and counts as the end of the file. GroupStats models this.
- memory's Stat has replaced `stats.Memory` when it fails later (`memory.go:130`);
  `MemoryFresh` says what the caller may still rely on.
- An Update of pids with a limit of 0 or less changes nothing (`pids.go:49`),
  against "set <= 0 to disable limit" (`configs/cgroup.go:74`).
- `remove` says that it handles EAGAIN and EBUSY (`utils.go:92-93`) and tries
  again after any error; a task that enters during each of the five tries is
  enough for an error, but a quiet try never fails.
- `createIfNotExists` (`rootfs.go`) returns nil when Stat fails for any reason
  but a missing file. `nsenter.go:38` ignores a failed open or setns and runs the command
  nevertheless; `JoinedFromTarget` says what still holds then.
- When pivotRoot fails after `pivot_root`, the process stands in the old root,
  stacked on the new one; `Rootfs` therefore has no retry in that process.

## What is not modelled

Commented-out code (systemd, blkio, standard and setns init, most of the command
line) and code that nothing calls and that only parses or formats:
`getCgroupDestination`, `parseCgroupFile`, `writeEventFD`, the predicates of
DeviceType and CgroupString, `createIfNotExists`. (`remove` has no caller either,
but is modelled, because its retries are where such code goes wrong.) Formats: the
text of mountinfo, of `/proc` files, of ids. In GroupStats, `throttled_time`
(treated as `nr_throttled` is), all memory counters but two and the value of
pids.current; in MemoryController, the three files of each module besides
`limit_in_bytes` (and `populated` stands for tasks and for children alike,
`memory.go:87-88`). In ProcessStart, the length of `docker_pid` (`nsenter.go:32-35`
prints it into a buffer unchecked; here it is one number), the steps within
StartInitialization (nobody else sees between them), the status of the command and the pipe's other
end, which no code reads. In Rootfs, the kernel's refusal of a
`pivot_root` from a shared parent, which leaves behaviours in the model that it
excludes. Deletion of groups outside GroupStats and CgroupUtils,
since no other code deletes one.

## Plan

Done: the modules above, in the order of the table, and the eight modules of
proofs.

Next, in this order:

1. An abstract specification of a group (settings applied in some order, or an
   error) that MemoryController and Cgroup implement, as ContainerRegistry is for
   the factory.
2. When the code grows: the parent's side of the init pipe, once `run` starts a
   process, composed with ProcessStart; Destroy of a container over `remove`.
