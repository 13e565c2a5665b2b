------------------------------- MODULE Rootfs -------------------------------
(***************************************************************************)
(* src/container/rootfs.go.  pivotRoot, chroot and readonlyPath, run by    *)
(* the init processes of several containers, each in a copy of the host's  *)
(* mount tree (CLONE_NEWNS, process.go) that starts out shared with it.    *)
(* Every system call may fail.  "old" is the host's root as a container    *)
(* sees it, "new" its rootfs.                                              *)
(***************************************************************************)
EXTENDS Naturals, Sequences

CONSTANTS
  Containers,
  Mounts,     \* mounts below the host's root, on parents that are shared
  MaxLayers   \* bound: the bind mounts readonlyPath piles up on its path

VARIABLES
  host, own,    \* what the host has mounted; ghost: what it did not unmount
  tree, prop,   \* each container's copy of them, and its propagation type
  oldRoot,      \* where "old" is: "at /", "stacked" on "new", "detached"
  root, cwd,    \* the root and working directory of each init process
  fds,          \* its descriptors on the two roots
  layers,       \* the path of readonlyPath: one BOOLEAN, read only, a mount
  pc, op, result

hosts == <<host, own>>
space == <<tree, prop, oldRoot>>
place == <<root, cwd>>
vars  == <<hosts, space, place, fds, layers, pc, op, result>>

ASSUME MaxLayersAssumption == MaxLayers \in Nat

Roots == {"old", "new"}
Ops == {"pivotRoot", "chroot", "readonlyPath"}
Entry == [pivotRoot |-> "openOld", chroot |-> "chroot", readonlyPath |-> "bind"]

-----------------------------------------------------------------------------
Init ==
  /\ host = Mounts /\ own = Mounts
  /\ tree = [c \in Containers |-> {}]
  /\ prop = [c \in Containers |-> "shared"]
  /\ oldRoot = [c \in Containers |-> "detached"]
  /\ root = [c \in Containers |-> "old"]
  /\ cwd = [c \in Containers |-> "old"]
  /\ fds = [c \in Containers |-> {}]
  /\ layers = [c \in Containers |-> <<>>]
  /\ pc = [c \in Containers |-> "unborn"]
  /\ op = [c \in Containers |-> "none"]
  /\ result = [c \in Containers |-> "none"]

\* The clone of the init process, with its own copy of the mount tree.  One
\* that will call chroot is in the rootfs already: chroot takes ".".
Clone(c, dir) ==
  /\ pc[c] = "unborn"
  /\ pc' = [pc EXCEPT ![c] = "idle"]
  /\ tree' = [tree EXCEPT ![c] = host]
  /\ oldRoot' = [oldRoot EXCEPT ![c] = "at /"]
  /\ cwd' = [cwd EXCEPT ![c] = dir]
  /\ UNCHANGED <<hosts, prop, root, fds, layers, op, result>>

\* The rootfs is set up once, before any path is made read only; a process in
\* which that failed is not used to try again.
Call(c, o) ==
  /\ pc[c] = "idle"
  /\ CASE o = "pivotRoot"    -> op[c] = "none" /\ cwd[c] = "old"
       [] o = "chroot"       -> op[c] = "none" /\ cwd[c] = "new"
       [] o = "readonlyPath" -> Len(layers[c]) < MaxLayers /\ op[c] # "none"
  /\ pc' = [pc EXCEPT ![c] = Entry[o]]
  /\ op' = [op EXCEPT ![c] = o]
  /\ result' = [result EXCEPT ![c] = "none"]
  /\ UNCHANGED <<hosts, space, place, fds, layers>>

\* Mutant: the deferred Close is missing.
ReturnOpen(c, r) ==
  /\ pc' = [pc EXCEPT ![c] = "idle"]
  /\ result' = [result EXCEPT ![c] = r]
  /\ UNCHANGED <<hosts, op, fds>>

\* The deferred Closes run on the way out.
Return(c, r) ==
  /\ pc' = [pc EXCEPT ![c] = "idle"]
  /\ result' = [result EXCEPT ![c] = r]
  /\ fds' = [fds EXCEPT ![c] = {}]
  /\ UNCHANGED <<hosts, op>>

Fail(c) == Return(c, "error") /\ UNCHANGED <<space, place, layers>>

Goto(c, l) ==
  /\ pc' = [pc EXCEPT ![c] = l]
  /\ UNCHANGED <<op, result, layers>>

(***************************************************************************)
(* pivotRoot.                                                              *)
(***************************************************************************)
Open(c, from, r, to) ==
  /\ pc[c] = from
  /\ \/ /\ fds' = [fds EXCEPT ![c] = @ \cup {r}]
        /\ Goto(c, to) /\ UNCHANGED <<hosts, space, place>>
     \/ Fail(c)

OpenOld(c) == Open(c, "openOld", "old", "openNew")
OpenNew(c) == Open(c, "openNew", "new", "fchdirNew")

Fchdir(c, from, r, to) ==
  /\ pc[c] = from
  /\ \/ /\ cwd' = [cwd EXCEPT ![c] = r]
        /\ Goto(c, to) /\ UNCHANGED <<hosts, space, root, fds>>
     \/ Fail(c)

FchdirNew(c) == Fchdir(c, "fchdirNew", "new", "pivot")

\* pivot_root(".", "."): "old" ends up on top of "new", and the kernel does not
\* promise which of them "." is afterwards.
PivotRoot(c) ==
  /\ pc[c] = "pivot"
  /\ \/ /\ root' = [root EXCEPT ![c] = "new"]
        /\ oldRoot' = [oldRoot EXCEPT ![c] = "stacked"]
        /\ \E d \in Roots : cwd' = [cwd EXCEPT ![c] = d]
        /\ Goto(c, "fchdirOld") /\ UNCHANGED <<hosts, tree, prop, fds>>
     \/ Fail(c)

\* Mutant: the process stays where pivot_root left it.
FchdirOldSkipped(c) ==
  /\ pc[c] = "fchdirOld"
  /\ Goto(c, "slave") /\ UNCHANGED <<hosts, space, place, fds>>
FchdirOld(c) == Fchdir(c, "fchdirOld", "old", "slave")

\* Mutant: another flag makes "." private.
NewPropPrivate(c) == IF cwd[c] = "old" THEN "private" ELSE prop[c]
NewProp(c) == IF cwd[c] = "old" THEN "slave" ELSE prop[c]

MakeSlave(c) ==
  /\ pc[c] = "slave"
  /\ \/ /\ prop' = [prop EXCEPT ![c] = NewProp(c)]
        /\ Goto(c, "unmount")
        /\ UNCHANGED <<hosts, tree, oldRoot, place, fds>>
     \/ Fail(c)

\* The copies that follow the host, which are all but the private ones.
Follows(d) == prop[d] # "private"

\* An unmount of S in a copy that is shared reaches the host and every copy
\* that follows it.
UnmountedIn(c, S) ==
  [d \in Containers |->
     IF d = c \/ (prop[c] = "shared" /\ Follows(d)) THEN tree[d] \ S ELSE tree[d]]

Unmount(c) ==
  /\ pc[c] = "unmount"
  /\ \/ /\ tree' = UnmountedIn(c, tree[c])
        /\ host' = IF prop[c] = "shared" THEN host \ tree[c] ELSE host
        /\ oldRoot' = [oldRoot EXCEPT ![c] = "detached"]
        /\ Goto(c, "chdir") /\ UNCHANGED <<own, prop, place, fds>>
     \/ Fail(c)

Chdir(c) ==
  /\ pc[c] = "chdir"
  /\ \/ /\ cwd' = [cwd EXCEPT ![c] = root[c]]
        /\ Return(c, "ok") /\ UNCHANGED <<space, root, layers>>
     \/ Fail(c)

(***************************************************************************)
(* chroot, which shares pivotRoot's last call.                             *)
(***************************************************************************)
Chroot(c) ==
  /\ pc[c] = "chroot"
  /\ \/ /\ root' = [root EXCEPT ![c] = cwd[c]]
        /\ Goto(c, "chdir") /\ UNCHANGED <<hosts, space, cwd, fds>>
     \/ Fail(c)

(***************************************************************************)
(* readonlyPath: a bind mount of the path on itself, which takes its flags *)
(* from what is there, then a remount.  A path that is missing is skipped. *)
(***************************************************************************)
IsReadonly(c) == layers[c] # <<>> /\ layers[c][Len(layers[c])]

Bind(c) ==
  /\ pc[c] = "bind"
  /\ \/ /\ layers' = [layers EXCEPT ![c] = Append(@, IsReadonly(c))]
        /\ pc' = [pc EXCEPT ![c] = "remount"]
        /\ UNCHANGED <<hosts, space, place, fds, op, result>>
     \/ /\ layers[c] = <<>>   \* ENOENT: nothing is mounted on it either
        /\ Return(c, "missing") /\ UNCHANGED <<space, place, layers>>
     \/ Fail(c)

\* Mutant: the error of the second mount is dropped.
RemountUnchecked(c) ==
  /\ pc[c] = "remount"
  /\ \/ layers' = [layers EXCEPT ![c][Len(layers[c])] = TRUE]
     \/ UNCHANGED layers
  /\ Return(c, "ok") /\ UNCHANGED <<space, place>>
Remount(c) ==
  /\ pc[c] = "remount"
  /\ \/ /\ layers' = [layers EXCEPT ![c][Len(layers[c])] = TRUE]
        /\ Return(c, "ok") /\ UNCHANGED <<space, place>>
     \/ Fail(c)

(***************************************************************************)
(* The host mounts and unmounts; the copies that follow it do the same.    *)
(***************************************************************************)
Sees(c) == pc[c] # "unborn" /\ oldRoot[c] # "detached" /\ Follows(c)

HostMount(m) ==
  /\ m \notin host
  /\ host' = host \cup {m} /\ own' = own \cup {m}
  /\ tree' = [c \in Containers |-> IF Sees(c) THEN tree[c] \cup {m} ELSE tree[c]]
  /\ UNCHANGED <<prop, oldRoot, place, fds, layers, pc, op, result>>

HostUnmount(m) ==
  /\ m \in host
  /\ host' = host \ {m} /\ own' = own \ {m}
  /\ tree' = [c \in Containers |-> IF Sees(c) THEN tree[c] \ {m} ELSE tree[c]]
  /\ UNCHANGED <<prop, oldRoot, place, fds, layers, pc, op, result>>

\* The init process dies at any point, and its copy of the tree goes with it,
\* which unmounts nothing elsewhere.
Die(c) ==
  /\ pc[c] # "unborn"
  /\ pc' = [pc EXCEPT ![c] = "unborn"] /\ op' = [op EXCEPT ![c] = "none"]
  /\ result' = [result EXCEPT ![c] = "none"]
  /\ tree' = [tree EXCEPT ![c] = {}] /\ prop' = [prop EXCEPT ![c] = "shared"]
  /\ oldRoot' = [oldRoot EXCEPT ![c] = "detached"]
  /\ root' = [root EXCEPT ![c] = "old"] /\ cwd' = [cwd EXCEPT ![c] = "old"]
  /\ fds' = [fds EXCEPT ![c] = {}] /\ layers' = [layers EXCEPT ![c] = <<>>]
  /\ UNCHANGED hosts

Step(c) ==
  \/ OpenOld(c) \/ OpenNew(c) \/ FchdirNew(c) \/ PivotRoot(c) \/ FchdirOld(c)
  \/ MakeSlave(c) \/ Unmount(c) \/ Chdir(c) \/ Chroot(c) \/ Bind(c) \/ Remount(c)

Next ==
  \/ \E c \in Containers :
       \/ Step(c) \/ Die(c)
       \/ \E dir \in Roots : Clone(c, dir)
       \/ \E o \in Ops : Call(c, o)
  \/ \E m \in Mounts : HostMount(m) \/ HostUnmount(m)

Spec == Init /\ [][Next]_vars

-----------------------------------------------------------------------------
\* No container, at whatever step its pivotRoot succeeds, fails or is still at,
\* takes away a mount of the host (rootfs.go:50-51, "make sure our unmounts
\* don't propagate to the host").
HostKeepsMounts == host = own

\* A container never holds a mount that the host has unmounted: its copy keeps
\* following the host until it is detached, which is why rslave is used and not
\* rprivate (rootfs.go:51-54).
NothingPinned == \A c \in Containers : tree[c] \subseteq host

\* A pivotRoot that returned nil has left the process in its new root with the
\* old one gone, wherever pivot_root left its working directory; and no call,
\* failed ones included, leaves a descriptor through which to reach the old.
NoWayBack ==
  \A c \in Containers :
    /\ pc[c] \in {"unborn", "idle"} => fds[c] = {}
    /\ (op[c] \in {"pivotRoot", "chroot"} /\ result[c] = "ok")
         => root[c] = "new" /\ cwd[c] = "new"
    /\ (op[c] = "pivotRoot" /\ result[c] = "ok")
         => oldRoot[c] = "detached" /\ tree[c] = {}

\* readonlyPath returns nil only if the path is read only now or was missing,
\* and a path once read only stays so whatever later calls fail at.
ReadonlyOnSuccess ==
  \A c \in Containers :
    /\ (op[c] = "readonlyPath" /\ result[c] = "ok") => IsReadonly(c)
    /\ \A i \in 1 .. Len(layers[c]) : layers[c][i] => IsReadonly(c)
=============================================================================
