---------------------------- MODULE RootfsProofs ----------------------------
(***************************************************************************)
(* Proofs about Rootfs, for any number of containers and mounts.           *)
(***************************************************************************)
EXTENDS Rootfs, TLAPS

\* The types the invariants below need.
SpaceType ==
  /\ host \subseteq Mounts
  /\ tree \in [Containers -> SUBSET Mounts]
  /\ prop \in [Containers -> {"shared", "slave"}]
  /\ oldRoot \in [Containers -> {"at /", "stacked", "detached"}]
  /\ root \in [Containers -> Roots] /\ cwd \in [Containers -> Roots]
  /\ pc \in [Containers -> {"unborn", "idle", "openOld", "openNew", "fchdirNew",
                            "pivot", "fchdirOld", "slave", "unmount", "chdir",
                            "chroot", "bind", "remount"}]

\* A process makes "." a slave while it is in the old root, and unmounts it
\* only as a slave; a copy that is not attached is empty.
Slaved ==
  \A c \in Containers :
    /\ pc[c] = "slave" => cwd[c] = "old"
    /\ pc[c] = "unmount" => prop[c] = "slave"
    /\ pc[c] = "unborn" => oldRoot[c] = "detached"
    /\ oldRoot[c] = "detached" => tree[c] = {}

Inv == SpaceType /\ Slaved /\ HostKeepsMounts /\ NothingPinned

LEMMA InitInv == Init => Inv
  BY DEF Init, Inv, SpaceType, Slaved, HostKeepsMounts, NothingPinned, Roots

\* A step of a container that leaves the mounts alone and goes on to a label
\* other than "unmount" keeps the invariant.
LEMMA Elsewhere ==
  ASSUME Inv, NEW c \in Containers, pc[c] # "unborn",
         UNCHANGED <<hosts, space>>,
         root' \in [Containers -> Roots], cwd' \in [Containers -> Roots],
         \A d \in Containers \ {c} : cwd'[d] = cwd[d],
         NEW l \in {"idle", "openOld", "openNew", "fchdirNew", "pivot",
                    "fchdirOld", "slave", "chdir", "chroot", "bind", "remount"},
         pc' = [pc EXCEPT ![c] = l],
         l = "slave" => cwd'[c] = "old"
  PROVE  Inv'
<1> USE DEF Inv
<1>1. SpaceType'
  BY DEF SpaceType, hosts, space
<1>2. Slaved'
  BY DEF SpaceType, Slaved, space
<1>3. HostKeepsMounts' /\ NothingPinned'
  BY DEF HostKeepsMounts, NothingPinned, hosts, space
<1> QED BY <1>1, <1>2, <1>3

LEMMA FailKeeps ==
  ASSUME Inv, NEW c \in Containers, pc[c] # "unborn", Fail(c)
  PROVE  Inv'
<1>1. /\ UNCHANGED <<hosts, space, root, cwd>>
      /\ pc' = [pc EXCEPT ![c] = "idle"]
  BY DEF Fail, Return, place
<1>2. root' \in [Containers -> Roots] /\ cwd' \in [Containers -> Roots]
  BY <1>1 DEF Inv, SpaceType
<1> QED BY <1>1, <1>2, Elsewhere

\* The two opens of pivotRoot.
LEMMA OpenKeeps ==
  ASSUME Inv, NEW c \in Containers, OpenOld(c) \/ OpenNew(c)
  PROVE  Inv'
<1>1. pc[c] # "unborn"
  BY DEF OpenOld, OpenNew, Open
<1>2. CASE ~Fail(c)
  <2>1. UNCHANGED <<hosts, space, root, cwd>>
    BY <1>2 DEF OpenOld, OpenNew, Open, place
  <2>2. PICK l \in {"openNew", "fchdirNew"} : pc' = [pc EXCEPT ![c] = l]
    BY <1>2 DEF OpenOld, OpenNew, Open, Goto
  <2>3. root' \in [Containers -> Roots] /\ cwd' \in [Containers -> Roots]
    BY <2>1 DEF Inv, SpaceType
  <2> QED BY <1>1, <2>1, <2>2, <2>3, Elsewhere
<1> QED BY <1>1, <1>2, FailKeeps

\* The steps that change where the process is, and no mount.
LEMMA MoveKeeps ==
  ASSUME Inv, NEW c \in Containers,
         FchdirNew(c) \/ FchdirOld(c) \/ Chdir(c) \/ Chroot(c)
  PROVE  Inv'
<1>1. pc[c] # "unborn"
  BY DEF FchdirNew, FchdirOld, Fchdir, Chdir, Chroot
<1>2. CASE ~Fail(c)
  <2>0. root \in [Containers -> Roots] /\ cwd \in [Containers -> Roots]
    BY DEF Inv, SpaceType
  <2>1. UNCHANGED <<hosts, space>>
    BY <1>2 DEF FchdirNew, FchdirOld, Fchdir, Chdir, Chroot, Return
  <2>2. PICK l \in {"pivot", "slave", "idle", "chdir"}, r \in Roots :
          /\ pc' = [pc EXCEPT ![c] = l]
          /\ cwd' = [cwd EXCEPT ![c] = r]
          /\ l = "slave" => r = "old"
    <3>1. CASE FchdirNew(c)
      <4>1. pc' = [pc EXCEPT ![c] = "pivot"] /\ cwd' = [cwd EXCEPT ![c] = "new"]
        BY <1>2, <3>1 DEF FchdirNew, Fchdir, Goto
      <4> QED BY <4>1 DEF Roots
    <3>2. CASE FchdirOld(c)
      <4>1. pc' = [pc EXCEPT ![c] = "slave"] /\ cwd' = [cwd EXCEPT ![c] = "old"]
        BY <1>2, <3>2 DEF FchdirOld, Fchdir, Goto
      <4> QED BY <4>1 DEF Roots
    <3>3. CASE Chdir(c)
      <4>1. pc' = [pc EXCEPT ![c] = "idle"] /\ cwd' = [cwd EXCEPT ![c] = root[c]]
        BY <1>2, <3>3 DEF Chdir, Return
      <4> QED BY <2>0, <4>1 DEF Roots
    <3>4. CASE Chroot(c)
      <4>1. pc' = [pc EXCEPT ![c] = "chdir"] /\ cwd' = [cwd EXCEPT ![c] = cwd[c]]
        BY <1>2, <2>0, <3>4 DEF Chroot, Goto
      <4> QED BY <2>0, <4>1 DEF Roots
    <3> QED BY <3>1, <3>2, <3>3, <3>4
  <2>3. root' \in [Containers -> Roots]
    BY <1>2, <2>0 DEF FchdirNew, FchdirOld, Fchdir, Chdir, Chroot
  <2>4. cwd' \in [Containers -> Roots] /\ \A d \in Containers \ {c} : cwd'[d] = cwd[d]
    BY <2>0, <2>2
  <2> QED BY <1>1, <2>0, <2>1, <2>2, <2>3, <2>4, Elsewhere
<1> QED BY <1>1, <1>2, FailKeeps

\* readonlyPath moves nothing at all.
LEMMA PathKeeps ==
  ASSUME Inv, NEW c \in Containers, Bind(c) \/ Remount(c)
  PROVE  Inv'
<1>1. pc[c] # "unborn" /\ UNCHANGED <<hosts, space, root, cwd>>
  BY DEF Bind, Remount, Fail, Return, place
<1>2. PICK l \in {"idle", "remount"} : pc' = [pc EXCEPT ![c] = l]
  BY DEF Bind, Remount, Fail, Return
<1>3. root' \in [Containers -> Roots] /\ cwd' \in [Containers -> Roots]
  BY <1>1 DEF Inv, SpaceType
<1> QED BY <1>1, <1>2, <1>3, Elsewhere

\* pivot_root moves the old root, whose mounts stay.
LEMMA PivotKeeps ==
  ASSUME Inv, NEW c \in Containers, PivotRoot(c)
  PROVE  Inv'
<1>1. CASE Fail(c)
  BY <1>1, FailKeeps DEF PivotRoot
<1>2. CASE ~Fail(c)
  <2>1. /\ UNCHANGED <<host, own, tree, prop>>
        /\ root' = [root EXCEPT ![c] = "new"]
        /\ oldRoot' = [oldRoot EXCEPT ![c] = "stacked"]
        /\ pc' = [pc EXCEPT ![c] = "fchdirOld"]
        /\ \E d \in Roots : cwd' = [cwd EXCEPT ![c] = d]
    BY <1>2 DEF PivotRoot, Goto, hosts
  <2>2. SpaceType'
    BY <2>1 DEF Inv, SpaceType, Roots
  <2>3. Slaved'
    BY <2>1 DEF Inv, SpaceType, Slaved
  <2>4. HostKeepsMounts' /\ NothingPinned'
    BY <2>1 DEF Inv, HostKeepsMounts, NothingPinned
  <2> QED BY <2>2, <2>3, <2>4 DEF Inv
<1> QED BY <1>1, <1>2

\* In the old root the propagation becomes slave.
LEMMA SlaveKeeps ==
  ASSUME Inv, NEW c \in Containers, MakeSlave(c)
  PROVE  Inv'
<1>1. CASE Fail(c)
  BY <1>1, FailKeeps DEF MakeSlave
<1>2. CASE ~Fail(c)
  <2>1. /\ UNCHANGED <<host, own, tree, oldRoot, root, cwd>>
        /\ prop' = [prop EXCEPT ![c] = "slave"]
        /\ pc' = [pc EXCEPT ![c] = "unmount"]
    BY <1>2 DEF MakeSlave, NewProp, Goto, hosts, place, Inv, Slaved
  <2>2. SpaceType'
    BY <2>1 DEF Inv, SpaceType
  <2>3. Slaved'
    BY <2>1 DEF Inv, SpaceType, Slaved
  <2>4. HostKeepsMounts' /\ NothingPinned'
    BY <2>1 DEF Inv, HostKeepsMounts, NothingPinned
  <2> QED BY <2>2, <2>3, <2>4 DEF Inv
<1> QED BY <1>1, <1>2

\* The unmount of a slave takes the mounts of this container's copy only.
LEMMA UnmountKeeps ==
  ASSUME Inv, NEW c \in Containers, Unmount(c)
  PROVE  Inv'
<1>1. CASE Fail(c)
  BY <1>1, FailKeeps DEF Unmount
<1>2. CASE ~Fail(c)
  <2>1. prop[c] = "slave"
    BY DEF Unmount, Fail, Inv, Slaved
  <2>2. /\ UNCHANGED <<host, own, prop, root, cwd>>
        /\ tree' = [d \in Containers |-> IF d = c THEN {} ELSE tree[d]]
        /\ oldRoot' = [oldRoot EXCEPT ![c] = "detached"]
        /\ pc' = [pc EXCEPT ![c] = "chdir"]
    <3>1. tree' = UnmountedIn(c, tree[c])
      BY <1>2 DEF Unmount
    <3>2. \A d \in Containers : tree'[d] = IF d = c THEN {} ELSE tree[d]
      BY <2>1, <3>1 DEF UnmountedIn
    <3> QED BY <1>2, <2>1, <3>1, <3>2 DEF Unmount, UnmountedIn, Goto, place
  <2>3. SpaceType'
    BY <2>2 DEF Inv, SpaceType
  <2>4. Slaved'
    BY <2>2 DEF Inv, SpaceType, Slaved
  <2>5. HostKeepsMounts' /\ NothingPinned'
    BY <2>2 DEF Inv, HostKeepsMounts, NothingPinned
  <2> QED BY <2>3, <2>4, <2>5 DEF Inv
<1> QED BY <1>1, <1>2

\* A copy starts out as the host's mounts and ends empty.
LEMMA LifeKeeps ==
  ASSUME Inv, NEW c \in Containers,
         Die(c) \/ (\E dir \in Roots : Clone(c, dir))
  PROVE  Inv'
<1>1. CASE Die(c)
  <2>1. SpaceType'
    BY <1>1 DEF Die, hosts, Inv, SpaceType, Roots
  <2>2. Slaved'
    BY <1>1 DEF Die, hosts, Inv, SpaceType, Slaved
  <2>3. HostKeepsMounts' /\ NothingPinned'
    BY <1>1 DEF Die, hosts, Inv, SpaceType, HostKeepsMounts, NothingPinned
  <2> QED BY <2>1, <2>2, <2>3 DEF Inv
<1>2. ASSUME NEW dir \in Roots, Clone(c, dir) PROVE Inv'
  <2>1. SpaceType'
    BY <1>2 DEF Clone, hosts, Inv, SpaceType
  <2>2. Slaved'
    BY <1>2 DEF Clone, hosts, Inv, SpaceType, Slaved
  <2>3. HostKeepsMounts' /\ NothingPinned'
    BY <1>2 DEF Clone, hosts, Inv, SpaceType, HostKeepsMounts, NothingPinned
  <2> QED BY <2>1, <2>2, <2>3 DEF Inv
<1> QED BY <1>1, <1>2

\* What the host does reaches every copy that is attached, as none is private.
LEMMA HostKeeps ==
  ASSUME Inv, NEW m \in Mounts, HostMount(m) \/ HostUnmount(m)
  PROVE  Inv'
<1>1. UNCHANGED <<prop, oldRoot, root, cwd, pc>>
  BY DEF HostMount, HostUnmount, place
<1>2. \A c \in Containers : Sees(c) \/ (~Sees(c) /\ tree[c] = {})
  BY DEF Sees, Follows, Inv, SpaceType, Slaved
<1>3. /\ host' \subseteq Mounts /\ host' = own'
      /\ tree' \in [Containers -> SUBSET Mounts]
      /\ \A c \in Containers : tree'[c] \subseteq host' /\ (~Sees(c) => tree'[c] = {})
  <2>1. CASE HostMount(m)
    BY <1>2, <2>1 DEF HostMount, Inv, SpaceType, HostKeepsMounts, NothingPinned
  <2>2. CASE HostUnmount(m)
    BY <1>2, <2>2 DEF HostUnmount, Inv, SpaceType, HostKeepsMounts, NothingPinned
  <2> QED BY <2>1, <2>2
<1>4. SpaceType'
  BY <1>1, <1>3 DEF Inv, SpaceType
<1>5. Slaved'
  BY <1>1, <1>3 DEF Inv, Slaved, Sees
<1>6. HostKeepsMounts' /\ NothingPinned'
  BY <1>3 DEF HostKeepsMounts, NothingPinned
<1> QED BY <1>4, <1>5, <1>6 DEF Inv

LEMMA CallKeeps ==
  ASSUME Inv, NEW c \in Containers, NEW o \in Ops, Call(c, o)
  PROVE  Inv'
<1>1. UNCHANGED <<hosts, space, root, cwd>> /\ pc[c] # "unborn"
  BY DEF Call, place
<1>2. pc' = [pc EXCEPT ![c] = Entry[o]] /\ Entry[o] \in {"openOld", "chroot", "bind"}
  <2>1. pc' = [pc EXCEPT ![c] = Entry[o]]
    BY DEF Call
  <2>2. Entry[o] \in {"openOld", "chroot", "bind"}
    BY DEF Entry, Ops
  <2> QED BY <2>1, <2>2
<1>3. root' \in [Containers -> Roots] /\ cwd' \in [Containers -> Roots]
  BY <1>1 DEF Inv, SpaceType
<1> QED BY <1>1, <1>2, <1>3, Elsewhere

LEMMA NextInv == Inv /\ [Next]_vars => Inv'
<1> SUFFICES ASSUME Inv, [Next]_vars PROVE Inv'
  OBVIOUS
<1>1. ASSUME NEW c \in Containers, Step(c) PROVE Inv'
  BY <1>1, OpenKeeps, MoveKeeps, PivotKeeps, SlaveKeeps, UnmountKeeps, PathKeeps
     DEF Step
<1>2. ASSUME NEW c \in Containers, NEW o \in Ops, Call(c, o) PROVE Inv'
  BY <1>2, CallKeeps
<1>3. ASSUME NEW c \in Containers,
             Die(c) \/ (\E dir \in Roots : Clone(c, dir))
      PROVE  Inv'
  BY <1>3, LifeKeeps
<1>4. ASSUME NEW m \in Mounts, HostMount(m) \/ HostUnmount(m) PROVE Inv'
  BY <1>4, HostKeeps
<1>5. CASE UNCHANGED vars
  BY <1>5 DEF vars, hosts, space, place, Inv, SpaceType, Slaved, HostKeepsMounts,
              NothingPinned
<1> QED BY <1>1, <1>2, <1>3, <1>4, <1>5 DEF Next

\* Inv holds in every reachable state.
THEOREM Inductive == Spec => []Inv
  BY InitInv, NextInv, PTL DEF Spec

\* However many containers pivot, fail and die, at whatever step, the host
\* keeps every mount that it did not unmount itself.
THEOREM HostSafe == Spec => []HostKeepsMounts
<1>1. Inv => HostKeepsMounts
  BY DEF Inv
<1> QED BY <1>1, Inductive, PTL

\* No container ever holds a mount that the host has unmounted.
THEOREM Unpinned == Spec => []NothingPinned
<1>1. Inv => NothingPinned
  BY DEF Inv
<1> QED BY <1>1, Inductive, PTL

-----------------------------------------------------------------------------
(***************************************************************************)
(* What a call knows of its process, wherever it is.  Only steps of the    *)
(* process itself change any of it.                                        *)
(***************************************************************************)
CallType ==
  /\ op \in [Containers -> Ops \cup {"none"}]
  /\ result \in [Containers -> {"none", "ok", "error", "missing"}]
  /\ fds \in [Containers -> SUBSET Roots]
  /\ layers \in [Containers -> Seq(BOOLEAN)]

\* Which call a label belongs to; a call that goes on has no result.
Within(c) ==
  /\ pc[c] # "idle" => result[c] = "none"
  /\ pc[c] \in {"openOld", "openNew", "fchdirNew", "pivot", "fchdirOld", "slave",
                "unmount"} => op[c] = "pivotRoot"
  /\ pc[c] = "chroot" => op[c] = "chroot"
  /\ pc[c] = "chdir" => op[c] \in {"pivotRoot", "chroot"}
  /\ pc[c] \in {"bind", "remount"} => op[c] = "readonlyPath"

\* Before the last chdir the root is the new one, and after pivotRoot the old
\* one is off; the process calls chroot in its new root.
Jailed(c) ==
  /\ pc[c] \in {"unborn", "idle"} => fds[c] = {}
  /\ pc[c] = "chroot" => cwd[c] = "new"
  /\ pc[c] \in {"fchdirOld", "slave", "unmount", "chdir"} => root[c] = "new"
  /\ (pc[c] = "chdir" /\ op[c] = "pivotRoot") => oldRoot[c] = "detached"
  /\ (op[c] \in {"pivotRoot", "chroot"} /\ result[c] = "ok")
       => root[c] = "new" /\ cwd[c] = "new"
  /\ (op[c] = "pivotRoot" /\ result[c] = "ok") => oldRoot[c] = "detached"

\* There is a mount to remount, and it took the flags of those below it.
Layered(c) ==
  /\ pc[c] = "remount" => layers[c] # <<>>
  /\ (op[c] = "readonlyPath" /\ result[c] = "ok") => IsReadonly(c)
  /\ \A i \in 1 .. Len(layers[c]) : layers[c][i] => IsReadonly(c)

CallInv == CallType /\ \A c \in Containers : Within(c) /\ Jailed(c) /\ Layered(c)

LEMMA CallInit == Init => CallInv
BY DEF Init, CallInv, CallType, Within, Jailed, Layered, IsReadonly, Ops, Roots

\* A process that does not act keeps what it knows.
Unmoved(d) ==
  /\ pc'[d] = pc[d] /\ op'[d] = op[d] /\ result'[d] = result[d] /\ fds'[d] = fds[d]
  /\ layers'[d] = layers[d] /\ root'[d] = root[d] /\ cwd'[d] = cwd[d]
  /\ oldRoot'[d] = oldRoot[d]

LEMMA UnmovedKeeps ==
  ASSUME NEW d \in Containers, Within(d), Jailed(d), Layered(d), Unmoved(d)
  PROVE  Within(d)' /\ Jailed(d)' /\ Layered(d)'
BY DEF Unmoved, Within, Jailed, Layered, IsReadonly

\* So a step of c keeps the invariant if it does so for c.
LEMMA Alone ==
  ASSUME CallInv, CallType', NEW c \in Containers,
         Within(c)', Jailed(c)', Layered(c)',
         \A d \in Containers \ {c} : Unmoved(d)
  PROVE  CallInv'
<1>1. ASSUME NEW d \in Containers, d # c PROVE Within(d)' /\ Jailed(d)' /\ Layered(d)'
  BY <1>1, UnmovedKeeps DEF CallInv
<1> QED BY <1>1 DEF CallInv

\* What Layered says of a path goes on while no layer is added.
LEMMA LayeredKeeps ==
  ASSUME NEW c \in Containers, Layered(c), layers'[c] = layers[c],
         pc'[c] # "remount", result'[c] # "ok" \/ op'[c] # "readonlyPath"
  PROVE  Layered(c)'
BY DEF Layered, IsReadonly

\* A call that fails changes nothing but where its process is.
LEMMA FailStep ==
  ASSUME Inv, CallInv, NEW c \in Containers, Fail(c)
  PROVE  CallInv'
<1>a. /\ Within(c) /\ Jailed(c) /\ Layered(c) /\ CallType
      /\ pc = [d \in Containers |-> pc[d]]
  BY DEF Inv, SpaceType, CallInv
<1>1. /\ UNCHANGED <<root, cwd, oldRoot, op, layers>>
      /\ pc' = [pc EXCEPT ![c] = "idle"]
      /\ result' = [result EXCEPT ![c] = "error"]
      /\ fds' = [fds EXCEPT ![c] = {}]
  BY DEF Fail, Return, space, place
<1>2. /\ pc'[c] = "idle" /\ result'[c] = "error" /\ fds'[c] = {}
      /\ root'[c] = root[c] /\ cwd'[c] = cwd[c] /\ oldRoot'[c] = oldRoot[c]
      /\ op'[c] = op[c] /\ layers'[c] = layers[c]
  BY <1>1, <1>a DEF CallType
<1>3. CallType' /\ \A d \in Containers \ {c} : Unmoved(d)
  BY <1>1, <1>a DEF CallType, Unmoved
<1>4. Within(c)' /\ Jailed(c)'
  BY <1>a, <1>2 DEF Within, Jailed
<1>5. Layered(c)'
  BY <1>a, <1>2, LayeredKeeps
<1> QED BY <1>3, <1>4, <1>5, Alone

\* A step of pivotRoot or chroot, wherever it leads, touches no layer.
LEMMA PlaceStep ==
  ASSUME Inv, CallInv, NEW c \in Containers,
         OpenOld(c) \/ OpenNew(c) \/ FchdirNew(c) \/ PivotRoot(c) \/ FchdirOld(c)
           \/ MakeSlave(c) \/ Unmount(c) \/ Chdir(c) \/ Chroot(c)
  PROVE  CallInv'
<1>0. UNCHANGED <<op, layers>>
  BY DEF OpenOld, OpenNew, Open, FchdirNew, FchdirOld, Fchdir, PivotRoot, MakeSlave,
         Unmount, Chdir, Chroot, Fail, Return, Goto
<1>a. /\ Within(c) /\ Jailed(c) /\ Layered(c) /\ CallType
      /\ pc = [d \in Containers |-> pc[d]]
      /\ oldRoot = [d \in Containers |-> oldRoot[d]]
      /\ root = [d \in Containers |-> root[d]] /\ cwd = [d \in Containers |-> cwd[d]]
  BY DEF Inv, SpaceType, CallInv
<1>1. CASE Fail(c)
  BY <1>1, FailStep
<1>2. ASSUME NEW r \in Roots, NEW l \in {"openNew", "fchdirNew"},
             pc[c] = "openOld" \/ pc[c] = "openNew",
             fds' = [fds EXCEPT ![c] = @ \cup {r}], pc' = [pc EXCEPT ![c] = l],
             UNCHANGED <<root, cwd, oldRoot, result>>
      PROVE  CallInv'
  <2>1. /\ UNCHANGED <<root, cwd, oldRoot, result>>
        /\ pc' = [pc EXCEPT ![c] = l]
        /\ fds' = [fds EXCEPT ![c] = fds[c] \cup {r}]
    BY <1>2
  <2>2. /\ pc'[c] = l /\ fds'[c] = fds[c] \cup {r} /\ root'[c] = root[c]
        /\ cwd'[c] = cwd[c] /\ oldRoot'[c] = oldRoot[c]
        /\ result'[c] = result[c] /\ op'[c] = op[c]
    BY <1>0, <1>a, <2>1 DEF CallType
  <2>3. CallType' /\ \A d \in Containers \ {c} : Unmoved(d)
    BY <1>0, <1>a, <2>1 DEF CallType, Unmoved
  <2>4. Within(c)' /\ Jailed(c)'
    BY <1>2, <1>a, <2>2 DEF Within, Jailed
  <2>5. Layered(c)'
    BY <1>0, <1>2, <1>a, <2>2, LayeredKeeps DEF Within
  <2> QED BY <2>3, <2>4, <2>5, Alone
<1>3. CASE OpenOld(c) \/ OpenNew(c)
  BY <1>1, <1>2, <1>3 DEF OpenOld, OpenNew, Open, Goto, space, place, Roots
<1>4. CASE FchdirNew(c) /\ ~Fail(c)
  <2>1. /\ UNCHANGED <<root, oldRoot, fds, result>>
        /\ pc[c] = "fchdirNew"
        /\ pc' = [pc EXCEPT ![c] = "pivot"]
        /\ cwd' = [cwd EXCEPT ![c] = "new"]
    BY <1>4 DEF FchdirNew, Fchdir, Goto, space
  <2>2. /\ pc'[c] = "pivot" /\ cwd'[c] = "new" /\ root'[c] = root[c]
        /\ oldRoot'[c] = oldRoot[c] /\ fds'[c] = fds[c]
        /\ result'[c] = result[c] /\ op'[c] = op[c]
    BY <1>0, <1>a, <2>1 DEF CallType
  <2>3. CallType' /\ \A d \in Containers \ {c} : Unmoved(d)
    BY <1>0, <1>a, <2>1 DEF CallType, Unmoved
  <2>4. Within(c)' /\ Jailed(c)'
    BY <1>a, <2>2, <2>1 DEF Within, Jailed
  <2>5. Layered(c)'
    BY <1>0, <1>a, <2>2, <2>1, LayeredKeeps DEF Within
  <2> QED BY <2>3, <2>4, <2>5, Alone
<1>5. CASE FchdirOld(c) /\ ~Fail(c)
  <2>1. /\ UNCHANGED <<root, oldRoot, fds, result>>
        /\ pc[c] = "fchdirOld"
        /\ pc' = [pc EXCEPT ![c] = "slave"]
        /\ cwd' = [cwd EXCEPT ![c] = "old"]
    BY <1>5 DEF FchdirOld, Fchdir, Goto, space
  <2>2. /\ pc'[c] = "slave" /\ cwd'[c] = "old" /\ root'[c] = root[c]
        /\ oldRoot'[c] = oldRoot[c] /\ fds'[c] = fds[c]
        /\ result'[c] = result[c] /\ op'[c] = op[c]
    BY <1>0, <1>a, <2>1 DEF CallType
  <2>3. CallType' /\ \A d \in Containers \ {c} : Unmoved(d)
    BY <1>0, <1>a, <2>1 DEF CallType, Unmoved
  <2>4. Within(c)' /\ Jailed(c)'
    BY <1>a, <2>2, <2>1 DEF Within, Jailed
  <2>5. Layered(c)'
    BY <1>0, <1>a, <2>2, <2>1, LayeredKeeps DEF Within
  <2> QED BY <2>3, <2>4, <2>5, Alone
<1>6. ASSUME NEW w \in Roots, PivotRoot(c), ~Fail(c), cwd' = [cwd EXCEPT ![c] = w]
      PROVE  CallInv'
  <2>1. /\ UNCHANGED <<fds, result>>
        /\ pc[c] = "pivot"
        /\ pc' = [pc EXCEPT ![c] = "fchdirOld"]
        /\ root' = [root EXCEPT ![c] = "new"]
        /\ oldRoot' = [oldRoot EXCEPT ![c] = "stacked"]
        /\ cwd' = [cwd EXCEPT ![c] = w]
    BY <1>6 DEF PivotRoot, Goto
  <2>2. /\ pc'[c] = "fchdirOld" /\ root'[c] = "new" /\ oldRoot'[c] = "stacked"
        /\ cwd'[c] = w /\ fds'[c] = fds[c] /\ result'[c] = result[c]
        /\ op'[c] = op[c]
    BY <1>0, <1>a, <2>1 DEF CallType
  <2>3. CallType' /\ \A d \in Containers \ {c} : Unmoved(d)
    BY <1>0, <1>a, <2>1 DEF CallType, Unmoved
  <2>4. Within(c)' /\ Jailed(c)'
    BY <1>a, <2>2, <2>1 DEF Within, Jailed
  <2>5. Layered(c)'
    BY <1>0, <1>a, <2>2, <2>1, LayeredKeeps DEF Within
  <2> QED BY <2>3, <2>4, <2>5, Alone
<1>7. CASE MakeSlave(c) /\ ~Fail(c)
  <2>1. /\ UNCHANGED <<root, cwd, oldRoot, fds, result>>
        /\ pc[c] = "slave"
        /\ pc' = [pc EXCEPT ![c] = "unmount"]
    BY <1>7 DEF MakeSlave, Goto, place
  <2>2. /\ pc'[c] = "unmount" /\ root'[c] = root[c] /\ cwd'[c] = cwd[c]
        /\ oldRoot'[c] = oldRoot[c] /\ fds'[c] = fds[c]
        /\ result'[c] = result[c] /\ op'[c] = op[c]
    BY <1>0, <1>a, <2>1 DEF CallType
  <2>3. CallType' /\ \A d \in Containers \ {c} : Unmoved(d)
    BY <1>0, <1>a, <2>1 DEF CallType, Unmoved
  <2>4. Within(c)' /\ Jailed(c)'
    BY <1>a, <2>2, <2>1 DEF Within, Jailed
  <2>5. Layered(c)'
    BY <1>0, <1>a, <2>2, <2>1, LayeredKeeps DEF Within
  <2> QED BY <2>3, <2>4, <2>5, Alone
<1>8. CASE Unmount(c) /\ ~Fail(c)
  <2>1. /\ UNCHANGED <<root, cwd, fds, result>>
        /\ pc[c] = "unmount"
        /\ pc' = [pc EXCEPT ![c] = "chdir"]
        /\ oldRoot' = [oldRoot EXCEPT ![c] = "detached"]
    BY <1>8 DEF Unmount, Goto, place
  <2>2. /\ pc'[c] = "chdir" /\ oldRoot'[c] = "detached" /\ root'[c] = root[c]
        /\ cwd'[c] = cwd[c] /\ fds'[c] = fds[c] /\ result'[c] = result[c]
        /\ op'[c] = op[c]
    BY <1>0, <1>a, <2>1 DEF CallType
  <2>3. CallType' /\ \A d \in Containers \ {c} : Unmoved(d)
    BY <1>0, <1>a, <2>1 DEF CallType, Unmoved
  <2>4. Within(c)' /\ Jailed(c)'
    BY <1>a, <2>2, <2>1 DEF Within, Jailed
  <2>5. Layered(c)'
    BY <1>0, <1>a, <2>2, <2>1, LayeredKeeps DEF Within
  <2> QED BY <2>3, <2>4, <2>5, Alone
<1>9. CASE Chdir(c) /\ ~Fail(c)
  <2>1. /\ UNCHANGED <<root, oldRoot>>
        /\ pc[c] = "chdir"
        /\ pc' = [pc EXCEPT ![c] = "idle"]
        /\ cwd' = [cwd EXCEPT ![c] = root[c]]
        /\ result' = [result EXCEPT ![c] = "ok"]
        /\ fds' = [fds EXCEPT ![c] = {}]
    BY <1>9 DEF Chdir, Return, space
  <2>2. /\ pc'[c] = "idle" /\ cwd'[c] = root[c] /\ result'[c] = "ok"
        /\ fds'[c] = {} /\ root'[c] = root[c] /\ oldRoot'[c] = oldRoot[c]
        /\ op'[c] = op[c]
    BY <1>0, <1>a, <2>1 DEF CallType
  <2>3. CallType' /\ \A d \in Containers \ {c} : Unmoved(d)
    BY <1>0, <1>a, <2>1 DEF CallType, Unmoved
  <2>4. Within(c)' /\ Jailed(c)'
    BY <1>a, <2>2, <2>1 DEF Within, Jailed
  <2>5. Layered(c)'
    BY <1>0, <1>a, <2>2, <2>1, LayeredKeeps DEF Within
  <2> QED BY <2>3, <2>4, <2>5, Alone
<1>10. CASE Chroot(c) /\ ~Fail(c)
  <2>1. /\ UNCHANGED <<cwd, oldRoot, fds, result>>
        /\ pc[c] = "chroot"
        /\ pc' = [pc EXCEPT ![c] = "chdir"]
        /\ root' = [root EXCEPT ![c] = cwd[c]]
    BY <1>10 DEF Chroot, Goto, space
  <2>2. /\ pc'[c] = "chdir" /\ root'[c] = cwd[c] /\ cwd'[c] = cwd[c]
        /\ oldRoot'[c] = oldRoot[c] /\ fds'[c] = fds[c]
        /\ result'[c] = result[c] /\ op'[c] = op[c]
    BY <1>0, <1>a, <2>1 DEF CallType
  <2>3. CallType' /\ \A d \in Containers \ {c} : Unmoved(d)
    BY <1>0, <1>a, <2>1 DEF CallType, Unmoved
  <2>4. Within(c)' /\ Jailed(c)'
    BY <1>a, <2>2, <2>1 DEF Within, Jailed
  <2>5. Layered(c)'
    BY <1>0, <1>a, <2>2, <2>1, LayeredKeeps DEF Within
  <2> QED BY <2>3, <2>4, <2>5, Alone
<1>11. CASE PivotRoot(c) /\ ~Fail(c)
  BY <1>6, <1>11 DEF PivotRoot
<1> QED BY <1>1, <1>3, <1>4, <1>5, <1>7, <1>8, <1>9, <1>10, <1>11

\* The read-only flag of a stack of mounts is that of its top.
LEMMA AddLayer ==
  ASSUME NEW l \in Seq(BOOLEAN), NEW b \in BOOLEAN
  PROVE  /\ Append(l, b) \in Seq(BOOLEAN) /\ Append(l, b) # <<>>
         /\ Len(Append(l, b)) = Len(l) + 1 /\ Append(l, b)[Len(l) + 1] = b
         /\ \A i \in 1 .. Len(l) : Append(l, b)[i] = l[i]
OBVIOUS

LEMMA SetTop ==
  ASSUME NEW l \in Seq(BOOLEAN), l # <<>>
  PROVE  /\ [l EXCEPT ![Len(l)] = TRUE] \in Seq(BOOLEAN)
         /\ [l EXCEPT ![Len(l)] = TRUE] # <<>>
         /\ Len([l EXCEPT ![Len(l)] = TRUE]) = Len(l)
         /\ [l EXCEPT ![Len(l)] = TRUE][Len(l)] = TRUE
<1>1. Len(l) \in 1 .. Len(l)
  OBVIOUS
<1>2. Len([l EXCEPT ![Len(l)] = TRUE]) = Len(l)
      /\ [l EXCEPT ![Len(l)] = TRUE] \in Seq(BOOLEAN)
  BY <1>1
<1>3. [l EXCEPT ![Len(l)] = TRUE][Len(l)] = TRUE
  BY <1>1
<1> QED BY <1>1, <1>2, <1>3

\* A new mount on the path is read only if the one below it is.
LEMMA BindStep ==
  ASSUME Inv, CallInv, NEW c \in Containers, pc[c] = "bind",
         layers' = [layers EXCEPT ![c] = Append(@, IsReadonly(c))],
         pc' = [pc EXCEPT ![c] = "remount"],
         UNCHANGED <<root, cwd, oldRoot, fds, op, result>>
  PROVE  CallInv'
<1> DEFINE b == IsReadonly(c)
           n == Append(layers[c], b)
<1>a. /\ Within(c) /\ Jailed(c) /\ Layered(c) /\ CallType
      /\ pc = [d \in Containers |-> pc[d]]
  BY DEF Inv, SpaceType, CallInv
<1>1. layers[c] \in Seq(BOOLEAN) /\ layers \in [Containers -> Seq(BOOLEAN)]
  BY <1>a DEF CallType
<1>2. b <=> layers[c] # <<>> /\ layers[c][Len(layers[c])]
  BY DEF IsReadonly
<1>3. b \in BOOLEAN
  BY <1>1 DEF IsReadonly
<1>4. \A i \in 1 .. Len(layers[c]) : layers[c][i] => b
  BY <1>a DEF Layered
<1>5. layers' = [layers EXCEPT ![c] = n]
  OBVIOUS
<1> HIDE DEF b
<1>6. /\ n \in Seq(BOOLEAN) /\ n # <<>> /\ Len(n) = Len(layers[c]) + 1
      /\ n[Len(layers[c]) + 1] = b
      /\ \A i \in 1 .. Len(layers[c]) : n[i] = layers[c][i]
  BY <1>1, <1>3, AddLayer
<1> HIDE DEF n
<1>7. \A i \in 1 .. Len(n) : n[i] => n[Len(n)]
  BY <1>1, <1>4, <1>6
<1>8. /\ layers'[c] = n /\ pc'[c] = "remount" /\ root'[c] = root[c]
      /\ cwd'[c] = cwd[c] /\ oldRoot'[c] = oldRoot[c] /\ fds'[c] = fds[c]
      /\ op'[c] = op[c] /\ result'[c] = result[c]
  BY <1>1, <1>5, <1>a
<1>9. CallType' /\ \A d \in Containers \ {c} : Unmoved(d)
  BY <1>1, <1>5, <1>6, <1>a DEF CallType, Unmoved
<1>10. Within(c)' /\ Jailed(c)'
  BY <1>a, <1>8 DEF Within, Jailed
<1>11. Layered(c)'
  BY <1>a, <1>6, <1>7, <1>8 DEF Within, Layered, IsReadonly
<1> QED BY <1>9, <1>10, <1>11, Alone

\* The remount makes the top read only.
LEMMA RemountStep ==
  ASSUME Inv, CallInv, NEW c \in Containers, pc[c] = "remount",
         layers' = [layers EXCEPT ![c][Len(layers[c])] = TRUE],
         pc' = [pc EXCEPT ![c] = "idle"], result' = [result EXCEPT ![c] = "ok"],
         fds' = [fds EXCEPT ![c] = {}], UNCHANGED <<root, cwd, oldRoot, op>>
  PROVE  CallInv'
<1> DEFINE n == [layers[c] EXCEPT ![Len(layers[c])] = TRUE]
<1>a. /\ Within(c) /\ Jailed(c) /\ Layered(c) /\ CallType
      /\ pc = [d \in Containers |-> pc[d]]
  BY DEF Inv, SpaceType, CallInv
<1>1. /\ layers[c] \in Seq(BOOLEAN) /\ layers \in [Containers -> Seq(BOOLEAN)]
      /\ layers[c] # <<>>
  BY <1>a DEF CallType, Layered
<1>2. layers' = [layers EXCEPT ![c] = n]
  OBVIOUS
<1>3. n \in Seq(BOOLEAN) /\ n # <<>> /\ Len(n) = Len(layers[c]) /\ n[Len(layers[c])] = TRUE
  BY <1>1, SetTop
<1> HIDE DEF n
<1>4. /\ layers'[c] = n /\ pc'[c] = "idle" /\ result'[c] = "ok" /\ fds'[c] = {}
      /\ root'[c] = root[c] /\ cwd'[c] = cwd[c] /\ oldRoot'[c] = oldRoot[c]
      /\ op'[c] = op[c]
  BY <1>1, <1>2, <1>a DEF CallType
<1>5. CallType' /\ \A d \in Containers \ {c} : Unmoved(d)
  BY <1>1, <1>2, <1>3, <1>a DEF CallType, Unmoved
<1>6. Within(c)' /\ Jailed(c)'
  BY <1>a, <1>4 DEF Within, Jailed
<1>7. Layered(c)'
  BY <1>3, <1>4 DEF Layered, IsReadonly
<1> QED BY <1>5, <1>6, <1>7, Alone

\* A path that is missing, or a call of readonlyPath that failed.
LEMMA LayerStep ==
  ASSUME Inv, CallInv, NEW c \in Containers, Bind(c) \/ Remount(c)
  PROVE  CallInv'
<1>1. CASE Fail(c)
  BY <1>1, FailStep
<1>2. CASE Bind(c) /\ ~Fail(c) /\ ~Return(c, "missing")
  BY <1>2, BindStep DEF Bind, space, place
<1>3. CASE Remount(c) /\ ~Fail(c)
  BY <1>3, RemountStep DEF Remount, Return, space, place
<1>4. CASE Bind(c) /\ Return(c, "missing") /\ UNCHANGED <<space, place, layers>>
  <2>a. /\ Within(c) /\ Jailed(c) /\ Layered(c) /\ CallType
        /\ pc = [d \in Containers |-> pc[d]]
    BY DEF Inv, SpaceType, CallInv
  <2>1. /\ UNCHANGED <<root, cwd, oldRoot, op, layers>> /\ pc[c] = "bind"
        /\ pc' = [pc EXCEPT ![c] = "idle"]
        /\ result' = [result EXCEPT ![c] = "missing"]
        /\ fds' = [fds EXCEPT ![c] = {}]
    BY <1>4 DEF Bind, Return, space, place
  <2>2. /\ pc'[c] = "idle" /\ result'[c] = "missing" /\ fds'[c] = {}
        /\ root'[c] = root[c] /\ cwd'[c] = cwd[c] /\ oldRoot'[c] = oldRoot[c]
        /\ op'[c] = op[c]
    BY <2>1, <2>a DEF CallType
  <2>3. CallType' /\ \A d \in Containers \ {c} : Unmoved(d)
    BY <2>1, <2>a DEF CallType, Unmoved
  <2>4. Within(c)' /\ Jailed(c)'
    BY <2>a, <2>1, <2>2 DEF Within, Jailed
  <2>5. Layered(c)'
    BY <2>a, <2>1, <2>2, LayeredKeeps
  <2> QED BY <2>3, <2>4, <2>5, Alone
<1>5. CASE Bind(c) /\ ~Fail(c) /\ Return(c, "missing")
           /\ ~UNCHANGED <<space, place, layers>>
  BY <1>5, BindStep DEF Bind, space, place
<1> QED BY <1>1, <1>2, <1>3, <1>4, <1>5

LEMMA CallNext == Inv /\ CallInv /\ [Next]_vars => CallInv'
<1> SUFFICES ASSUME Inv, CallInv, [Next]_vars PROVE CallInv'
  OBVIOUS
<1>a. /\ CallType /\ pc = [d \in Containers |-> pc[d]]
      /\ oldRoot = [d \in Containers |-> oldRoot[d]]
      /\ root = [d \in Containers |-> root[d]] /\ cwd = [d \in Containers |-> cwd[d]]
  BY DEF Inv, SpaceType, CallInv, CallType
<1>b. \A c \in Containers : Within(c) /\ Jailed(c) /\ Layered(c)
  BY DEF CallInv
<1>1. ASSUME NEW c \in Containers, Step(c) PROVE CallInv'
  BY <1>1, PlaceStep, LayerStep DEF Step
<1>2. ASSUME NEW c \in Containers, NEW o \in Ops, Call(c, o) PROVE CallInv'
  <2>1. /\ UNCHANGED <<fds, layers, root, cwd, oldRoot>> /\ pc[c] = "idle"
        /\ pc' = [pc EXCEPT ![c] = Entry[o]] /\ op' = [op EXCEPT ![c] = o]
        /\ result' = [result EXCEPT ![c] = "none"]
    BY <1>2 DEF Call, space, place
  <2>2. o = "chroot" => cwd[c] = "new"
    BY <1>2 DEF Call
  <2>3. /\ Entry["pivotRoot"] = "openOld" /\ Entry["chroot"] = "chroot"
        /\ Entry["readonlyPath"] = "bind"
    BY DEF Entry, Ops
  <2>4. o = "pivotRoot" \/ o = "chroot" \/ o = "readonlyPath"
    BY DEF Ops
  <2>5. /\ pc'[c] = Entry[o] /\ op'[c] = o /\ result'[c] = "none"
        /\ fds'[c] = fds[c] /\ root'[c] = root[c] /\ cwd'[c] = cwd[c]
        /\ oldRoot'[c] = oldRoot[c] /\ layers'[c] = layers[c]
    BY <2>1, <1>a DEF CallType
  <2>6. CallType' /\ \A d \in Containers \ {c} : Unmoved(d)
    BY <2>1, <1>a DEF CallType, Unmoved
  <2>7. Within(c)' /\ Jailed(c)'
    BY <1>b, <2>1, <2>2, <2>3, <2>4, <2>5 DEF Within, Jailed
  <2>8. Layered(c)'
    BY <1>b, <2>3, <2>4, <2>5, LayeredKeeps
  <2> QED BY <2>6, <2>7, <2>8, Alone
<1>3. ASSUME NEW c \in Containers, Die(c) PROVE CallInv'
  <2>1. /\ pc' = [pc EXCEPT ![c] = "unborn"] /\ op' = [op EXCEPT ![c] = "none"]
        /\ result' = [result EXCEPT ![c] = "none"]
        /\ oldRoot' = [oldRoot EXCEPT ![c] = "detached"]
        /\ root' = [root EXCEPT ![c] = "old"] /\ cwd' = [cwd EXCEPT ![c] = "old"]
        /\ fds' = [fds EXCEPT ![c] = {}] /\ layers' = [layers EXCEPT ![c] = <<>>]
    BY <1>3 DEF Die
  <2>2. /\ pc'[c] = "unborn" /\ op'[c] = "none" /\ result'[c] = "none"
        /\ oldRoot'[c] = "detached" /\ root'[c] = "old" /\ cwd'[c] = "old"
        /\ fds'[c] = {} /\ layers'[c] = <<>>
    BY <2>1, <1>a DEF CallType
  <2>3. CallType' /\ \A d \in Containers \ {c} : Unmoved(d)
    BY <2>1, <1>a DEF CallType, Unmoved, Roots
  <2>4. Within(c)' /\ Jailed(c)'
    BY <2>2 DEF Within, Jailed
  <2>5. Layered(c)'
    BY <2>2 DEF Layered, IsReadonly
  <2> QED BY <2>3, <2>4, <2>5, Alone
<1>4. ASSUME NEW c \in Containers, NEW dir \in Roots, Clone(c, dir) PROVE CallInv'
  <2>1. CallType' /\ Within(c)' /\ Jailed(c)' /\ Layered(c)'
    BY <1>a, <1>b, <1>4 DEF Clone, CallType, Within, Jailed, Layered, IsReadonly
  <2>2. \A d \in Containers \ {c} : Unmoved(d)
    BY <1>a, <1>4 DEF Clone, Unmoved, CallType
  <2> QED BY <2>1, <2>2, Alone
<1>5. CASE (\E m \in Mounts : HostMount(m) \/ HostUnmount(m)) \/ UNCHANGED vars
  <2>1. CallType' /\ \A d \in Containers : Unmoved(d)
    BY <1>a, <1>5 DEF HostMount, HostUnmount, vars, place, space, Unmoved, CallType
  <2> QED BY <2>1, <1>b, UnmovedKeeps DEF CallInv
<1> QED BY <1>1, <1>2, <1>3, <1>4, <1>5 DEF Next

\* What a call has done so far is known at every step of it (rootfs.go).
THEOREM CallInductive == Spec => []CallInv
  BY CallInit, CallNext, Inductive, PTL DEF Spec

\* A pivotRoot or chroot that returned nil has left the process in its new
\* root, with the old one gone and no descriptor on it (rootfs.go:15-87).
THEOREM Jail == Spec => []NoWayBack
<1>1. Inv /\ CallInv => NoWayBack
  BY DEF Inv, Slaved, CallInv, Jailed, NoWayBack
<1> QED BY <1>1, Inductive, CallInductive, PTL

\* readonlyPath returns nil only for a path that is read only or missing, and
\* no later failure makes it writable again.
THEOREM Readonly == Spec => []ReadonlyOnSuccess
<1>1. CallInv => ReadonlyOnSuccess
  BY DEF CallInv, Layered, ReadonlyOnSuccess
<1> QED BY <1>1, CallInductive, PTL
=============================================================================
