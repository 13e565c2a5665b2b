---------------------------- MODULE ProcessStart ----------------------------
(***************************************************************************)
(* How a process of this program starts.  container/process.go clones an   *)
(* init process (distinct/main.go one with a user namespace as well), or   *)
(* the user runs the program on the host.  If nsenter/nsenter.go is linked *)
(* in, its C constructor runs before main: with docker_pid and docker_cmd  *)
(* in the environment it joins five namespaces of docker_pid, runs the     *)
(* command and exits.  Otherwise Go starts: the `init` command returns, or *)
(* the program calls StartInitialization of container/factory.go.          *)
(* Processes come and go meanwhile, and their pid numbers are used again.  *)
(***************************************************************************)
EXTENDS Naturals, Sequences

CONSTANTS
  Containers,
  Host,      \* owner of the host's namespaces
  None,      \* no process has the number
  Unset,     \* a variable that the environment lacks
  Fds,       \* numbers _LIBCONTAINER_INITPIPE may hold; "3" is the pipe's
  Environs   \* the environments a parent or a caller may pass on

VARIABLES
  launcher,          \* the program that cloned each container's init process
  holder,            \* whose process has the number docker_pid on the host
  inside,            \* the same in the /proc of each container
  pc, env, fds,      \* the process: where it is, environment, descriptors
  ns,                \* whose namespace of each kind it, or its child, is in
  at, fd,            \* the constructor's loop, and the process its fd is of
  ran,               \* the namespaces of the command, once it runs
  own, held, smooth   \* ghosts: see Launch, Environment, and Open and Setns

process == <<pc, env, fds, ns, at, fd, ran>>
world   == <<launcher, holder, inside>>
ghosts  == <<own, held, smooth>>
vars    == <<launcher, holder, inside, pc, env, fds, ns, at, fd, ran,
             own, held, smooth>>

Owners == Containers \cup {Host}
Kinds  == {"ipc", "uts", "net", "pid", "mnt", "user", "cgroup"}

ASSUME NamesAssumption ==
  /\ Host \notin Containers /\ None \notin Owners
  /\ "3" \in Fds /\ Unset \notin Fds
ASSUME EnvironsAssumption ==
  Environs \subseteq [docker_pid : {"pid", Unset}, docker_cmd : {"sh", Unset},
                      _LIBCONTAINER_INITPIPE : Fds \cup {"x", Unset}]

\* Mutant: the mount namespace is joined first.
NamespacesMntFirst == <<"mnt", "ipc", "uts", "net", "pid">>
\* Mutant: the network namespace is forgotten.
NamespacesNoNet == <<"ipc", "uts", "pid", "mnt">>
namespaces == <<"ipc", "uts", "net", "pid", "mnt">>

\* Cloneflags: the namespaces an init process gets of its own.
Cloneflags == [NewInitProcess |-> {"uts", "pid", "mnt", "net", "ipc"},
               distinct       |-> {"uts", "pid", "mnt", "net", "ipc", "user"}]

NsOf(o) == [k \in Kinds |->
             IF o # Host /\ k \in Cloneflags[launcher[o]] THEN o ELSE Host]

Variables == {"docker_pid", "docker_cmd", "_LIBCONTAINER_INITPIPE"}
Empty == [v \in Variables |-> Unset]

\* append(os.Environ(), process.Env...): the last value of a name counts.
Merged(e, f) == [v \in Variables |-> IF f[v] # Unset THEN f[v] ELSE e[v]]

-----------------------------------------------------------------------------
Init ==
  /\ launcher \in [Containers -> DOMAIN Cloneflags]
  /\ holder \in Owners \cup {None}
  /\ inside \in [Containers -> Containers \cup {None, Host}]
  /\ pc = "unborn" /\ env = Empty /\ fds = {}
  /\ ns = [k \in Kinds |-> Host]
  /\ at = 1 /\ fd = None /\ ran = <<>>
  /\ own = Host /\ held = {} /\ smooth = TRUE

\* The process starts on the host, or as the init process of container o,
\* which NewInitProcess gives a pipe if os.Pipe made one: its error is dropped.
Launch(o, e, f) ==
  /\ pc = "unborn"
  /\ o # Host => launcher[o] = "NewInitProcess"
  /\ pc' = "constructor"
  /\ env' = Merged(e, f)
  /\ fds' \in IF o = Host THEN {{}} ELSE {{}, {"3"}}
  /\ ns' = NsOf(o)
  /\ own' = o
  /\ held' = {holder} \ {None}
  /\ inside' = IF o = Host THEN inside ELSE [inside EXCEPT ![o] = Host]
  /\ UNCHANGED <<launcher, holder, at, fd, ran, smooth>>

(***************************************************************************)
(* The constructor.                                                        *)
(***************************************************************************)
Getenv ==
  /\ pc = "constructor"
  /\ pc' = IF env["docker_pid"] = Unset \/ env["docker_cmd"] = Unset
           THEN "main" ELSE "open"
  /\ UNCHANGED <<env, fds, ns, at, fd, ran, world, ghosts>>

\* /proc/<docker_pid> as the mount namespace of the process shows it: a
\* container's /proc is the host's until something else is mounted there.
Found ==
  LET m == ns["mnt"] IN
  IF m = Host \/ inside[m] = Host THEN holder ELSE inside[m]

\* open of the next namespace's file: -1, here None, if it fails.
Open ==
  /\ pc = "open" /\ at <= Len(namespaces)
  /\ fd' \in {Found, None}
  /\ pc' = "setns"
  /\ smooth' = (smooth /\ fd' # None)
  /\ UNCHANGED <<env, fds, ns, at, ran, world, own, held>>

\* The kernel lets a process into the pid namespaces below its own only.
Joinable(k) ==
  fd # None /\ (k = "pid" => NsOf(own)[k] \in {Host, NsOf(fd)[k]})

\* setns, whose failure is ignored, and close.
Setns ==
  /\ pc = "setns"
  /\ LET k == namespaces[at] IN
     \/ /\ Joinable(k)
        /\ ns' = [ns EXCEPT ![k] = NsOf(fd)[k]]
        /\ UNCHANGED smooth
     \/ smooth' = FALSE /\ UNCHANGED ns
  /\ fd' = None
  /\ at' = at + 1
  /\ pc' = "open"
  /\ UNCHANGED <<env, fds, ran, world, own, held>>

\* system, which may fail to fork, and exit(0) whatever came of it.
System ==
  /\ pc = "open" /\ at > Len(namespaces)
  /\ ran' \in {ns, <<>>}
  /\ pc' = "exited"
  /\ UNCHANGED <<env, fds, ns, at, fd, world, ghosts>>

(***************************************************************************)
(* Go.                                                                     *)
(***************************************************************************)
\* main runs the `init` command, which returns nil at once: exit status 0.
InitCommand ==
  /\ pc = "main"
  /\ pc' = "exited"
  /\ UNCHANGED <<env, fds, ns, at, fd, ran, world, ghosts>>

\* StartInitialization: Atoi, NewFile, Clearenv and the deferred Close, which
\* closes whatever has the number.
StartInitialization ==
  /\ pc = "main"
  /\ LET n == env["_LIBCONTAINER_INITPIPE"] IN
     \/ n \notin Fds /\ pc' = "failed" /\ UNCHANGED <<env, fds>>
     \/ n \in Fds /\ pc' = "initialized" /\ env' = Empty /\ fds' = fds \ {n}
  /\ UNCHANGED <<ns, at, fd, ran, world, ghosts>>

(***************************************************************************)
(* The rest of the host, as long as the constructor looks docker_pid up:   *)
(* its process exits, and the number goes to another process.  A process   *)
(* that is killed takes no further step, and nothing of it outlives it.    *)
(***************************************************************************)
Environment(o) ==
  /\ pc \in {"constructor", "open", "setns"}
  /\ holder = None \/ o = None
  /\ holder # o
  /\ holder' = o
  /\ held' = (held \cup {o}) \ {None}
  /\ UNCHANGED <<launcher, inside, process, own, smooth>>

Step == Getenv \/ Open \/ Setns \/ System \/ InitCommand \/ StartInitialization

Next ==
  \/ \E o \in Owners, e, f \in Environs : Launch(o, e, f)
  \/ Step
  \/ \E o \in Owners \cup {None} : Environment(o)

Spec == Init /\ [][Next]_vars
-----------------------------------------------------------------------------
\* If docker_pid names one process all along and no call fails, the command
\* runs in that process's namespaces of every kind NewInitProcess creates, and
\* in no other foreign one: nsenter.go:33 lists what process.go:39 clones, and
\* joins mnt last, before which /proc is still the one docker_pid is read in.
CommandInside ==
  \A o \in Owners :
    (ran # <<>> /\ smooth /\ held = {o}) =>
      ran = [k \in Kinds |-> IF k \in Cloneflags.NewInitProcess
                             THEN NsOf(o)[k] ELSE NsOf(own)[k]]

\* Whichever calls fail, whoever exits and takes over the number, and whatever
\* the containers see in their /proc: every namespace the process gets into is
\* its own or one of a process that had docker_pid, on the host, since it
\* started (nsenter.go:34-44).
JoinedFromTarget ==
  pc # "unborn" =>
    \A k \in Kinds : ns[k] \in {NsOf(o)[k] : o \in {own} \cup held}
=============================================================================
