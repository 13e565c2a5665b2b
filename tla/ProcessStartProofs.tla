------------------------- MODULE ProcessStartProofs -------------------------
(***************************************************************************)
(* Which namespaces a process gets into, for any containers, descriptors   *)
(* and environments.                                                       *)
(***************************************************************************)
EXTENDS ProcessStart, TLAPS

Labels == {"unborn", "constructor", "open", "setns", "main", "exited",
           "failed", "initialized"}

\* Who is who: owners, numbers and where the process is.
Who ==
  /\ pc \in Labels
  /\ own \in Owners /\ held \subseteq Owners
  /\ holder \in Owners \cup {None} /\ fd \in Owners \cup {None}
  /\ at \in 1 .. 6
  /\ ns \in [Kinds -> Owners]
  /\ DOMAIN inside = Containers
  /\ own # Host => launcher[own] = "NewInitProcess"
  /\ pc = "unborn" => ns = NsOf(Host) /\ at = 1 /\ fd = None /\ smooth
  /\ pc = "constructor" => at = 1 /\ fd = None /\ smooth
  /\ pc = "open" => fd = None
  /\ pc = "setns" => at <= 5
  /\ smooth \in BOOLEAN

\* As long as docker_pid is looked up, /proc is the host's and the kinds that
\* were not joined are the process's own, mnt among them to the end.
Looking ==
  pc \in {"constructor", "open", "setns"} =>
    /\ holder # None => holder \in held
    /\ own # Host => inside[own] = Host
    /\ \A j \in at .. 5 : ns[namespaces[j]] = NsOf(own)[namespaces[j]]

\* The descriptor is of a process that had docker_pid, or the open failed.
Opened ==
  /\ fd # None => fd \in held
  /\ pc = "setns" /\ smooth => fd # None

\* What was joined.
Entered ==
  /\ ns["user"] = NsOf(own)["user"] /\ ns["cgroup"] = NsOf(own)["cgroup"]
  /\ \A k \in Kinds : ns[k] \in {NsOf(o)[k] : o \in {own} \cup held}
  /\ smooth => \A j \in 1 .. at - 1 :
                 ns[namespaces[j]] \in {NsOf(o)[namespaces[j]] : o \in held}
  /\ ran # <<>> => ran = ns /\ at = 6 /\ pc = "exited"

Inv == Who /\ Looking /\ Opened /\ Entered

LEMMA Facts ==
  /\ namespaces[1] = "ipc" /\ namespaces[2] = "uts" /\ namespaces[3] = "net"
  /\ namespaces[4] = "pid" /\ namespaces[5] = "mnt" /\ Len(namespaces) = 5
  /\ \A j \in 1 .. 5 : namespaces[j] \in Kinds \ {"user", "cgroup"}
  /\ \A i, j \in 1 .. 5 : namespaces[i] = namespaces[j] => i = j
  /\ \A k \in Kinds : k \in Cloneflags.NewInitProcess <=>
                        \E j \in 1 .. 5 : namespaces[j] = k
  /\ \A k \in Kinds : k \in Cloneflags.NewInitProcess <=> k \notin {"user", "cgroup"}
BY DEF namespaces, Kinds, Cloneflags

LEMMA NsOfType ==
  ASSUME NEW o \in Owners
  PROVE  NsOf(o) \in [Kinds -> Owners]
BY DEF NsOf, Owners

\* Before mnt is joined, the process with docker_pid is found, and no other.
LEMMA FoundIsHolder ==
  ASSUME Who, Looking, pc = "open", at <= 5 PROVE Found = holder
<1>1. ns["mnt"] = NsOf(own)["mnt"]
  BY Facts DEF Who, Looking
<1>2. CASE own = Host
  BY <1>1, <1>2 DEF NsOf, Found, Kinds
<1>3. CASE own # Host
  <2>1. NsOf(own)["mnt"] = own
    BY <1>3 DEF NsOf, Kinds, Cloneflags, Who
  <2> QED BY <1>1, <1>3, <2>1 DEF Found, Looking
<1> QED BY <1>2, <1>3

LEMMA InitInv == Init => Inv
<1> SUFFICES ASSUME Init PROVE Inv
  OBVIOUS
<1>1. NsOf(Host) = [k \in Kinds |-> Host]
  BY DEF NsOf
<1>2. Who
  BY <1>1 DEF Init, Who, Labels, Owners
<1>3. Looking /\ Opened
  BY DEF Init, Looking, Opened
<1>4. Entered
  BY <1>1 DEF Init, Entered, Kinds
<1> QED BY <1>2, <1>3, <1>4 DEF Inv

LEMMA LaunchInv ==
  ASSUME Inv, NEW o \in Owners, NEW e \in Environs, NEW f \in Environs, Launch(o, e, f)
  PROVE  Inv'
<1> USE DEF Inv, Launch
<1>1. NsOf(o)' = NsOf(o) /\ NsOf(o) \in [Kinds -> Owners]
  BY NsOfType DEF NsOf
<1>2. Who'
  BY <1>1 DEF Who, Labels
<1>3. Looking' /\ Opened'
  <2>1. \A j \in 1 .. 5 : ns'[namespaces[j]] = NsOf(own)'[namespaces[j]]
    BY <1>1
  <2> QED BY <2>1 DEF Who, Looking, Opened, Owners
<1>4. Entered'
  BY <1>1 DEF Who, Entered, Kinds
<1> QED BY <1>2, <1>3, <1>4

\* A step that leaves the namespaces and the number alone.
LEMMA Still ==
  ASSUME Inv, pc \in Labels \ {"unborn"}, pc' \in {"main", "open", "exited", "failed", "initialized"},
         UNCHANGED <<ns, at, fd, launcher, holder, inside, own, held, smooth>>,
         pc' = "open" => pc = "constructor" /\ fd = None,
         ran' = ran \/ (ran' = ns /\ at = 6 /\ pc' = "exited"),
         ran # <<>> => ran' = ran /\ pc' = "exited"
  PROVE  Inv'
<1> USE DEF Inv
<1>1. \A o : NsOf(o)' = NsOf(o)
  BY DEF NsOf
<1>2. Who'
  BY DEF Who, Labels
<1>3. Looking' /\ Opened'
  BY <1>1 DEF Looking, Opened
<1>4. Entered'
  BY <1>1 DEF Entered
<1> QED BY <1>2, <1>3, <1>4

LEMMA OpenInv == ASSUME Inv, Open PROVE Inv'
<1> USE DEF Inv, Open, world
<1>1. \A o : NsOf(o)' = NsOf(o)
  BY DEF NsOf
<1>2. Found = holder /\ at \in 1 .. 5
  BY FoundIsHolder, Facts DEF Who
<1>3. Who'
  BY <1>2 DEF Who, Labels
<1>4. Looking' /\ Opened'
  BY <1>1, <1>2 DEF Who, Looking, Opened
<1>5. Entered'
  BY <1>1 DEF Entered, Who
<1> QED BY <1>3, <1>4, <1>5

LEMMA SetnsInv == ASSUME Inv, Setns PROVE Inv'
<1> USE DEF Inv
<1> DEFINE k == namespaces[at]
<1>1. at \in 1 .. 5 /\ at' = at + 1 /\ k \in Kinds \ {"user", "cgroup"}
      /\ pc = "setns" /\ pc' = "open" /\ fd' = None
      /\ UNCHANGED <<launcher, holder, inside, own, held, ran>>
  BY Facts DEF Setns, Who, world
<1>2. \A o : NsOf(o)' = NsOf(o)
  BY <1>1 DEF NsOf
<1>3. CASE Joinable(k) /\ ns' = [ns EXCEPT ![k] = NsOf(fd)[k]] /\ UNCHANGED smooth
  <2>1. fd \in held /\ fd \in Owners /\ NsOf(fd)[k] \in Owners
    BY <1>1, <1>3, NsOfType DEF Joinable, Opened, Who
  <2>2. Who'
    BY <1>1, <1>2, <1>3, <2>1 DEF Who, Labels
  <2>3. Looking' /\ Opened'
    BY <1>1, <1>2, <1>3, Facts DEF Who, Looking, Opened
  <2>4. Entered'
    <3>1. \A l \in Kinds : ns'[l] = IF l = k THEN NsOf(fd)[k] ELSE ns[l]
      BY <1>1, <1>3 DEF Who
    <3>2. "user" \in Kinds /\ "cgroup" \in Kinds
      BY DEF Kinds
    <3>3. /\ ns'["user"] = NsOf(own)["user"] /\ ns'["cgroup"] = NsOf(own)["cgroup"]
          /\ \A l \in Kinds : ns'[l] \in {NsOf(o)[l] : o \in {own} \cup held}
      BY <1>1, <2>1, <3>1, <3>2 DEF Entered
    <3>4. smooth => \A j \in 1 .. at :
                 ns'[namespaces[j]] \in {NsOf(o)[namespaces[j]] : o \in held}
      <4> SUFFICES ASSUME smooth, NEW j \in 1 .. at
                   PROVE  ns'[namespaces[j]] \in {NsOf(o)[namespaces[j]] : o \in held}
        OBVIOUS
      <4>1. CASE j = at
        BY <1>1, <2>1, <3>1, <4>1
      <4>2. CASE j # at
        <5>1. j \in 1 .. at - 1 /\ j \in 1 .. 5
          BY <1>1, <4>2
        <5>2. namespaces[j] \in Kinds /\ namespaces[j] # k
          BY <1>1, <4>2, <5>1, Facts
        <5> QED BY <3>1, <5>1, <5>2 DEF Entered
      <4> QED BY <4>1, <4>2
    <3>5. ran = <<>>
      BY <1>1 DEF Entered
    <3> QED BY <1>1, <1>2, <1>3, <3>3, <3>4, <3>5 DEF Entered
  <2> QED BY <2>2, <2>3, <2>4
<1>4. CASE smooth' \in BOOLEAN /\ ~smooth' /\ UNCHANGED ns
  <2>1. Who'
    BY <1>1, <1>2, <1>4 DEF Who, Labels
  <2>2. Looking' /\ Opened'
    BY <1>1, <1>2, <1>4 DEF Who, Looking, Opened
  <2>3. Entered'
    BY <1>1, <1>2, <1>4 DEF Who, Entered
  <2> QED BY <2>1, <2>2, <2>3
<1>5. \/ Joinable(k) /\ ns' = [ns EXCEPT ![k] = NsOf(fd)[k]] /\ UNCHANGED smooth
      \/ smooth' = FALSE /\ UNCHANGED ns
  BY DEF Setns
<1>6. smooth' = FALSE => smooth' \in BOOLEAN /\ ~smooth'
  OBVIOUS
<1> QED BY <1>3, <1>4, <1>5, <1>6

LEMMA EnvironmentInv ==
  ASSUME Inv, NEW o \in Owners \cup {None}, Environment(o) PROVE Inv'
<1> USE DEF Inv, Environment, process
<1>1. \A q : NsOf(q)' = NsOf(q)
  BY DEF NsOf
<1>2. Who'
  BY NamesAssumption DEF Who
<1>3. Looking' /\ Opened'
  BY <1>1 DEF Looking, Opened
<1>4. Entered'
  <2>1. held \subseteq held'
    BY NamesAssumption DEF Who
  <2> QED BY <1>1, <2>1 DEF Entered
<1> QED BY <1>2, <1>3, <1>4

LEMMA NextInv == Inv /\ [Next]_vars => Inv'
<1> SUFFICES ASSUME Inv, [Next]_vars PROVE Inv'
  OBVIOUS
<1>1. ASSUME NEW o \in Owners, NEW e \in Environs, NEW f \in Environs, Launch(o, e, f)
      PROVE  Inv'
  BY <1>1, LaunchInv
<1>2. CASE Getenv
  BY <1>2, Still DEF Getenv, Inv, Who, Labels, Entered, world, ghosts
<1>3. CASE Open
  BY <1>3, OpenInv
<1>4. CASE Setns
  BY <1>4, SetnsInv
<1>5. CASE System
  <2>1. at = 6 /\ ran = <<>>
    BY <1>5, Facts DEF System, Inv, Who, Entered
  <2> QED BY <1>5, <2>1, Still DEF System, Inv, Who, Labels, world, ghosts
<1>6. CASE InitCommand
  BY <1>6, Still DEF InitCommand, Inv, Who, Labels, Entered, world, ghosts
<1>7. CASE StartInitialization
  BY <1>7, Still DEF StartInitialization, Inv, Who, Labels, Entered, world, ghosts
<1>8. ASSUME NEW o \in Owners \cup {None}, Environment(o) PROVE Inv'
  BY <1>8, EnvironmentInv
<1>9. CASE UNCHANGED vars
  <2>1. \A o : NsOf(o)' = NsOf(o)
    BY <1>9 DEF vars, NsOf
  <2>2. Who' /\ Looking' /\ Opened'
    BY <1>9, <2>1 DEF vars, Inv, Who, Looking, Opened
  <2>3. Entered'
    BY <1>9, <2>1 DEF vars, Inv, Entered
  <2> QED BY <2>2, <2>3 DEF Inv
<1> QED BY <1>1, <1>2, <1>3, <1>4, <1>5, <1>6, <1>7, <1>8, <1>9 DEF Next, Step

LEMMA Inductive == Spec => []Inv
BY InitInv, NextInv, PTL DEF Spec

\* However many processes have docker_pid in turn, exit, and whichever call
\* fails, the process gets only into its own namespaces and those of processes
\* that had the number (nsenter.go:34-44).
THEOREM FromTarget == Spec => []JoinedFromTarget
<1>1. Inv => JoinedFromTarget
  BY DEF Inv, Entered, JoinedFromTarget
<1> QED BY <1>1, Inductive, PTL

\* If one process has the number all along and nothing fails, the command runs
\* in the namespaces NewInitProcess gave that process, and in its own otherwise
\* (nsenter.go:33, process.go:39).
THEOREM Inside == Spec => []CommandInside
<1>1. Inv => CommandInside
  <2> SUFFICES ASSUME Inv, NEW o \in Owners, ran # <<>>, smooth, held = {o}
               PROVE  ran = [k \in Kinds |-> IF k \in Cloneflags.NewInitProcess
                                             THEN NsOf(o)[k] ELSE NsOf(own)[k]]
    BY DEF CommandInside
  <2>1. ran = ns /\ ns \in [Kinds -> Owners] /\ at = 6
    BY DEF Inv, Entered, Who
  <2>2. ASSUME NEW k \in Kinds
        PROVE  ns[k] = IF k \in Cloneflags.NewInitProcess
                       THEN NsOf(o)[k] ELSE NsOf(own)[k]
    <3>1. CASE k \in Cloneflags.NewInitProcess
      <4>1. PICK j \in 1 .. 5 : namespaces[j] = k
        BY <3>1, Facts
      <4>2. j \in 1 .. at - 1
        BY <2>1
      <4> QED BY <3>1, <4>1, <4>2 DEF Inv, Entered
    <3>2. CASE k \notin Cloneflags.NewInitProcess
      BY <3>2, Facts DEF Inv, Entered
    <3> QED BY <3>1, <3>2
  <2> QED BY <2>1, <2>2
<1> QED BY <1>1, Inductive, PTL
=============================================================================
