------------------------- MODULE ContainerRegistry -------------------------
(***************************************************************************)
(* What the container factory of src/container/factory.go gives its        *)
(* callers: a container directory is given out once, and again only to     *)
(* callers that waited for it at the same time; a caller is told whether   *)
(* it got one.  A request may always be refused.                           *)
(***************************************************************************)
EXTENDS Naturals

CONSTANTS Procs, Paths

VARIABLES taken,       \* directories that have a container
          asked,       \* the directory each caller asked for last
          contended,   \* another caller waited for it at the same time
          answer       \* "none" before the first request

vars == <<taken, asked, contended, answer>>

Init ==
  /\ taken = {}
  /\ asked \in [Procs -> Paths]
  /\ contended = [p \in Procs |-> FALSE]
  /\ answer = [p \in Procs |-> "none"]

Ask(p, d) ==
  LET Others == {q \in Procs : answer[q] = "waiting" /\ asked[q] = d} IN
  /\ answer[p] # "waiting"
  /\ asked' = [asked EXCEPT ![p] = d]
  /\ contended' = [q \in Procs |-> IF q = p THEN Others # {}
                                   ELSE contended[q] \/ q \in Others]
  /\ answer' = [answer EXCEPT ![p] = "waiting"]
  /\ UNCHANGED taken

Grant(p) ==
  /\ answer[p] = "waiting"
  /\ asked[p] \notin taken \/ contended[p]
  /\ taken' = taken \cup {asked[p]}
  /\ answer' = [answer EXCEPT ![p] = "container"]
  /\ UNCHANGED <<asked, contended>>

Refuse(p) ==
  /\ answer[p] = "waiting"
  /\ answer' = [answer EXCEPT ![p] = "refused"]
  /\ UNCHANGED <<taken, asked, contended>>

Next ==
  \E p \in Procs : Grant(p) \/ Refuse(p) \/ \E d \in Paths : Ask(p, d)

Spec == Init /\ [][Next]_vars
=============================================================================
