----------------------- MODULE MemoryControllerProofs -----------------------
(***************************************************************************)
(* Proofs about MemoryController, for any set of processes, any requests   *)
(* and any kernel configuration.                                           *)
(***************************************************************************)
EXTENDS MemoryController, TLAPS

(***************************************************************************)
(* Facts about the order of the settings.                                  *)
(***************************************************************************)
\* Both orders set() uses list each of the seven settings exactly once, so
\* swapping settings[0] and settings[1] in Update loses none.
LEMMA OrderFacts ==
  /\ Len(Order) = 7
  /\ \A o \in {Order, SwappedOrder} :
       /\ \A j \in 1 .. 7 : o[j] \in Settings
       /\ \A j, k \in 1 .. 7 : o[j] = o[k] => j = k
       /\ \A n \in Settings : \E j \in 1 .. 7 : o[j] = n
<1>1. Len(Order) = 7
  BY DEF Order
<1>2. /\ Order[1] = "limit" /\ Order[2] = "soft" /\ Order[3] = "memsw"
      /\ Order[4] = "kmem" /\ Order[5] = "kmemtcp" /\ Order[6] = "oom"
      /\ Order[7] = "swappiness"
  BY DEF Order
<1>3. /\ SwappedOrder[1] = "soft" /\ SwappedOrder[2] = "limit"
      /\ SwappedOrder[3] = "memsw" /\ SwappedOrder[4] = "kmem"
      /\ SwappedOrder[5] = "kmemtcp" /\ SwappedOrder[6] = "oom"
      /\ SwappedOrder[7] = "swappiness"
  BY DEF Order, SwappedOrder
<1>4. \A j \in 1 .. 7 : j = 1 \/ j = 2 \/ j = 3 \/ j = 4 \/ j = 5 \/ j = 6 \/ j = 7
  OBVIOUS
<1>5. \A o \in {Order, SwappedOrder} : \A j \in 1 .. 7 : o[j] \in Settings
  BY <1>2, <1>3, <1>4 DEF Settings
<1>6. \A o \in {Order, SwappedOrder} : \A j, k \in 1 .. 7 : o[j] = o[k] => j = k
  BY <1>2, <1>3, <1>4
<1>7. \A o \in {Order, SwappedOrder} : \A n \in Settings : \E j \in 1 .. 7 : o[j] = n
  <2>1. \A n \in Settings : \E j \in 1 .. 7 : Order[j] = n
    BY <1>2 DEF Settings
  <2>2. \A n \in Settings : \E j \in 1 .. 7 : SwappedOrder[j] = n
    BY <1>3 DEF Settings
  <2> QED BY <2>1, <2>2
<1> QED BY <1>1, <1>5, <1>6, <1>7

\* What a request asks for can be stored in a file.
LEMMA StoredType ==
  ASSUME NEW r \in Requests, NEW n \in Settings, Value(r, n) # Nil
  PROVE  Stored(Value(r, n)) \in Amounts
<1>1. r \in [Fields -> (-1 .. Unlimited) \cup {Nil}]
  BY RequestsAssumption
<1>2. Value(r, n) \in (-1 .. Unlimited) \cup {Nil}
  BY <1>1, UnlimitedAssumption DEF Value, OomControlValue, Settings, Fields
<1> QED BY <1>2, UnlimitedAssumption DEF Stored, Amounts

\* The kernel answers a write with "ok" or an errno, and the errno tells which
\* rule refused it.
LEMMA VerdictsType ==
  ASSUME NEW n, NEW v
  PROVE  /\ Verdicts(n, v) \subseteq Errors \cup {"ok"}
         /\ "EINVAL" \in Verdicts(n, v) =>
              \/ n = "limit" /\ v > file["memsw"]
              \/ n = "memsw" /\ v < file["limit"]
         /\ "ok" \in Verdicts(n, v) =>
              /\ n = "limit" => ~(v > file["memsw"])
              /\ n = "memsw" => ~(v < file["limit"])
<1> DEFINE Absent   == ~exists
           NoSwap   == exists /\ n = "memsw" /\ ~swapAccounting
           BelowLim == exists /\ n = "memsw" /\ swapAccounting /\ v < file["limit"]
           AboveSw  == exists /\ n = "limit" /\ v > file["memsw"]
           Late     == exists /\ n = "kmem" /\ populated /\ ~accounted /\ v # Unlimited
<1>1. CASE Absent
  <2>1. Verdicts(n, v) = {"ENOENT"}
    BY <1>1 DEF Verdicts
  <2> QED BY <2>1 DEF Errors
<1>2. CASE NoSwap
  <2>1. Verdicts(n, v) = {"EACCES"}
    BY <1>2 DEF Verdicts
  <2> QED BY <2>1 DEF Errors
<1>3. CASE BelowLim
  <2>1. Verdicts(n, v) = {"EINVAL"}
    BY <1>3 DEF Verdicts
  <2> QED BY <2>1, <1>3 DEF Errors
<1>4. CASE AboveSw
  <2>1. Verdicts(n, v) = {"EINVAL"}
    BY <1>4 DEF Verdicts
  <2> QED BY <2>1, <1>4 DEF Errors
<1>5. CASE Late
  <2>1. Verdicts(n, v) = {"EBUSY"}
    BY <1>5 DEF Verdicts
  <2> QED BY <2>1 DEF Errors
<1>6. CASE ~(Absent \/ NoSwap \/ BelowLim \/ AboveSw \/ Late)
  <2>1. Verdicts(n, v) \subseteq {"ok", "EBUSY"}
    BY <1>6 DEF Verdicts
  <2> QED BY <2>1, <1>6 DEF Errors
<1> QED BY <1>1, <1>2, <1>3, <1>4, <1>5, <1>6

-----------------------------------------------------------------------------
(***************************************************************************)
(* Type correctness.                                                       *)
(***************************************************************************)
\* Every variable of the controller model keeps its type in every behaviour.
THEOREM Typing == Spec => []TypeOK
<1>1. Init => TypeOK
  <2>1. FreshFile \in [Settings -> Amounts]
    BY UnlimitedAssumption DEF FreshFile, Amounts
  <2>2. NoStats \in [StatNames -> Amounts]
    BY UnlimitedAssumption DEF NoStats, Amounts
  <2> SUFFICES ASSUME Init PROVE TypeOK
    OBVIOUS
  <2>3. file \in [Settings -> Amounts] /\ stats \in [Procs -> [StatNames -> Amounts]]
    BY <2>1, <2>2 DEF Init
  <2>4. /\ order \in [Procs -> {Order, SwappedOrder}]
        /\ touched \in [Procs -> SUBSET Settings]
        /\ at \in [Procs -> 1 .. 8]
        /\ ignored \in [Procs -> IgnoredSets]
    BY DEF Init, IgnoredSets
  <2> QED BY <2>3, <2>4 DEF Init, TypeOK
<1>2. TypeOK /\ [Next]_vars => TypeOK'
  <2> SUFFICES ASSUME TypeOK, [Next]_vars PROVE TypeOK'
    OBVIOUS
  <2> USE DEF TypeOK
  <2>1. ASSUME NEW p \in Procs, NEW o \in {"Create", "Update", "Stat"},
               NEW r \in Requests \cup {NoMemory}, Call(p, o, r)
        PROVE  TypeOK'
    <3>1. Entry[o] \in {"mkdir", "order", "open"}
      BY DEF Entry
    <3>2. NoStats \in [StatNames -> Amounts]
      BY UnlimitedAssumption DEF NoStats, Amounts
    <3> QED BY <2>1, <3>1, <3>2 DEF Call, group
  <2>2. ASSUME NEW p \in Procs, Mkdir(p), UNCHANGED ignored PROVE TypeOK'
    BY <2>2 DEF Mkdir, AfterMkdir, Return, Goto, call, group, Errors
  <2>3. \A p \in Procs, n \in Settings, v \in Amounts :
          Accept(p, n, v) => /\ file' \in [Settings -> Amounts]
                             /\ exists' \in BOOLEAN /\ accounted' \in BOOLEAN
                             /\ populated' \in BOOLEAN
                             /\ swapAccounting' \in BOOLEAN /\ mounted' \in BOOLEAN
                             /\ touched' \in [Procs -> SUBSET Settings]
    BY DEF Accept
  <2>4. \A n \in Settings, v \in Amounts : Verdicts(n, v) \subseteq Errors \cup {"ok"}
    BY VerdictsType
  <2>5. \A p \in Procs, r \in Errors \cup {"ok"} :
          Return(p, r) => /\ pc' \in [Procs -> {"new", "idle", "mkdir", "probeOn",
                                  "probeOff", "order", "set", "open", "read"}]
                          /\ result' \in [Procs -> Errors \cup {"none", "ok"}]
                          /\ order' \in [Procs -> {Order, SwappedOrder}]
                          /\ UNCHANGED <<op, req, at, stats>>
    BY DEF Return, call
  <2>6. ASSUME NEW p \in Procs, ProbeOn(p) \/ ProbeOff(p), UNCHANGED ignored PROVE TypeOK'
    <3>1. 1 \in Amounts /\ Unlimited \in Amounts /\ "kmem" \in Settings
      BY UnlimitedAssumption DEF Amounts, Settings
    <3>2. PICK f \in {"probeOn", "probeOff"}, v \in Amounts,
               l \in {"probeOff", "set"} : Probe(p, f, v, l)
      BY <2>6, <3>1 DEF ProbeOn, ProbeOff
    <3>3. CASE Accept(p, "kmem", v) /\ Goto(p, l) /\ UNCHANGED <<order, at>>
      BY <2>6, <3>1, <3>3, <2>3 DEF Goto, call
    <3>4. CASE \E r \in Errors : Return(p, r) /\ UNCHANGED <<group, touched>>
      BY <2>6, <3>4, <2>5 DEF group
    <3> QED BY <3>1, <3>2, <3>3, <3>4, <2>4 DEF Probe, Errors
  <2>7. ASSUME NEW p \in Procs, ChooseOrder(p), UNCHANGED ignored PROVE TypeOK'
    BY <2>7 DEF ChooseOrder, Return, Goto, call, group, Errors
  <2>8. ASSUME NEW p \in Procs, Write(p), UNCHANGED ignored PROVE TypeOK'
    <3>1. PICK j \in at[p] .. Len(Order) :
            /\ Asked(p, order[p][j])
            /\ LET n == order[p][j]
                   v == Stored(Value(req[p], n))
               IN \/ /\ at' = [at EXCEPT ![p] = j + 1]
                     /\ Accept(p, n, v)
                     /\ UNCHANGED <<pc, call, order, result, stats>>
                  \/ \E r \in (Verdicts(n, v) \ {"ok"}) \cup {"EIO"} :
                       Return(p, r) /\ UNCHANGED <<group, touched>>
      BY <2>8 DEF Write
    <3> DEFINE n == order[p][j]
               v == Stored(Value(req[p], n))
    <3>2. j \in 1 .. 7 /\ j + 1 \in 1 .. 8
      <4>1. at[p] \in 1 .. 8
        OBVIOUS
      <4>2. j \in at[p] .. 7
        BY OrderFacts
      <4> QED BY <4>1, <4>2
    <3>3. n \in Settings
      BY <3>2, OrderFacts
    <3>4. v \in Amounts
      BY <3>1, <3>3, StoredType DEF Asked
    <3> HIDE DEF n, v
    <3>5. CASE /\ at' = [at EXCEPT ![p] = j + 1]
               /\ Accept(p, n, v)
               /\ UNCHANGED <<pc, call, order, result, stats>>
      BY <2>8, <3>2, <3>3, <3>4, <3>5, <2>3 DEF call
    <3>6. CASE \E r \in Errors : Return(p, r) /\ UNCHANGED <<group, touched>>
      BY <2>8, <3>6, <2>5 DEF group
    <3>7. Verdicts(n, v) \subseteq Errors \cup {"ok"} /\ "EIO" \in Errors
      BY <3>3, <3>4, <2>4 DEF Errors
    <3> QED BY <3>1, <3>5, <3>6, <3>7 DEF n, v
  <2>9. ASSUME NEW p \in Procs, SetDone(p) \/ StatDone(p), UNCHANGED ignored
        PROVE  TypeOK'
    BY <2>9, <2>5 DEF SetDone, StatDone, group
  <2>10. ASSUME NEW p \in Procs, StatOpen(p), UNCHANGED ignored PROVE TypeOK'
    <3>1. \/ \E r \in Errors : Return(p, r) /\ UNCHANGED <<group, touched>>
          \/ Goto(p, "read") /\ UNCHANGED <<order, at, group, touched>>
      BY <2>10 DEF StatOpen, Errors
    <3>2. CASE \E r \in Errors : Return(p, r) /\ UNCHANGED <<group, touched>>
      BY <2>10, <3>2, <2>5 DEF group
    <3>3. CASE Goto(p, "read") /\ UNCHANGED <<order, at, group, touched>>
      BY <2>10, <3>3 DEF Goto, call, group
    <3> QED BY <3>1, <3>2, <3>3
  <2>11. ASSUME NEW p \in Procs, StatRead(p), UNCHANGED ignored PROVE TypeOK'
    <3>1. Len(Modules) = 4
      BY DEF Modules
    <3>2. at[p] \in 1 .. 4 /\ at[p] + 1 \in 1 .. 8
      <4>1. at[p] <= Len(Modules)
        BY <2>11, Zenon DEF StatRead
      <4> QED BY <3>1, <4>1
    <3>3. \A k \in 1 .. 4 : Modules[k] \in StatNames /\ Modules[k] \in Settings
      <4>1. /\ Modules[1] = "limit" /\ Modules[2] = "memsw"
            /\ Modules[3] = "kmem" /\ Modules[4] = "kmemtcp"
        BY DEF Modules
      <4>2. \A k \in 1 .. 4 : k = 1 \/ k = 2 \/ k = 3 \/ k = 4
        OBVIOUS
      <4> QED BY <4>1, <4>2 DEF StatNames, Settings
    <3> DEFINE n == Modules[at[p]]
    <3>4. n \in StatNames /\ n \in Settings
      BY <3>2, <3>3
    <3> HIDE DEF n
    <3>5. \/ /\ at' = [at EXCEPT ![p] = @ + 1]
             /\ stats' = stats \/ stats' = [stats EXCEPT ![p][n] = file[n]]
             /\ UNCHANGED <<pc, op, req, order, result, group, touched>>
          \/ \E r \in Errors : Return(p, r) /\ UNCHANGED <<group, touched>>
      BY <2>11 DEF StatRead, n, Errors, call
    <3>6. CASE \E r \in Errors : Return(p, r) /\ UNCHANGED <<group, touched>>
      BY <2>11, <3>6, <2>5 DEF group
    <3>7. CASE /\ at' = [at EXCEPT ![p] = @ + 1]
               /\ stats' = stats \/ stats' = [stats EXCEPT ![p][n] = file[n]]
               /\ UNCHANGED <<pc, op, req, order, result, group, touched>>
      <4>1. at' \in [Procs -> 1 .. 8]
        BY <3>2, <3>7
      <4>2. stats' \in [Procs -> [StatNames -> Amounts]]
        <5>1. CASE stats' = stats
          BY <5>1
        <5>2. CASE stats' = [stats EXCEPT ![p][n] = file[n]]
          <6>1. file[n] \in Amounts /\ stats[p] \in [StatNames -> Amounts]
            BY <3>4
          <6>2. [stats[p] EXCEPT ![n] = file[n]] \in [StatNames -> Amounts]
            BY <3>4, <6>1
          <6>3. stats' = [stats EXCEPT ![p] = [stats[p] EXCEPT ![n] = file[n]]]
            BY <5>2
          <6> QED BY <6>2, <6>3
        <5> QED BY <3>7, <5>1, <5>2
      <4> QED BY <2>11, <3>7, <4>1, <4>2 DEF group
    <3> QED BY <3>5, <3>6, <3>7
  <2>12. CASE Mount \/ Join
    BY <2>12 DEF Mount, Join, local
  <2>13. CASE UNCHANGED vars
    BY <2>13 DEF vars
  <2>14. ASSUME NEW p \in Procs, Crash(p) PROVE TypeOK'
    <3>1. NoStats \in [StatNames -> Amounts]
      BY UnlimitedAssumption DEF NoStats, Amounts
    <3>2. {} \in IgnoredSets
      BY DEF IgnoredSets
    <3>3. /\ ignored' \in [Procs -> IgnoredSets]
          /\ pc' \in [Procs -> {"new", "idle", "mkdir", "probeOn", "probeOff", "order",
                               "set", "open", "read"}]
          /\ op' \in [Procs -> {"none", "Create", "Update", "Stat"}]
          /\ req' \in [Procs -> Requests \cup {NoMemory}]
      BY <2>14, <3>2 DEF Crash
    <3>4. /\ order' \in [Procs -> {Order, SwappedOrder}]
          /\ at' \in [Procs -> 1 .. 8]
          /\ stats' \in [Procs -> [StatNames -> Amounts]]
          /\ touched' \in [Procs -> SUBSET Settings]
      BY <2>14, <3>1 DEF Crash
    <3>5. UNCHANGED group /\ UNCHANGED result
      BY <2>14 DEF Crash
    <3> QED BY <3>3, <3>4, <3>5 DEF group
  <2>15. ASSUME NEW p \in Procs, NewMemory(p) PROVE TypeOK'
    BY <2>15 DEF NewMemory, group, call, IgnoredSets
  <2> QED
    BY <2>1, <2>2, <2>6, <2>7, <2>8, <2>9, <2>10, <2>11, <2>12, <2>13, <2>14, <2>15
       DEF Next, Step
<1> QED BY <1>1, <1>2, PTL DEF Spec

-----------------------------------------------------------------------------
(***************************************************************************)
(* What a call leaves behind.  A step of q touches the group only by       *)
(* making it, by accounting kernel memory or by one accepted write, and    *)
(* such a write is recorded in touched[p] for every other p.               *)
(***************************************************************************)
Acts(q) ==
  \/ NewMemory(q)
  \/ \E o \in {"Create", "Update", "Stat"}, r \in Requests \cup {NoMemory} :
        Call(q, o, r)
  \/ Step(q)
  \/ Crash(q)

\* A step of one process leaves another process's call where it was, and
\* changes no setting that is still outside that process's touched set.
LEMMA OtherProcess ==
  ASSUME TypeOK, NEW p \in Procs, NEW q \in Procs, p # q, Acts(q)
  PROVE  /\ pc'[p] = pc[p] /\ op'[p] = op[p] /\ req'[p] = req[p]
         /\ order'[p] = order[p] /\ at'[p] = at[p] /\ result'[p] = result[p]
         /\ accounted => accounted'
         /\ \A n \in Settings :
               n \notin touched'[p] => n \notin touched[p] /\ file'[n] = file[n]
<1> USE DEF TypeOK
<1> DEFINE Locals == /\ pc'[p] = pc[p] /\ op'[p] = op[p] /\ req'[p] = req[p]
                     /\ order'[p] = order[p] /\ at'[p] = at[p]
                     /\ result'[p] = result[p]
           Quiet == accounted' = accounted /\ file' = file /\ touched'[p] = touched[p]
<1>1. \A r : Return(q, r) => UNCHANGED <<op, req, at>> /\ Locals
  BY DEF Return, call
<1>2. \A n \in Settings, v \in Amounts :
        Accept(q, n, v) =>
          /\ accounted => accounted'
          /\ \A m \in Settings : m \notin touched'[p] =>
                m \notin touched[p] /\ file'[m] = file[m]
  BY DEF Accept
<1>3. CASE \E o \in {"Create", "Update", "Stat"}, r \in Requests \cup {NoMemory} :
             Call(q, o, r)
  <2>1. Locals /\ Quiet
    BY <1>3 DEF Call, group
  <2> QED BY <2>1
<1>4. CASE Mkdir(q) \/ ChooseOrder(q)
  <2>1. Locals /\ Quiet
    BY <1>4, <1>1 DEF Mkdir, AfterMkdir, ChooseOrder, Goto, call, group
  <2> QED BY <2>1
<1>5. CASE SetDone(q) \/ StatDone(q) \/ StatOpen(q) \/ StatRead(q)
  <2>1. Locals /\ Quiet
    BY <1>5, <1>1 DEF SetDone, StatDone, StatOpen, StatRead, Goto, call, group
  <2> QED BY <2>1
<1>6. CASE ProbeOn(q) \/ ProbeOff(q)
  <2>1. 1 \in Amounts /\ Unlimited \in Amounts /\ "kmem" \in Settings
    BY UnlimitedAssumption DEF Amounts, Settings
  <2>2. PICK f \in {"probeOn", "probeOff"}, v \in Amounts, l \in {"probeOff", "set"} :
          Probe(q, f, v, l)
    BY <1>6, <2>1 DEF ProbeOn, ProbeOff
  <2>3. Locals
    BY <2>2, <1>1 DEF Probe, Goto, call
  <2>4. Accept(q, "kmem", v) \/ Quiet
    BY <2>2 DEF Probe, group
  <2> QED BY <2>1, <2>3, <2>4, <1>2
<1>7. CASE Write(q)
  <2>1. PICK j \in at[q] .. Len(Order) :
          /\ Asked(q, order[q][j])
          /\ LET n == order[q][j]
                 v == Stored(Value(req[q], n))
             IN \/ /\ at' = [at EXCEPT ![q] = j + 1]
                   /\ Accept(q, n, v)
                   /\ UNCHANGED <<pc, call, order, result, stats>>
                \/ \E r : Return(q, r) /\ UNCHANGED <<group, touched>>
    BY <1>7 DEF Write
  <2> DEFINE n == order[q][j]
             v == Stored(Value(req[q], n))
  <2>2. j \in 1 .. 7
    <3>1. at[q] \in 1 .. 8 /\ j \in at[q] .. 7
      BY OrderFacts
    <3> QED BY <3>1
  <2>3. n \in Settings /\ v \in Amounts
    <3>1. n \in Settings
      BY <2>2, OrderFacts
    <3> QED BY <2>1, <3>1, StoredType DEF Asked
  <2> HIDE DEF n, v
  <2>4. Locals
    BY <2>1, <1>1 DEF call
  <2>5. Accept(q, n, v) \/ Quiet
    BY <2>1 DEF n, v, group
  <2> QED BY <2>3, <2>4, <2>5, <1>2
<1>8. CASE NewMemory(q) \/ Crash(q)
  <2>1. Locals /\ Quiet
    BY <1>8 DEF NewMemory, Crash, group, call
  <2> QED BY <2>1
<1> QED BY <1>3, <1>4, <1>5, <1>6, <1>7, <1>8 DEF Acts, Step

(***************************************************************************)
(* The inductive invariant.                                                *)
(***************************************************************************)
ProcInv(p) == Control(p) /\ Probed(p) /\ Applied(p)

\* A step of a process's own call keeps what the invariant says of that call.
LEMMA OwnStep ==
  ASSUME TypeOK, NEW p \in Procs, ProcInv(p), Acts(p)
  PROVE  ProcInv(p)'
<1> USE DEF TypeOK
<1>1. ASSUME NEW r \in Errors, Return(p, r), UNCHANGED <<group, touched>>
      PROVE  ProcInv(p)'
  <2>1. /\ result'[p] = r /\ pc'[p] = "idle" /\ op'[p] = op[p] /\ req'[p] = req[p]
        /\ at'[p] = at[p] /\ accounted' = accounted /\ r # "ok"
    BY <1>1 DEF Return, call, group, Errors
  <2>2. Control(p)'
    BY <2>1 DEF ProcInv, Control
  <2>3. Probed(p)'
    BY <2>1 DEF ProcInv, Probed, Asked
  <2>4. Applied(p)'
    BY <2>1 DEF Applied, Passed
  <2> QED BY <2>2, <2>3, <2>4 DEF ProcInv
<1>2. CASE \E o \in {"Create", "Update", "Stat"}, r \in Requests \cup {NoMemory} :
             Call(p, o, r)
  <2>1. PICK o \in {"Create", "Update", "Stat"}, r \in Requests \cup {NoMemory} :
          Call(p, o, r)
    BY <1>2
  <2>2. /\ pc'[p] = Entry[o] /\ op'[p] = o /\ req'[p] = r /\ at'[p] = 1
        /\ result'[p] = "none" /\ (o = "Stat" => r = NoMemory)
    BY <2>1 DEF Call
  <2>3. Entry["Create"] = "mkdir" /\ Entry["Update"] = "order" /\ Entry["Stat"] = "open"
    BY DEF Entry
  <2>4. Control(p)'
    BY <2>2, <2>3 DEF Control
  <2>5. Probed(p)' /\ Applied(p)'
    BY <2>2, <2>3 DEF Probed, Applied, Passed
  <2> QED BY <2>4, <2>5 DEF ProcInv
<1>3. CASE Mkdir(p)
  <2>1. CASE Return(p, "EIO") /\ UNCHANGED <<group, touched>>
    BY <2>1, <1>1 DEF Errors
  <2>2. CASE /\ AfterMkdir(p)
             /\ UNCHANGED <<file, accounted, populated, swapAccounting, mounted, touched>>
    <3>1. op[p] = "Create" /\ at[p] = 1 /\ result[p] = "none"
      BY <1>3 DEF Mkdir, ProcInv, Control
    <3>2. CASE req[p] = NoMemory /\ Return(p, "ok")
      <4>1. /\ pc'[p] = "idle" /\ result'[p] = "ok" /\ req'[p] = NoMemory
            /\ op'[p] = op[p] /\ at'[p] = 1
        BY <3>1, <3>2 DEF Return, call
      <4> QED BY <3>1, <4>1
              DEF ProcInv, Control, Probed, Applied, Passed, Asked
    <3>3. CASE /\ req[p] # NoMemory /\ req[p]["Kernel"] # Nil
               /\ Goto(p, "probeOn") /\ UNCHANGED <<order, at>>
      <4>1. /\ pc'[p] = "probeOn" /\ result'[p] = "none" /\ req'[p] = req[p]
            /\ op'[p] = op[p] /\ at'[p] = 1
        BY <3>1, <3>3 DEF Goto, call
      <4> QED BY <3>1, <3>3, <4>1
              DEF ProcInv, Control, Probed, Applied, Passed
    <3>4. CASE /\ req[p] # NoMemory /\ req[p]["Kernel"] = Nil
               /\ Goto(p, "set") /\ UNCHANGED <<order, at>>
      <4>1. /\ pc'[p] = "set" /\ result'[p] = "none" /\ req'[p] = req[p]
            /\ op'[p] = op[p] /\ at'[p] = 1
        BY <3>1, <3>4 DEF Goto, call
      <4>2. ~Asked(p, "kmem")'
        BY <3>4, <4>1 DEF Asked, Value
      <4>3. Control(p)'
        BY <3>1, <3>4, <4>1 DEF ProcInv, Control
      <4>4. Probed(p)'
        BY <4>2 DEF Probed
      <4>5. Applied(p)'
        BY <4>1 DEF Applied, Passed
      <4> QED BY <4>3, <4>4, <4>5 DEF ProcInv
    <3> QED BY <2>2, <3>2, <3>3, <3>4 DEF AfterMkdir
  <2> QED BY <1>3, <2>1, <2>2 DEF Mkdir
<1>4. CASE ProbeOn(p) \/ ProbeOff(p)
  <2>1. PICK f \in {"probeOn", "probeOff"}, v \in {1, Unlimited}, l \in {"probeOff", "set"} :
          /\ Probe(p, f, v, l)
          /\ \/ f = "probeOn" /\ v = 1 /\ l = "probeOff"
             \/ f = "probeOff" /\ v = Unlimited /\ l = "set"
    BY <1>4 DEF ProbeOn, ProbeOff
  <2>2. /\ pc[p] = f /\ op[p] = "Create" /\ at[p] = 1 /\ result[p] = "none"
        /\ req[p] # NoMemory
    BY <2>1 DEF Probe, ProcInv, Control
  <2>3. CASE Accept(p, "kmem", v) /\ Goto(p, l) /\ UNCHANGED <<order, at>>
    <3>1. /\ pc'[p] = l /\ result'[p] = "none" /\ req'[p] = req[p]
          /\ op'[p] = op[p] /\ at'[p] = 1
      BY <2>2, <2>3 DEF Goto, call
    <3>2. Asked(p, "kmem") => accounted'
      <4>1. CASE f = "probeOn"
        <5>1. v # Unlimited
          BY <2>1, <4>1, UnlimitedAssumption
        <5> QED BY <2>3, <5>1 DEF Accept
      <4>2. CASE f = "probeOff"
        <5>1. Asked(p, "kmem") => accounted
          BY <2>2, <4>2 DEF ProcInv, Probed
        <5>2. accounted => accounted'
          BY <2>3 DEF Accept
        <5> QED BY <5>1, <5>2
      <4> QED BY <4>1, <4>2
    <3>3. Control(p)'
      BY <2>1, <2>2, <3>1 DEF ProcInv, Control
    <3>4. Probed(p)'
      BY <3>1, <3>2 DEF Probed, Asked
    <3>5. Applied(p)'
      BY <3>1, <2>1 DEF Applied, Passed
    <3> QED BY <3>3, <3>4, <3>5 DEF ProcInv
  <2>4. CASE \E r \in (Verdicts("kmem", v) \ {"ok"}) \cup {"EIO"} :
               Return(p, r) /\ UNCHANGED <<group, touched>>
    <3>1. (Verdicts("kmem", v) \ {"ok"}) \cup {"EIO"} \subseteq Errors
      BY VerdictsType DEF Errors
    <3> QED BY <2>4, <3>1, <1>1
  <2> QED BY <2>1, <2>3, <2>4 DEF Probe
<1>5. CASE ChooseOrder(p)
  <2>1. op[p] = "Update" /\ at[p] = 1 /\ result[p] = "none"
    BY <1>5 DEF ChooseOrder, ProcInv, Control
  <2>2. CASE req[p] = NoMemory /\ Return(p, "ok")
    <3>1. /\ pc'[p] = "idle" /\ result'[p] = "ok" /\ req'[p] = NoMemory
          /\ op'[p] = op[p] /\ at'[p] = 1
      BY <2>1, <2>2 DEF Return, call
    <3> QED BY <2>1, <3>1
            DEF ProcInv, Control, Probed, Applied, Passed, Asked
  <2>3. CASE req[p] # NoMemory /\ Goto(p, "set") /\ UNCHANGED at
    <3>1. /\ pc'[p] = "set" /\ result'[p] = "none" /\ req'[p] = req[p]
          /\ op'[p] = op[p] /\ at'[p] = 1
      BY <2>1, <2>3 DEF Goto, call
    <3>2. Control(p)' /\ Probed(p)'
      BY <2>1, <2>3, <3>1 DEF Control, Probed
    <3>3. Applied(p)'
      BY <3>1 DEF Applied, Passed
    <3> QED BY <3>2, <3>3 DEF ProcInv
  <2>4. CASE \E r \in {"EIO", "ENOENT"} : Return(p, r) /\ UNCHANGED <<group, touched>>
    BY <2>4, <1>1 DEF Errors
  <2> QED BY <1>5, <2>2, <2>3, <2>4 DEF ChooseOrder
<1>6. CASE Write(p)
  <2>1. PICK j \in at[p] .. Len(Order) :
          /\ NextIs(p, j) /\ Asked(p, order[p][j])
          /\ LET n == order[p][j]
                 v == Stored(Value(req[p], n))
             IN \/ /\ at' = [at EXCEPT ![p] = j + 1]
                   /\ Accept(p, n, v)
                   /\ UNCHANGED <<pc, call, order, result, stats>>
                \/ \E r \in (Verdicts(n, v) \ {"ok"}) \cup {"EIO"} :
                     Return(p, r) /\ UNCHANGED <<group, touched>>
    BY <1>6 DEF Write
  <2> DEFINE n == order[p][j]
             v == Stored(Value(req[p], n))
  <2>2. at[p] \in 1 .. 8 /\ j \in 1 .. 7
    <3>1. at[p] \in 1 .. 8 /\ j \in at[p] .. 7
      BY OrderFacts
    <3> QED BY <3>1
  <2>3. n \in Settings /\ v \in Amounts
    <3>1. n \in Settings
      BY <2>2, OrderFacts
    <3> QED BY <2>1, <3>1, StoredType DEF Asked
  <2>4. pc[p] = "set" /\ result[p] = "none" /\ req[p] # NoMemory
    BY <2>1 DEF NextIs, ProcInv, Control
  <2>5. CASE /\ at' = [at EXCEPT ![p] = j + 1]
             /\ Accept(p, n, v)
             /\ UNCHANGED <<pc, call, order, result, stats>>
    <3>1. /\ pc' = pc /\ op' = op /\ req' = req /\ order' = order
          /\ result' = result /\ at'[p] = j + 1
      BY <2>5 DEF call
    <3>2. Control(p)'
      BY <2>4, <3>1 DEF ProcInv, Control
    <3>3. Probed(p)'
      BY <2>4, <2>5, <3>1 DEF ProcInv, Probed, Asked, Accept
    <3>4. ASSUME NEW m \in Settings, Passed(p, m)', Asked(p, m)', m \notin touched'[p]
          PROVE  file'[m] = Stored(Value(req[p], m))
      <4>1. PICK k \in 1 .. j : order[p][k] = m
        BY <2>2, <2>4, <3>1, <3>4 DEF Passed
      <4>2. CASE m = n
        BY <2>3, <2>5, <4>2 DEF Accept
      <4>3. CASE m # n
        <5>1. k \in 1 .. (j - 1)
          BY <2>2, <4>1, <4>3
        <5>2. Asked(p, m)
          BY <3>1, <3>4 DEF Asked
        <5>3. k \in 1 .. (at[p] - 1)
          BY <2>1, <2>2, <4>1, <5>1, <5>2 DEF NextIs
        <5>4. Passed(p, m) /\ m \notin touched[p] /\ file'[m] = file[m]
          BY <2>3, <2>4, <2>5, <3>4, <4>1, <4>3, <5>3 DEF Passed, Accept
        <5> QED BY <5>2, <5>4 DEF ProcInv, Applied
      <4> QED BY <4>2, <4>3
    <3>5. Applied(p)'
      BY <3>1, <3>4 DEF Applied
    <3> QED BY <3>2, <3>3, <3>5 DEF ProcInv
  <2>6. CASE \E r \in (Verdicts(n, v) \ {"ok"}) \cup {"EIO"} :
               Return(p, r) /\ UNCHANGED <<group, touched>>
    <3>1. (Verdicts(n, v) \ {"ok"}) \cup {"EIO"} \subseteq Errors
      BY VerdictsType DEF Errors
    <3> HIDE DEF n, v
    <3> QED BY <2>6, <3>1, <1>1
  <2> QED BY <2>1, <2>5, <2>6
<1>7. CASE SetDone(p)
  <2>1. /\ pc[p] = "set" /\ result[p] = "none" /\ req[p] # NoMemory
        /\ \A k \in at[p] .. 7 : ~Asked(p, order[p][k])
    BY <1>7, OrderFacts DEF SetDone, NextIs, ProcInv, Control
  <2>2. /\ pc'[p] = "idle" /\ result'[p] = "ok" /\ req'[p] = req[p] /\ op'[p] = op[p]
        /\ UNCHANGED <<file, accounted, touched>>
    BY <1>7 DEF SetDone, Return, call, group
  <2>3. ASSUME NEW m \in Settings, Asked(p, m), m \notin touched[p]
        PROVE  file[m] = Stored(Value(req[p], m))
    <3>1. PICK k \in 1 .. 7 : order[p][k] = m
      BY OrderFacts
    <3>2. at[p] \in 1 .. 8
      OBVIOUS
    <3>3. k \in 1 .. (at[p] - 1)
      <4>1. ~(k \in at[p] .. 7)
        BY <2>1, <2>3, <3>1
      <4> QED BY <3>1, <3>2, <4>1
    <3> QED BY <2>1, <2>3, <3>1, <3>3 DEF ProcInv, Applied, Passed
  <2>4. Applied(p)'
    BY <2>2, <2>3 DEF Applied, Asked
  <2>5. Probed(p)'
    BY <2>1, <2>2 DEF ProcInv, Probed, Asked
  <2>6. Control(p)'
    BY <2>2 DEF ProcInv, Control
  <2> QED BY <2>4, <2>5, <2>6 DEF ProcInv
<1>8. CASE StatOpen(p)
  <2>1. op[p] = "Stat" /\ req[p] = NoMemory /\ result[p] = "none"
    BY <1>8 DEF StatOpen, ProcInv, Control
  <2>2. CASE Goto(p, "read")
    <3>1. /\ pc'[p] = "read" /\ op'[p] = "Stat" /\ req'[p] = NoMemory
          /\ result'[p] = "none"
      BY <2>1, <2>2 DEF Goto, call
    <3> QED BY <3>1 DEF ProcInv, Control, Probed, Applied, Passed
  <2>3. CASE \E r \in {"EIO", "ENOENT"} : Return(p, r) /\ UNCHANGED <<group, touched>>
    BY <2>3, <1>1 DEF Errors
  <2> QED BY <1>8, <2>2, <2>3 DEF StatOpen
<1>9. CASE StatRead(p) \/ StatDone(p)
  <2>1. op[p] = "Stat" /\ req[p] = NoMemory /\ result[p] = "none" /\ pc[p] = "read"
    BY <1>9 DEF StatRead, StatDone, ProcInv, Control
  <2>2. CASE UNCHANGED <<pc, op, req, result>>
    <3>1. /\ pc'[p] = "read" /\ op'[p] = "Stat" /\ req'[p] = NoMemory
          /\ result'[p] = "none"
      BY <2>1, <2>2
    <3> QED BY <3>1 DEF ProcInv, Control, Probed, Applied, Passed
  <2>3. CASE \E r \in {"EIO", "ENOENT"} : Return(p, r) /\ UNCHANGED <<group, touched>>
    BY <2>3, <1>1 DEF Errors
  <2>4. CASE Return(p, "ok")
    <3>1. /\ pc'[p] = "idle" /\ result'[p] = "ok" /\ req'[p] = NoMemory
          /\ op'[p] = "Stat"
      BY <2>1, <2>4 DEF Return, call
    <3> QED BY <3>1
            DEF ProcInv, Control, Probed, Applied, Passed, Asked
  <2> QED BY <1>9, <2>2, <2>3, <2>4 DEF StatRead, StatDone, call
<1>10. CASE NewMemory(p) \/ Crash(p)
  <2>1. CASE NewMemory(p)
    <3>1. /\ pc[p] = "new" /\ pc'[p] = "idle" /\ op'[p] = op[p] /\ req'[p] = req[p]
          /\ at'[p] = at[p] /\ result'[p] = result[p]
          /\ UNCHANGED <<file, accounted, touched>>
      BY <2>1 DEF NewMemory, call, group
    <3> QED BY <3>1 DEF ProcInv, Control, Probed, Applied, Passed, Asked
  <2>2. CASE Crash(p)
    <3>1. /\ pc[p] \notin {"idle", "new"} /\ pc'[p] = "new" /\ op'[p] = "none"
          /\ req'[p] = NoMemory /\ at'[p] = 1 /\ result'[p] = result[p]
      BY <2>2 DEF Crash
    <3> QED BY <3>1 DEF ProcInv, Control, Probed, Applied, Passed
  <2> QED BY <1>10, <2>1, <2>2
<1> QED
  BY <1>2, <1>3, <1>4, <1>5, <1>6, <1>7, <1>8, <1>9, <1>10 DEF Acts, Step

-----------------------------------------------------------------------------
(***************************************************************************)
(* The theorems.                                                           *)
(***************************************************************************)
\* The inductive invariant holds in every behaviour.
THEOREM Inductive == Spec => []CallInv
<1>1. Init => CallInv
  <2> SUFFICES ASSUME Init, NEW p \in Procs PROVE ProcInv(p)
    BY DEF CallInv, ProcInv
  <2>1. /\ pc[p] = "new" /\ op[p] = "none" /\ req[p] = NoMemory
        /\ result[p] = "none"
    BY DEF Init
  <2> QED BY <2>1 DEF ProcInv, Control, Probed, Applied, Passed
<1>2. TypeOK /\ CallInv /\ [Next]_vars => CallInv'
  <2> SUFFICES ASSUME TypeOK, CallInv, [Next]_vars, NEW p \in Procs
               PROVE  ProcInv(p)'
    BY DEF CallInv, ProcInv
  <2>1. ProcInv(p)
    BY DEF CallInv, ProcInv
  <2>2. CASE UNCHANGED <<pc, op, req, order, at, result, file, accounted, touched>>
    BY <2>1, <2>2 DEF ProcInv, Control, Probed, Applied, Passed, Asked
  <2>3. CASE Acts(p)
    BY <2>1, <2>3, OwnStep
  <2>4. ASSUME NEW q \in Procs, q # p, Acts(q) PROVE ProcInv(p)'
    <3>1. /\ pc'[p] = pc[p] /\ op'[p] = op[p] /\ req'[p] = req[p]
          /\ order'[p] = order[p] /\ at'[p] = at[p] /\ result'[p] = result[p]
      BY <2>4, OtherProcess
    <3>2. accounted => accounted'
      BY <2>4, OtherProcess
    <3>3. \A n \in Settings :
            n \notin touched'[p] => n \notin touched[p] /\ file'[n] = file[n]
      BY <2>4, OtherProcess
    <3>4. Control(p)'
      BY <2>1, <3>1 DEF ProcInv, Control
    <3>5. Probed(p)'
      BY <2>1, <3>1, <3>2 DEF ProcInv, Probed, Asked
    <3>6. Applied(p)'
      BY <2>1, <3>1, <3>3 DEF ProcInv, Applied, Passed, Asked
    <3> QED BY <3>4, <3>5, <3>6 DEF ProcInv
  <2> QED BY <2>2, <2>3, <2>4 DEF Next, Acts, Mount, Join, local, vars
<1> QED BY <1>1, <1>2, Typing, PTL DEF Spec

\* A Create or Update that returned nil has put every value asked for in the
\* group's files, except those another process wrote after it.
THEOREM Success == Spec => []AppliedOnSuccess
<1>1. CallInv => AppliedOnSuccess
  BY DEF CallInv, AppliedOnSuccess, Applied, Passed
<1> QED BY <1>1, Inductive, PTL

\* A Create with a kernel limit that returned nil has made kernel memory
\* accounted.
THEOREM Accounted == Spec => []KernelAccounted
<1>1. CallInv => KernelAccounted
  BY DEF CallInv, KernelAccounted, Probed
<1> QED BY <1>1, Inductive, PTL

\* A Create with a kernel limit refused with EBUSY after its first write is
\* refused for memory in use, not for tasks that joined too early.
THEOREM HalfwayBusy == Spec => []HalfwayBusyIsUsage
<1>1. CallInv => HalfwayBusyIsUsage
  BY DEF CallInv, HalfwayBusyIsUsage, Probed
<1> QED BY <1>1, Inductive, PTL

-----------------------------------------------------------------------------
(***************************************************************************)
(* The kernel's ordering rule.                                             *)
(***************************************************************************)
\* No group has a limit above its memsw limit.
SwapAbove == file["limit"] <= file["memsw"]

\* What a step may do to the group's files: nothing, or one accepted write.
LEMMA FileStep ==
  ASSUME TypeOK, [Next]_vars
  PROVE  \/ UNCHANGED file
         \/ \E q \in Procs, n \in Settings, v \in Amounts :
              "ok" \in Verdicts(n, v) /\ Accept(q, n, v)
<1> USE DEF TypeOK
<1>1. ASSUME NEW q \in Procs, ProbeOn(q) \/ ProbeOff(q)
      PROVE  \/ UNCHANGED file
             \/ \E n \in Settings, v \in Amounts :
                  "ok" \in Verdicts(n, v) /\ Accept(q, n, v)
  <2>1. 1 \in Amounts /\ Unlimited \in Amounts /\ "kmem" \in Settings
    BY UnlimitedAssumption DEF Amounts, Settings
  <2>2. PICK f \in {"probeOn", "probeOff"}, v \in Amounts, l \in {"probeOff", "set"} :
          Probe(q, f, v, l)
    BY <1>1, <2>1 DEF ProbeOn, ProbeOff
  <2> QED BY <2>1, <2>2 DEF Probe, group
<1>2. ASSUME NEW q \in Procs, Write(q)
      PROVE  \/ UNCHANGED file
             \/ \E n \in Settings, v \in Amounts :
                  "ok" \in Verdicts(n, v) /\ Accept(q, n, v)
  <2>1. PICK j \in at[q] .. Len(Order) :
          /\ Asked(q, order[q][j])
          /\ \/ /\ "ok" \in Verdicts(order[q][j], Stored(Value(req[q], order[q][j])))
                /\ Accept(q, order[q][j], Stored(Value(req[q], order[q][j])))
             \/ UNCHANGED group
    BY <1>2 DEF Write
  <2>2. j \in 1 .. 7
    <3>1. at[q] \in 1 .. 8 /\ j \in at[q] .. 7
      BY OrderFacts
    <3> QED BY <3>1
  <2>3. order[q][j] \in Settings
    BY <2>2, OrderFacts
  <2>4. Stored(Value(req[q], order[q][j])) \in Amounts
    BY <2>1, <2>3, StoredType DEF Asked
  <2> QED BY <2>1, <2>3, <2>4 DEF group
<1>3. ASSUME NEW q \in Procs,
             \/ NewMemory(q) \/ Crash(q)
             \/ \E o \in {"Create", "Update", "Stat"}, r \in Requests \cup {NoMemory} :
                   Call(q, o, r)
             \/ Mkdir(q) \/ ChooseOrder(q) \/ SetDone(q)
             \/ StatOpen(q) \/ StatRead(q) \/ StatDone(q)
      PROVE  UNCHANGED file
  BY <1>3 DEF NewMemory, Crash, Call, Mkdir, ChooseOrder, SetDone, StatOpen, StatRead,
              StatDone, group
<1>4. CASE Mount \/ Join \/ UNCHANGED vars
  BY <1>4 DEF Mount, Join, vars
<1> QED BY <1>1, <1>2, <1>3, <1>4 DEF Next, Step

\* The kernel's ordering rule keeps the limit at or below the memsw limit.
THEOREM LimitBelowSwap == Spec => []SwapAbove
<1>1. Init => SwapAbove
  BY UnlimitedAssumption DEF Init, SwapAbove, FreshFile, Settings
<1>2. TypeOK /\ SwapAbove /\ [Next]_vars => SwapAbove'
  <2> SUFFICES ASSUME TypeOK, SwapAbove, [Next]_vars PROVE SwapAbove'
    OBVIOUS
  <2>1. CASE UNCHANGED file
    BY <2>1 DEF SwapAbove
  <2>2. ASSUME NEW q \in Procs, NEW n \in Settings, NEW v \in Amounts,
               "ok" \in Verdicts(n, v), Accept(q, n, v)
        PROVE  SwapAbove'
    <3>1. /\ n = "limit" => ~(v > file["memsw"])
          /\ n = "memsw" => ~(v < file["limit"])
      BY <2>2, VerdictsType
    <3>2. file["limit"] \in Nat /\ file["memsw"] \in Nat /\ v \in Nat
      BY UnlimitedAssumption DEF TypeOK, Settings, Amounts
    <3>3. file' = [file EXCEPT ![n] = v] /\ file \in [Settings -> Amounts]
      BY <2>2 DEF Accept, TypeOK
    <3>4. "limit" \in Settings /\ "memsw" \in Settings
      BY DEF Settings
    <3> QED BY <3>1, <3>2, <3>3, <3>4 DEF SwapAbove
  <2> QED BY <2>1, <2>2, FileStep
<1> QED BY <1>1, <1>2, Typing, PTL DEF Spec

\* When p's own step refuses a consistent request, it asks for a limit above
\* the group's memsw limit, or for a memsw limit below a limit it did not set.
LEMMA OwnRefusal ==
  ASSUME TypeOK, NEW p \in Procs, ProcInv(p), Acts(p),
         result[p] # "EINVAL", result'[p] = "EINVAL", Consistent(req[p])
  PROVE  \/ /\ Asked(p, "limit")
            /\ Stored(req[p]["Limit"]) > file["memsw"]
         \/ /\ Asked(p, "memsw") /\ Stored(req[p]["Swap"]) < file["limit"]
            /\ Asked(p, "limit") => "limit" \in touched[p]
<1> USE DEF TypeOK
<1>1. Write(p)
  <2>1. ~NewMemory(p) /\ ~Crash(p)
    BY DEF NewMemory, Crash
  <2>2. ~(\E o \in {"Create", "Update", "Stat"}, r \in Requests \cup {NoMemory} :
            Call(p, o, r))
    BY DEF Call
  <2>3. \A r : Return(p, r) => r = "EINVAL"
    BY DEF Return
  <2>4. \A l : ~Goto(p, l)
    BY DEF Goto
  <2>5. ~Mkdir(p)
    BY <2>3, <2>4 DEF Mkdir, AfterMkdir
  <2>6. ~ProbeOn(p) /\ ~ProbeOff(p)
    <3>1. \A v : "EINVAL" \notin Verdicts("kmem", v)
      BY VerdictsType
    <3> QED BY <2>3, <2>4, <3>1 DEF ProbeOn, ProbeOff, Probe
  <2>7. ~ChooseOrder(p) /\ ~SetDone(p) /\ ~StatOpen(p) /\ ~StatDone(p)
    BY <2>3, <2>4 DEF ChooseOrder, SetDone, StatOpen, StatDone
  <2>8. ~StatRead(p)
    BY <2>3 DEF StatRead
  <2> QED BY <2>1, <2>2, <2>5, <2>6, <2>7, <2>8 DEF Acts, Step
<1>2. PICK j \in at[p] .. Len(Order) :
        /\ NextIs(p, j) /\ Asked(p, order[p][j])
        /\ LET n == order[p][j]
               v == Stored(Value(req[p], n))
           IN \/ UNCHANGED result
              \/ \E r \in (Verdicts(n, v) \ {"ok"}) \cup {"EIO"} : Return(p, r)
  BY <1>1 DEF Write
<1> DEFINE n == order[p][j]
           v == Stored(Value(req[p], n))
<1>3. pc[p] = "set" /\ req[p] # NoMemory
  BY <1>2 DEF NextIs, ProcInv, Control
<1>4. "EINVAL" \in Verdicts(n, v)
  BY <1>2 DEF Return
<1>5. \/ n = "limit" /\ v > file["memsw"]
      \/ n = "memsw" /\ v < file["limit"]
  BY <1>4, VerdictsType
<1>6. j \in 1 .. 7 /\ at[p] \in 1 .. 8
  <2>1. at[p] \in 1 .. 8 /\ j \in at[p] .. 7
    BY OrderFacts
  <2> QED BY <2>1
<1>7. CASE n = "limit"
  BY <1>2, <1>5, <1>7 DEF Value
<1>8. CASE n = "memsw"
  <2>1. Asked(p, "memsw") /\ v = Stored(req[p]["Swap"]) /\ v < file["limit"]
    BY <1>2, <1>5, <1>8 DEF Value
  <2>2. ASSUME Asked(p, "limit"), "limit" \notin touched[p] PROVE FALSE
    <3>1. PICK k \in 1 .. (j - 1) : order[p][k] = "limit"
      <4>1. order[p] \in {Order, SwappedOrder}
        OBVIOUS
      <4>2. Order[1] = "limit" /\ Order[3] = "memsw"
        BY DEF Order
      <4>3. SwappedOrder[2] = "limit" /\ SwappedOrder[3] = "memsw"
        BY DEF Order, SwappedOrder
      <4>4. j = 3
        BY <1>6, <1>8, <4>1, <4>2, <4>3, OrderFacts
      <4> QED BY <4>1, <4>2, <4>3, <4>4
    <3>2. k \in 1 .. (at[p] - 1)
      BY <1>2, <1>6, <2>2, <3>1 DEF NextIs
    <3>3. Passed(p, "limit")
      BY <1>3, <3>1, <3>2 DEF Passed
    <3>4. file["limit"] = Stored(Value(req[p], "limit"))
      BY <2>2, <3>3 DEF ProcInv, Applied, Settings
    <3>5. file["limit"] = Stored(req[p]["Limit"])
      BY <3>4 DEF Value
    <3>6. req[p]["Limit"] # Nil /\ req[p]["Swap"] # Nil
      BY <2>1, <2>2 DEF Asked, Value
    <3>7. file["limit"] <= v
      BY <2>1, <3>5, <3>6 DEF Consistent
    <3>8. v \in Nat /\ file["limit"] \in Nat
      <4>1. v \in Amounts
        BY <1>2, <1>3, <1>8, StoredType DEF Asked, Settings
      <4> QED BY <4>1, UnlimitedAssumption DEF Amounts, Settings
    <3> QED BY <2>1, <3>7, <3>8
  <2> QED BY <2>1, <2>2
<1> QED BY <1>5, <1>7, <1>8

\* The kernel's ordering rule refuses a consistent request only if it raises
\* the limit above memsw, or lowers memsw below a limit that is not its own.
THEOREM Refusal == Spec => RefusedOnlyWhenRaising
<1>1. TypeOK /\ CallInv /\ [Next]_vars =>
        [\A p \in Procs :
           (/\ result[p] # "EINVAL" /\ result'[p] = "EINVAL"
            /\ Consistent(req[p])) =>
             \/ /\ Asked(p, "limit")
                /\ Stored(req[p]["Limit"]) > file["memsw"]
             \/ /\ Asked(p, "memsw") /\ Stored(req[p]["Swap"]) < file["limit"]
                /\ Asked(p, "limit") => "limit" \in touched[p]]_vars
  <2> SUFFICES ASSUME TypeOK, CallInv, [Next]_vars, NEW p \in Procs,
                      result[p] # "EINVAL", result'[p] = "EINVAL", Consistent(req[p])
               PROVE  \/ /\ Asked(p, "limit")
                         /\ Stored(req[p]["Limit"]) > file["memsw"]
                      \/ /\ Asked(p, "memsw")
                         /\ Stored(req[p]["Swap"]) < file["limit"]
                         /\ Asked(p, "limit") => "limit" \in touched[p]
    OBVIOUS
  <2>1. ProcInv(p)
    BY DEF CallInv, ProcInv
  <2>2. ~(Mount \/ Join \/ UNCHANGED vars)
    BY DEF Mount, Join, local, vars
  <2>3. \A q \in Procs : q # p => ~Acts(q)
    BY OtherProcess
  <2>4. Acts(p)
    BY <2>2, <2>3 DEF Next, Acts
  <2> QED BY <2>1, <2>4, OwnRefusal
<1> QED BY <1>1, Typing, Inductive, PTL DEF Spec, RefusedOnlyWhenRaising

-----------------------------------------------------------------------------
(***************************************************************************)
(* Stat.                                                                   *)
(***************************************************************************)
\* Has p's Stat opened memory.stat, and is it still going on or well ended?
InStat(p) == op[p] = "Stat" /\ (pc[p] = "read" \/ result[p] = "ok")

\* Stat has read the first at - 1 modules, those it does not ignore.
ReadSoFar(p) ==
  \A i \in 1 .. 4 :
    IF i < at[p] /\ Modules[i] \notin ignored[p]
    THEN Modules[i] \notin touched[p] => stats[p][Modules[i]] = file[Modules[i]]
    ELSE stats[p][Modules[i]] = 0

Reading(p) ==
  /\ pc[p] = "open" => stats[p] = NoStats /\ at[p] = 1
  /\ (op[p] = "Stat" /\ result[p] = "ok") => at[p] > 4
  /\ InStat(p) => ReadSoFar(p)

\* The limit it read is still below the memsw limit, if nobody wrote that.
Below(p) ==
  (InStat(p) /\ at[p] > 1 /\ "limit" \notin ignored[p] /\ "memsw" \notin touched[p])
    => stats[p]["limit"] <= file["memsw"]

Torn(p) ==
  (/\ InStat(p) /\ at[p] > 2 /\ {"limit", "memsw"} \cap ignored[p] = {}
   /\ stats[p]["limit"] > stats[p]["memsw"]) => {"limit", "memsw"} \subseteq touched[p]

StatInv == \A p \in Procs : Reading(p) /\ Below(p) /\ Torn(p)

LEMMA ModulesFacts ==
  /\ Len(Modules) = 4
  /\ Modules[1] = "limit" /\ Modules[2] = "memsw"
  /\ Modules[3] = "kmem" /\ Modules[4] = "kmemtcp"
  /\ \A i \in 1 .. 4 : Modules[i] \in StatNames /\ Modules[i] \in Settings
  /\ \A i, j \in 1 .. 4 : Modules[i] = Modules[j] => i = j
  /\ \A n \in StatNames : \E i \in 1 .. 4 : Modules[i] = n
<1>1. /\ Len(Modules) = 4
      /\ Modules[1] = "limit" /\ Modules[2] = "memsw"
      /\ Modules[3] = "kmem" /\ Modules[4] = "kmemtcp"
  BY DEF Modules
<1>2. \A k \in 1 .. 4 : k = 1 \/ k = 2 \/ k = 3 \/ k = 4
  OBVIOUS
<1>3. \A n \in StatNames : \E i \in 1 .. 4 : Modules[i] = n
  BY <1>1 DEF StatNames
<1> QED BY <1>1, <1>2, <1>3 DEF StatNames, Settings

\* Only a process's own steps change its controller and the statistics it has
\* read.
LEMMA StatsStay ==
  ASSUME TypeOK, NEW p \in Procs, NEW q \in Procs, p # q, Acts(q)
  PROVE  stats'[p] = stats[p] /\ ignored'[p] = ignored[p]
<1>a. \E S, T : stats \in [Procs -> S] /\ ignored \in [Procs -> T]
  BY DEF TypeOK
<1>1. stats'[p] = stats[p]
  <2>1. CASE NewMemory(q) \/ Crash(q)
    BY <1>a, <2>1 DEF NewMemory, Crash
  <2>2. CASE \E o \in {"Create", "Update", "Stat"}, r \in Requests \cup {NoMemory} :
               Call(q, o, r)
    BY <1>a, <2>2 DEF Call
  <2>3. (\A r : Return(q, r) => stats' = stats) /\ (\A l : Goto(q, l) => stats' = stats)
    BY DEF Return, Goto
  <2>4. CASE Mkdir(q) \/ ProbeOn(q) \/ ProbeOff(q) \/ ChooseOrder(q)
    BY <2>3, <2>4 DEF Mkdir, AfterMkdir, ProbeOn, ProbeOff, Probe, ChooseOrder
  <2>5. CASE Write(q) \/ SetDone(q) \/ StatOpen(q) \/ StatDone(q)
    BY <2>3, <2>5 DEF Write, SetDone, StatOpen, StatDone
  <2>6. CASE StatRead(q)
    BY <1>a, <2>3, <2>6 DEF StatRead
  <2> QED BY <2>1, <2>2, <2>4, <2>5, <2>6 DEF Acts, Step
<1>2. ignored'[p] = ignored[p]
  <2>1. \/ UNCHANGED ignored
        \/ \E s : ignored' = [ignored EXCEPT ![q] = s]
    BY DEF Acts, Step, NewMemory, Crash, Call
  <2> QED BY <1>a, <2>1
<1> QED BY <1>1, <1>2

\* What is known of p's call survives the steps of others, or the file is
\* touched.
LEMMA OtherStat ==
  ASSUME TypeOK, NEW p \in Procs, NEW q \in Procs, p # q, Acts(q),
         Reading(p), Below(p), Torn(p)
  PROVE  Reading(p)' /\ Below(p)' /\ Torn(p)'
<1>1. /\ pc'[p] = pc[p] /\ op'[p] = op[p]
      /\ at'[p] = at[p] /\ result'[p] = result[p] /\ stats'[p] = stats[p]
      /\ ignored'[p] = ignored[p]
  BY OtherProcess, StatsStay
<1>2. \A n \in Settings :
        n \notin touched'[p] => n \notin touched[p] /\ file'[n] = file[n]
  BY OtherProcess
<1>3. InStat(p)' = InStat(p)
  BY <1>1 DEF InStat
<1>4. Reading(p)'
  BY <1>1, <1>2, <1>3, ModulesFacts DEF Reading, ReadSoFar
<1>5. Below(p)'
  BY <1>1, <1>2, <1>3 DEF Below, Settings
<1>6. Torn(p)'
  BY <1>1, <1>2, <1>3 DEF Torn, Settings
<1> QED BY <1>4, <1>5, <1>6

\* A step of p's own.
LEMMA OwnStat ==
  ASSUME TypeOK, SwapAbove, NEW p \in Procs, ProcInv(p), Acts(p),
         Reading(p), Below(p), Torn(p)
  PROVE  Reading(p)' /\ Below(p)' /\ Torn(p)'
<1> USE DEF TypeOK
<1>a. Control(p)
  BY DEF ProcInv
\* A step that is not one of Stat's reads, and returns no result of Stat.
<1>1. ASSUME pc'[p] \notin {"open", "read"}, op'[p] # "Stat" \/ result'[p] # "ok"
      PROVE  Reading(p)' /\ Below(p)' /\ Torn(p)'
  <2>1. ~InStat(p)'
    BY <1>1 DEF InStat
  <2> QED BY <1>1, <2>1 DEF Reading, Below, Torn
<1>3. CASE \E o \in {"Create", "Update", "Stat"}, r \in Requests \cup {NoMemory} :
             Call(p, o, r)
  <2>1. PICK o \in {"Create", "Update", "Stat"}, r \in Requests \cup {NoMemory} :
          Call(p, o, r)
    BY <1>3
  <2>2. /\ pc'[p] = Entry[o] /\ at'[p] = 1 /\ result'[p] = "none"
        /\ stats'[p] = NoStats
    BY <2>1 DEF Call
  <2>3. Entry["Create"] = "mkdir" /\ Entry["Update"] = "order" /\ Entry["Stat"] = "open"
    BY DEF Entry
  <2>4. ~InStat(p)'
    BY <2>2, <2>3 DEF InStat
  <2> QED BY <2>2, <2>3, <2>4 DEF Reading, Below, Torn
<1>4. CASE Mkdir(p) \/ ProbeOn(p) \/ ProbeOff(p)
  <2>1. op[p] = "Create"
    BY <1>4, <1>a DEF Mkdir, ProbeOn, ProbeOff, Probe, Control
  <2>2. op'[p] = op[p] /\ pc'[p] \notin {"open", "read"}
    BY <1>4 DEF Mkdir, AfterMkdir, ProbeOn, ProbeOff, Probe, Goto, Return, call
  <2> QED BY <2>1, <2>2, <1>1
<1>5. CASE ChooseOrder(p)
  <2>1. op[p] = "Update"
    BY <1>5, <1>a DEF ChooseOrder, Control
  <2>2. op'[p] = op[p] /\ pc'[p] \notin {"open", "read"}
    BY <1>5, <2>1 DEF ChooseOrder, Goto, Return, call
  <2> QED BY <2>1, <2>2, <1>1
<1>6. CASE SetDone(p) \/ Write(p)
  <2>1. pc[p] = "set" /\ op[p] # "Stat"
    BY <1>6, <1>a DEF SetDone, Write, NextIs, Control
  <2>2. op'[p] = op[p] /\ pc'[p] \notin {"open", "read"}
    BY <1>6, <2>1 DEF SetDone, Write, Return, call
  <2> QED BY <2>1, <2>2, <1>1
<1>7. CASE StatOpen(p)
  <2>1. op[p] = "Stat" /\ at[p] = 1 /\ stats[p] = NoStats /\ result[p] = "none"
    BY <1>7, <1>a DEF StatOpen, Control, Reading
  <2>2. op'[p] = "Stat" /\ at'[p] = 1 /\ stats'[p] = NoStats
        /\ pc'[p] # "open" /\ result'[p] # "ok"
    BY <1>7, <2>1 DEF StatOpen, Goto, Return, call
  <2>3. ReadSoFar(p)'
    BY <2>2, ModulesFacts DEF ReadSoFar, NoStats
  <2> QED BY <2>2, <2>3 DEF Reading, Below, Torn
<1>8. CASE StatRead(p)
  <2> DEFINE n == Modules[at[p]]
  <2>1. /\ pc[p] = "read" /\ op[p] = "Stat" /\ result[p] = "none" /\ at[p] \in 1 .. 4
        /\ UNCHANGED <<file, touched>> /\ InStat(p)
    BY <1>8, <1>a, ModulesFacts DEF StatRead, Control, group, InStat
  <2>2. ignored' = ignored
    BY <1>8, <2>1 DEF Acts, Step, NewMemory, Crash, Call, StatRead, Return
  <2>3. CASE /\ at' = [at EXCEPT ![p] = @ + 1]
             /\ stats' = IF n \in ignored[p] THEN stats
                         ELSE [stats EXCEPT ![p][n] = file[n]]
             /\ UNCHANGED <<pc, call, order, result>>
    <3>1. /\ pc'[p] = "read" /\ op'[p] = "Stat" /\ result'[p] = "none"
          /\ at'[p] = at[p] + 1 /\ stats[p] \in [StatNames -> Amounts]
      BY <2>1, <2>3 DEF call
    <3>2. stats'[p] = IF n \in ignored[p] THEN stats[p] ELSE [stats[p] EXCEPT ![n] = file[n]]
      BY <2>3
    <3>3. \A i \in 1 .. 4 :
            stats'[p][Modules[i]] = IF i = at[p] /\ Modules[i] \notin ignored[p]
                                    THEN file[Modules[i]] ELSE stats[p][Modules[i]]
      BY <2>1, <3>1, <3>2, ModulesFacts
    <3>4. ReadSoFar(p)'
      BY <2>1, <2>2, <3>1, <3>3 DEF Reading, ReadSoFar
    <3>5. stats'[p]["limit"] = IF at[p] = 1 /\ "limit" \notin ignored[p]
                               THEN file["limit"] ELSE stats[p]["limit"]
      BY <3>3, ModulesFacts
    <3>6. stats'[p]["memsw"] = IF at[p] = 2 /\ "memsw" \notin ignored[p]
                               THEN file["memsw"] ELSE stats[p]["memsw"]
      BY <3>3, ModulesFacts
    <3>7. Below(p)'
      BY <2>1, <2>2, <3>1, <3>5 DEF Below, SwapAbove
    <3>8. Torn(p)'
      <4> SUFFICES ASSUME at[p] + 1 > 2, {"limit", "memsw"} \cap ignored[p] = {},
                          stats'[p]["limit"] > stats'[p]["memsw"]
                   PROVE  {"limit", "memsw"} \subseteq touched[p]
        BY <2>1, <2>2, <3>1 DEF Torn
      <4>1. stats'[p]["limit"] = stats[p]["limit"]
        BY <2>1, <3>5
      <4>2. CASE at[p] = 2
        <5>1. stats'[p]["memsw"] = file["memsw"]
          BY <3>6, <4>2
        <5>2. /\ file["limit"] \in Nat /\ file["memsw"] \in Nat
              /\ stats[p]["limit"] \in Nat
          BY <3>1, UnlimitedAssumption DEF Settings, StatNames, Amounts
        <5>3. "memsw" \in touched[p]
          BY <2>1, <4>1, <4>2, <5>1, <5>2 DEF Below
        <5>4. "limit" \notin touched[p] => stats[p]["limit"] = file["limit"]
          BY <2>1, <4>2, ModulesFacts DEF Reading, ReadSoFar
        <5>5. "limit" \in touched[p]
          BY <4>1, <5>1, <5>2, <5>4 DEF SwapAbove
        <5> QED BY <5>3, <5>5
      <4>3. CASE at[p] # 2
        <5>1. stats'[p]["memsw"] = stats[p]["memsw"] /\ at[p] > 2
          BY <2>1, <3>6, <4>3
        <5> QED BY <2>1, <4>1, <5>1 DEF Torn
      <4> QED BY <4>2, <4>3
    <3> QED BY <3>1, <3>4, <3>7, <3>8 DEF Reading
  <2>4. CASE Return(p, IF n # "memsw" \/ swapAccounting THEN "EIO" ELSE "ENOENT")
    <3>1. pc'[p] = "idle" /\ result'[p] # "ok"
      BY <2>4 DEF Return
    <3> QED BY <3>1, <1>1
  <2> QED BY <1>8, <2>3, <2>4 DEF StatRead
<1>9. CASE StatDone(p)
  <2>1. /\ pc[p] = "read" /\ op[p] = "Stat" /\ at[p] > 4 /\ InStat(p)
        /\ UNCHANGED <<file, touched>>
    BY <1>9, ModulesFacts, <1>a DEF StatDone, Control, group, InStat
  <2>2. /\ pc'[p] = "idle" /\ op'[p] = "Stat" /\ at'[p] = at[p] /\ result'[p] = "ok"
        /\ stats'[p] = stats[p]
    BY <1>9, <2>1 DEF StatDone, Return, call
  <2>3. ignored'[p] = ignored[p]
    BY <1>9, <2>1, <2>2 DEF Acts, Step, NewMemory, Crash, Call
  <2>4. ReadSoFar(p)'
    BY <2>1, <2>2, <2>3 DEF Reading, ReadSoFar
  <2>5. Below(p)' /\ Torn(p)'
    BY <2>1, <2>2, <2>3 DEF Below, Torn
  <2> QED BY <2>1, <2>2, <2>4, <2>5 DEF Reading
<1>10. CASE NewMemory(p) \/ Crash(p)
  <2>1. pc'[p] \notin {"open", "read"} /\ op'[p] # "Stat"
    BY <1>10, <1>a DEF NewMemory, Crash, Control, call
  <2> QED BY <2>1, <1>1
<1> QED
  BY <1>3, <1>4, <1>5, <1>6, <1>7, <1>8, <1>9, <1>10 DEF Acts, Step

\* What Stat has read is known in every state.
THEOREM StatInductive == Spec => []StatInv
<1>1. Init => StatInv
  BY DEF Init, StatInv, Reading, Below, Torn, InStat
<1>2. TypeOK /\ CallInv /\ SwapAbove /\ StatInv /\ [Next]_vars => StatInv'
  <2> SUFFICES ASSUME TypeOK, CallInv, SwapAbove, StatInv, [Next]_vars, NEW p \in Procs
               PROVE  Reading(p)' /\ Below(p)' /\ Torn(p)'
    BY DEF StatInv
  <2>1. ProcInv(p) /\ Reading(p) /\ Below(p) /\ Torn(p)
    BY DEF CallInv, ProcInv, StatInv
  <2>2. CASE UNCHANGED <<pc, op, at, result, stats, file, ignored, touched>>
    BY <2>1, <2>2 DEF Reading, ReadSoFar, Below, Torn, InStat
  <2>3. CASE Acts(p)
    BY <2>1, <2>3, OwnStat
  <2>4. ASSUME NEW q \in Procs, q # p, Acts(q)
        PROVE  Reading(p)' /\ Below(p)' /\ Torn(p)'
    BY <2>1, <2>4, OtherStat
  <2> QED BY <2>2, <2>3, <2>4 DEF Next, Acts, Mount, Join, local, vars
<1> QED BY <1>1, <1>2, Typing, Inductive, LimitBelowSwap, PTL DEF Spec

\* A Stat that returned nil reports 0 for what its controller ignores and, for
\* every other module nobody wrote since, exactly the group's limit.
THEOREM Stat == Spec => []StatExact
<1>1. TypeOK /\ StatInv => StatExact
  <2> SUFFICES ASSUME TypeOK, StatInv, NEW p \in Procs, NEW n \in StatNames,
                      op[p] = "Stat", result[p] = "ok"
               PROVE  /\ n \in ignored[p] => stats[p][n] = 0
                      /\ n \notin ignored[p] \cup touched[p] => stats[p][n] = file[n]
    BY DEF StatExact
  <2>1. PICK i \in 1 .. 4 : Modules[i] = n
    BY ModulesFacts
  <2>2. ReadSoFar(p) /\ i < at[p]
    BY DEF StatInv, Reading, InStat, TypeOK
  <2> QED BY <2>1, <2>2 DEF ReadSoFar
<1> QED BY <1>1, Typing, StatInductive, PTL

\* Stat returns a limit above the memsw limit only if others wrote both files
\* after the call began.
THEOREM StatTorn == Spec => []TornOnlyIfBothWritten
<1>1. TypeOK /\ StatInv => TornOnlyIfBothWritten
  <2> SUFFICES ASSUME TypeOK, StatInv, NEW p \in Procs, op[p] = "Stat", result[p] = "ok",
                      {"limit", "memsw"} \cap ignored[p] = {},
                      stats[p]["limit"] > stats[p]["memsw"]
               PROVE  {"limit", "memsw"} \subseteq touched[p]
    BY DEF TornOnlyIfBothWritten
  <2>1. at[p] > 4 /\ at[p] \in 1 .. 8 /\ InStat(p)
    BY DEF StatInv, Reading, InStat, TypeOK
  <2> QED BY <2>1 DEF StatInv, Torn
<1> QED BY <1>1, Typing, StatInductive, PTL
=============================================================================
