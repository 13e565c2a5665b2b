-------------------------- MODULE GroupStatsProofs --------------------------
(***************************************************************************)
(* What a reader of a group's metrics can rely on, for any number of       *)
(* processors, any width of the counters and any number of kernel events.  *)
(* The usage is a sum over the processors: the lemmas about Total are      *)
(* proved from its definition, by least counterexamples.                   *)
(***************************************************************************)
EXTENDS GroupStats, FiniteSetTheorems, WellFoundedInduction, TLAPS

\* A Stats value and its CPU part have the fields they are declared with.
Shape ==
  /\ stats = [cpu |-> stats.cpu, pids |-> stats.pids, memory |-> stats.memory]
  /\ stats.cpu # Nil =>
       stats.cpu = [periods |-> stats.cpu.periods, throttled |-> stats.cpu.throttled,
                    user |-> stats.cpu.user, kernel |-> stats.cpu.kernel,
                    total |-> stats.cpu.total, percpu |-> stats.cpu.percpu]

\* The throttled periods are part of the periods, and those reported earlier
\* part of those there are now: that is what a short read leaves in place.
Counted ==
  /\ periods \in Nat /\ throttled \in Nat /\ throttled <= periods
  /\ stats.cpu # Nil =>
       /\ stats.cpu.periods \in Nat /\ stats.cpu.throttled \in Nat
       /\ stats.cpu.throttled <= throttled
       /\ stats.cpu.throttled <= stats.cpu.periods

\* Where each Stat may be, and what it has done to the Stats by then.
AllOf == {"acctStat", "acctUsage", "acctPercpu", "current", "max"}
Place ==
  /\ pc \in AllOf => op \in {"cpuacct", "pids"} /\ stats = before
  /\ pc \in {"cpuStat", "cpuScan"} => op = "cpu"
  /\ pc \in {"memOpen", "memParse"} => op = "memory"
  /\ pc = "memParse" => stats.memory = ZeroMemory

\* Only a memory Stat that has returned has seen the cache.
Seen ==
  saw # Nil =>
    /\ pc \in {"idle", "dead"}
    /\ stats.memory.cache \in {0, saw}
    /\ stats.memory.total \in {0, stats.memory.cache}

IInv == Shape /\ Counted /\ Place /\ Seen /\ AllOrNothing

-----------------------------------------------------------------------------
LEMMA InitInv == Init => IInv
BY DEF Init, IInv, Shape, Counted, Place, AllOf, Seen, AllOrNothing

\* The kernel and the writer of the limit leave the reader alone.
LEMMA OthersStep ==
  ASSUME IInv, UNCHANGED reader,
         periods' \in Nat, throttled' \in Nat, throttled' <= periods',
         throttled <= throttled'
  PROVE  IInv'
<1>1. Shape' /\ Place' /\ Seen' /\ AllOrNothing'
  BY DEF IInv, Shape, Place, Seen, AllOrNothing, reader
<1>2. Counted'
  BY DEF IInv, Counted, reader
<1> QED BY <1>1, <1>2 DEF IInv

LEMMA NewStatsStep == ASSUME IInv, NEW cpu \in {Nil, ZeroCPU}, NewStats(cpu) PROVE IInv'
<1> USE DEF NewStats
<1>1. stats' = [cpu |-> cpu, pids |-> Nil, memory |-> Nil]
      /\ pc' = "idle" /\ result' = "none" /\ saw' = Nil
      /\ UNCHANGED <<periods, throttled>>
  BY DEF kernel
<1>2. Shape' /\ Counted'
  BY <1>1 DEF IInv, Shape, Counted, ZeroCPU
<1>3. Place' /\ Seen' /\ AllOrNothing'
  BY <1>1 DEF Place, AllOf, Seen, AllOrNothing
<1> QED BY <1>2, <1>3 DEF IInv

LEMMA CallStep == ASSUME IInv, NEW o \in DOMAIN Entry, Call(o) PROVE IInv'
<1> USE DEF Call
<1>1. UNCHANGED <<stats, periods, throttled>> /\ before' = stats /\ op' = o
      /\ pc' = Entry[o] /\ result' = "none" /\ saw' = Nil
  BY DEF kernel
<1>2. Shape' /\ Counted'
  BY <1>1 DEF IInv, Shape, Counted
<1>3. Place' /\ Seen' /\ AllOrNothing'
  BY <1>1 DEF Entry, Place, AllOf, Seen, AllOrNothing
<1> QED BY <1>2, <1>3 DEF IInv

\* A file of the group is read, and nothing is reported yet.
LEMMA ReadStep ==
  ASSUME IInv, NEW from, NEW h, NEW l, Read(from, h, l), saw' = saw,
         \/ from \in AllOf /\ l \in AllOf
         \/ from = "cpuStat" /\ l = "cpuScan"
  PROVE  IInv'
<1> USE DEF Read
<1>1. UNCHANGED <<stats, periods, throttled, op, result, before, saw>>
      /\ pc = from /\ pc' = l
  BY DEF kernel
<1>2. Shape' /\ Counted'
  BY <1>1 DEF IInv, Shape, Counted
<1>3. Place' /\ Seen' /\ AllOrNothing'
  BY <1>1 DEF IInv, Place, AllOf, Seen, AllOrNothing
<1> QED BY <1>2, <1>3 DEF IInv

LEMMA ReadFailsStep ==
  ASSUME IInv, NEW l, ReadFails(l),
         l \in AllOf \cup {"cpuStat", "memOpen"}
  PROVE  IInv'
<1>1. UNCHANGED <<stats, periods, throttled, op, before, saw>>
      /\ pc = l /\ pc' = "idle" /\ result' = "error"
  BY DEF ReadFails, Fail, Return, kernel
<1>2. Shape' /\ Counted'
  BY <1>1 DEF IInv, Shape, Counted
<1>3. Place' /\ Seen' /\ AllOrNothing'
  BY <1>1 DEF IInv, Place, AllOf, Seen, AllOrNothing
<1> QED BY <1>2, <1>3 DEF IInv

\* cpu.Stat takes none of the lines, one or both.
LEMMA CpuScanReads ==
  ASSUME CpuScan
  PROVE  \E n \in 0 .. 2 :
           \/ UNCHANGED stats
           \/ /\ n > 0 /\ stats.cpu # Nil
              /\ stats' = [stats EXCEPT
                            !.cpu.periods   = CpuLines[1],
                            !.cpu.throttled = IF n = 2 THEN CpuLines[2] ELSE @]
<1>1. PICK n \in 0 .. 2 :
        IF n > 0 /\ stats.cpu = Nil
          THEN UNCHANGED stats
          ELSE stats' = IF n = 0 THEN stats
                        ELSE [stats EXCEPT
                               !.cpu.periods   = CpuLines[1],
                               !.cpu.throttled = IF n = 2 THEN CpuLines[2] ELSE @]
  BY Zenon DEF CpuScan
<1>2. n = 0 \/ n > 0
  OBVIOUS
<1> QED BY <1>1, <1>2, Zenon

LEMMA CpuScanStep == ASSUME IInv, CpuScan PROVE IInv'
<1> USE DEF CpuScan
<1>1. /\ pc = "cpuScan" /\ op = "cpu" /\ op' = op /\ saw' = saw
      /\ UNCHANGED <<periods, throttled>> /\ pc' \in {"idle", "dead"}
      /\ saw = Nil
  <2>1. pc = "cpuScan" /\ op = "cpu" /\ saw = Nil /\ saw' = saw
    BY DEF IInv, Place, Seen
  <2>2. \E r \in {"panic", "error", "ok"} : Return(r)
    BY Zenon
  <2> HIDE DEF CpuScan
  <2>3. op' = op /\ UNCHANGED <<periods, throttled>> /\ pc' \in {"idle", "dead"}
    BY <2>2 DEF Return, kernel
  <2> QED BY <2>1, <2>3
<1>2. PICK n \in 0 .. 2 :
        \/ UNCHANGED stats
        \/ /\ n > 0 /\ stats.cpu # Nil
           /\ stats' = [stats EXCEPT
                         !.cpu.periods   = CpuLines[1],
                         !.cpu.throttled = IF n = 2 THEN CpuLines[2] ELSE @]
  BY CpuScanReads
<1>3. Shape' /\ Counted'
  <2>1. CASE UNCHANGED stats
    BY <1>1, <2>1 DEF IInv, Shape, Counted
  <2>2. CASE /\ n > 0 /\ stats.cpu # Nil
             /\ stats' = [stats EXCEPT
                           !.cpu.periods   = CpuLines[1],
                           !.cpu.throttled = IF n = 2 THEN CpuLines[2] ELSE @]
    <3> DEFINE t == IF n = 2 THEN throttled ELSE stats.cpu.throttled
    <3>1. stats' = [cpu |-> [periods |-> periods, throttled |-> t,
                             user |-> stats.cpu.user, kernel |-> stats.cpu.kernel,
                             total |-> stats.cpu.total, percpu |-> stats.cpu.percpu],
                    pids |-> stats.pids, memory |-> stats.memory]
      BY <2>2 DEF IInv, Shape, CpuLines
    <3>2. t \in Nat /\ t <= throttled /\ t <= periods
      BY <2>2 DEF IInv, Counted
    <3> HIDE DEF t
    <3>3. Shape'
      BY <3>1 DEF Shape
    <3>4. Counted'
      BY <1>1, <3>1, <3>2 DEF IInv, Counted
    <3> QED BY <3>3, <3>4
  <2> QED BY <1>2, <2>1, <2>2
<1>4. Place' /\ Seen' /\ AllOrNothing'
  BY <1>1 DEF Place, AllOf, Seen, AllOrNothing
<1> QED BY <1>3, <1>4 DEF IInv

LEMMA AcctPercpuStep == ASSUME IInv, AcctPercpu PROVE IInv'
<1> USE DEF AcctPercpu
<1>1. /\ pc = "acctPercpu" /\ result' \in {"ok", "panic"} /\ saw' = saw /\ saw = Nil
      /\ UNCHANGED <<periods, throttled>> /\ pc' \in {"idle", "dead"}
  BY DEF IInv, Place, Seen, Return, kernel
<1>2. Shape' /\ Counted'
  <2>1. CASE UNCHANGED stats
    BY <1>1, <2>1 DEF IInv, Shape, Counted
  <2>2. CASE stats.cpu # Nil
    <3>1. stats' = [cpu |-> [periods |-> stats.cpu.periods,
                             throttled |-> stats.cpu.throttled,
                             user |-> got.user, kernel |-> got.kernel,
                             total |-> got.total, percpu |-> [c \in Cpus |-> UsageOf(c)]],
                    pids |-> stats.pids, memory |-> stats.memory]
      BY <2>2 DEF IInv, Shape
    <3> QED BY <1>1, <2>2, <3>1 DEF IInv, Shape, Counted
  <2> QED BY <2>1, <2>2
<1>3. Place' /\ Seen' /\ AllOrNothing'
  BY <1>1 DEF Place, AllOf, Seen, AllOrNothing
<1> QED BY <1>2, <1>3 DEF IInv

LEMMA MaxStep == ASSUME IInv, Max PROVE IInv'
<1>1. /\ pc = "max" /\ result' = "ok" /\ saw' = saw /\ saw = Nil
      /\ UNCHANGED <<periods, throttled>> /\ pc' = "idle"
  BY DEF Max, IInv, Seen, Return, kernel
<1>2. PICK l : stats' = [stats EXCEPT !.pids = l]
  BY DEF Max
<1>3. stats' = [cpu |-> stats.cpu, pids |-> l, memory |-> stats.memory]
  BY <1>2 DEF IInv, Shape
<1>4. Shape' /\ Counted'
  BY <1>1, <1>3 DEF IInv, Shape, Counted
<1>5. Place' /\ Seen' /\ AllOrNothing'
  BY <1>1 DEF Place, AllOf, Seen, AllOrNothing
<1> QED BY <1>4, <1>5 DEF IInv

LEMMA MemOpenStep == ASSUME IInv, MemOpen PROVE IInv'
<1>1. /\ pc = "memOpen" /\ op = "memory" /\ saw = Nil
      /\ UNCHANGED <<periods, throttled, op, result, before, saw>> /\ pc' = "memParse"
  BY DEF MemOpen, IInv, Place, Seen, kernel
<1>2. stats' = [cpu |-> stats.cpu, pids |-> stats.pids, memory |-> ZeroMemory]
  BY DEF MemOpen, FreshMemory, IInv, Shape
<1>3. Shape' /\ Counted'
  BY <1>1, <1>2 DEF IInv, Shape, Counted
<1>4. Place' /\ Seen' /\ AllOrNothing'
  BY <1>1, <1>2 DEF Place, AllOf, Seen, AllOrNothing
<1> QED BY <1>3, <1>4 DEF IInv

LEMMA MemParseStep == ASSUME IInv, MemParse PROVE IInv'
<1>1. /\ pc = "memParse" /\ op' = "memory" /\ saw' = cache
      /\ stats.memory = ZeroMemory
      /\ UNCHANGED <<periods, throttled>> /\ pc' = "idle"
  BY DEF MemParse, IInv, Place, Return, Fail, kernel
<1>2. PICK m \in {ParseStats(n) : n \in 0 .. 2} \cup {ZeroMemory} :
        stats' = [cpu |-> stats.cpu, pids |-> stats.pids, memory |-> m]
  <2>1. CASE UNCHANGED stats
    BY <1>1, <2>1 DEF IInv, Shape
  <2>2. CASE \E n \in 0 .. 2 : stats' = [stats EXCEPT !.memory = ParseStats(n)]
    BY <2>2 DEF IInv, Shape
  <2> QED BY <2>1, <2>2 DEF MemParse
<1>3. m.cache \in {0, cache} /\ m.total \in {0, m.cache}
  BY DEF ParseStats, ZeroMemory
<1>4. Shape' /\ Counted'
  BY <1>1, <1>2 DEF IInv, Shape, Counted
<1>5. Place' /\ AllOrNothing'
  BY <1>1 DEF Place, AllOf, AllOrNothing
<1>6. Seen'
  BY <1>1, <1>2, <1>3 DEF Seen
<1> QED BY <1>4, <1>5, <1>6 DEF IInv

LEMMA NextInv == IInv /\ [Next]_vars => IInv'
<1> SUFFICES ASSUME IInv, [Next]_vars PROVE IInv'
  OBVIOUS
<1>1. CASE \/ \E c \in Cpus, m \in Modes : Tick(c, m)
           \/ \E full \in BOOLEAN : Period(full)
           \/ Charge \/ \E h \in Hierarchies : Rmdir(h)
           \/ \E l \in Limits : WriterCall(l)
           \/ Mkdir \/ WriteLimit \/ UNCHANGED vars
  <2>1. UNCHANGED reader
    BY <1>1 DEF Tick, Period, Charge, Rmdir, Event, WriterCall, Mkdir, WriteLimit, vars
  <2>2. \/ periods' = periods /\ throttled' = throttled
        \/ periods' = periods + 1 /\ throttled' \in {throttled, throttled + 1}
    BY <1>1 DEF Tick, Period, Charge, Rmdir, WriterCall, Mkdir, WriteLimit, vars, kernel
  <2>3. periods' \in Nat /\ throttled' \in Nat /\ throttled' <= periods'
        /\ throttled <= throttled'
    BY <2>2 DEF IInv, Counted
  <2> QED BY <2>1, <2>3, OthersStep
<1>2. CASE \E cpu \in {Nil, ZeroCPU} : NewStats(cpu)
  BY <1>2, NewStatsStep
<1>3. CASE \E o \in DOMAIN Entry : Call(o)
  BY <1>3, CallStep
<1>4. CASE CpuStat \/ AcctStat \/ AcctUsage \/ Current
  BY <1>4, ReadStep DEF CpuStat, AcctStat, AcctUsage, Current, AllOf
<1>5. CASE \E l \in {"cpuStat", "acctStat", "acctUsage", "acctPercpu", "current", "max",
                     "memOpen"} : ReadFails(l)
  BY <1>5, ReadFailsStep DEF AllOf
<1>6. CASE CpuScan \/ AcctPercpu \/ Max \/ MemOpen \/ MemParse
  BY <1>6, CpuScanStep, AcctPercpuStep, MaxStep, MemOpenStep, MemParseStep
<1> QED BY <1>1, <1>2, <1>3, <1>4, <1>5, <1>6 DEF Next, Stat

\* The inductive invariant holds for any processors, limits and bounds.
THEOREM Inductive == Spec => []IInv
BY InitInv, NextInv, PTL DEF Spec

\* A failed Stat of cpuacct or pids changes nothing in the caller's Stats
\* (cpuacct.go:63-66, pids.go:78-81).
THEOREM NothingOnError == Spec => []AllOrNothing
<1>1. IInv => AllOrNothing
  BY DEF IInv
<1> QED BY <1>1, Inductive, PTL

\* A short read of cpu.stat, taken for a whole one, never reports more
\* throttled periods than periods (cpu.go:118-142).
THEOREM Throttled == Spec => []ThrottledBounded
<1>1. IInv => ThrottledBounded
  BY DEF IInv, Counted, ThrottledBounded
<1> QED BY <1>1, Inductive, PTL

\* The memory counters a Stat leaves are its own, also when it fails
\* (memory.go:130-136, 243-275).
THEOREM Fresh == Spec => []MemoryFresh
<1>1. IInv => MemoryFresh
  BY DEF IInv, Seen, MemoryFresh
<1> QED BY <1>1, Inductive, PTL
-----------------------------------------------------------------------------
(***************************************************************************)
(* Sums.  Total is a fold, a recursion over the subsets of its function's  *)
(* domain: it takes out one element at a time.                             *)
(***************************************************************************)
Some(s) == CHOOSE x \in s : TRUE
SumFrom(f, it, s) == IF s = {} THEN 0 ELSE f[Some(s)] + it[s \ {Some(s)}]
Sums(f) == CHOOSE it : it = [s \in SUBSET DOMAIN f |-> SumFrom(f, it, s)]

LEMMA TotalIsSums == ASSUME NEW f PROVE Total(f) = Sums(f)[DOMAIN f]
BY DEF Total, FoldFunction, FoldFunctionOnSet, MapThenFoldSet, Sums, SumFrom, Some

LEMMA SomeFact == ASSUME NEW s, s # {} PROVE Some(s) \in s
BY DEF Some

\* Every set of numbers has a least one.
LEMMA Least ==
  ASSUME NEW T \in SUBSET Nat, T # {}
  PROVE  \E n \in T : \A m \in T : n <= m
<1>1. PICK n \in T : \A m \in T : ~(<<m, n>> \in OpToRel(<, Nat))
  BY NatLessThanWellFounded, WFMin
<1>2. \A m \in T : ~(m < n)
  BY <1>1 DEF OpToRel
<1> QED BY <1>2

\* Induction over the subsets of a finite set, along the order of the sum.
LEMMA SubsetInduction ==
  ASSUME NEW S, IsFiniteSet(S), NEW G,
         \A s \in SUBSET S : (s = {} \/ s \ {Some(s)} \in G) => s \in G
  PROVE  SUBSET S \subseteq G
<1> DEFINE Bad == {s \in SUBSET S : s \notin G}
           Sizes == {n \in Nat : \E s \in Bad : Cardinality(s) = n}
<1> SUFFICES ASSUME Bad # {} PROVE FALSE
  OBVIOUS
<1>1. \A s \in SUBSET S : IsFiniteSet(s) /\ Cardinality(s) \in Nat
  BY FS_Subset, FS_CardinalityType
<1>2. Sizes # {} /\ Sizes \in SUBSET Nat
  BY <1>1
<1>3. PICK n \in Sizes : \A m \in Sizes : n <= m
  BY <1>2, Least
<1>4. PICK s \in Bad : Cardinality(s) = n
  OBVIOUS
<1>5. s # {} /\ s \ {Some(s)} \in Bad
  OBVIOUS
<1>6. Cardinality(s \ {Some(s)}) = n - 1
  BY <1>1, <1>4, <1>5, SomeFact, FS_RemoveElement
<1>7. n - 1 \in Sizes
  BY <1>1, <1>5, <1>6
<1> QED BY <1>3, <1>7

\* The recursion of the fold is well defined.
LEMMA SumsExist ==
  ASSUME NEW f, IsFiniteSet(DOMAIN f)
  PROVE  \E it : it = [s \in SUBSET DOMAIN f |-> SumFrom(f, it, s)]
<1> DEFINE S == DOMAIN f
           D(n) == {s \in SUBSET S : Cardinality(s) <= n}
           Defined(n) == \E g : g = [s \in D(n) |-> SumFrom(f, g, s)]
           Bad == {n \in Nat : ~Defined(n)}
<1>1. \A s \in SUBSET S : IsFiniteSet(s) /\ Cardinality(s) \in Nat /\ Cardinality(s) <= Cardinality(S)
  BY FS_Subset, FS_CardinalityType
<1>2. \A s \in SUBSET S : s # {} => /\ s \ {Some(s)} \in SUBSET S
                                    /\ Cardinality(s \ {Some(s)}) = Cardinality(s) - 1
  BY <1>1, SomeFact, FS_RemoveElement
<1>3. Defined(0)
  <2>1. \A s \in D(0) : s = {}
    BY <1>1, FS_EmptySet
  <2> DEFINE g == [s \in D(0) |-> 0]
  <2>2. g = [s \in D(0) |-> SumFrom(f, g, s)]
    BY <2>1 DEF SumFrom
  <2> QED BY <2>2
<1>4. ASSUME NEW n \in Nat, Defined(n) PROVE Defined(n + 1)
  <2>1. PICK g : g = [s \in D(n) |-> SumFrom(f, g, s)]
    BY <1>4
  <2> DEFINE h == [s \in D(n + 1) |-> SumFrom(f, g, s)]
  <2>2. \A s \in D(n) : s \in D(n + 1) /\ h[s] = g[s]
    BY <1>1, <2>1
  <2>3. \A s \in D(n + 1) : s # {} => s \ {Some(s)} \in D(n)
    BY <1>1, <1>2
  <2>4. \A s \in D(n + 1) : SumFrom(f, g, s) = SumFrom(f, h, s)
    BY <2>2, <2>3 DEF SumFrom
  <2>5. h = [s \in D(n + 1) |-> SumFrom(f, h, s)]
    BY <2>4
  <2> QED BY <2>5
<1>5. Bad = {}
  <2> SUFFICES ASSUME Bad # {} PROVE FALSE
    OBVIOUS
  <2>0. Bad \in SUBSET Nat
    OBVIOUS
  <2> HIDE DEF Bad
  <2>1. PICK n \in Bad : \A m \in Bad : n <= m
    BY <2>0, Least
  <2>2. n \in Nat /\ ~Defined(n)
    BY <2>1 DEF Bad
  <2> HIDE DEF Defined
  <2>3. n # 0
    BY <1>3, <2>2
  <2>4. n - 1 \in Nat /\ n - 1 + 1 = n /\ n - 1 \notin Bad
    BY <2>0, <2>1, <2>2, <2>3
  <2>5. Defined(n - 1)
    BY <2>4 DEF Bad
  <2> QED BY <1>4, <2>2, <2>4, <2>5
<1>6. Cardinality(S) \in Nat /\ D(Cardinality(S)) = SUBSET S
  BY <1>1
<1>7. Defined(Cardinality(S))
  BY <1>5, <1>6
<1> QED BY <1>6, <1>7

LEMMA SumsUnfold ==
  ASSUME NEW f, IsFiniteSet(DOMAIN f), NEW s \in SUBSET DOMAIN f
  PROVE  Sums(f)[s] = IF s = {} THEN 0 ELSE f[Some(s)] + Sums(f)[s \ {Some(s)}]
<1>1. Sums(f) = [t \in SUBSET DOMAIN f |-> SumFrom(f, Sums(f), t)]
  BY SumsExist DEF Sums
<1>2. Sums(f)[s] = SumFrom(f, Sums(f), s)
  BY <1>1
<1> QED BY <1>2 DEF SumFrom

LEMMA CpusFinite == IsFiniteSet(Cpus)
BY LimitsAssumption

\* Sums over the processors: they are numbers, they grow with each term, and
\* they can be taken mode by mode.
LEMMA SumNat == ASSUME NEW f \in [Cpus -> Nat] PROVE Total(f) \in Nat
<1> DEFINE G == {s \in SUBSET Cpus : Sums(f)[s] \in Nat}
<1>1. ASSUME NEW s \in SUBSET Cpus, s = {} \/ s \ {Some(s)} \in G PROVE s \in G
  <2>1. Sums(f)[s] = IF s = {} THEN 0 ELSE f[Some(s)] + Sums(f)[s \ {Some(s)}]
    BY CpusFinite, SumsUnfold
  <2>2. s # {} => f[Some(s)] \in Nat
    BY SomeFact
  <2> QED BY <1>1, <2>1, <2>2
<1> HIDE DEF G
<1>2. Cpus \in G
  <2>1. SUBSET Cpus \subseteq G
    BY <1>1, CpusFinite, SubsetInduction
  <2> QED BY <2>1
<1> USE DEF G
<1> QED BY <1>2, TotalIsSums

LEMMA SumGrows ==
  ASSUME NEW f \in [Cpus -> Nat], NEW g \in [Cpus -> Nat], \A c \in Cpus : f[c] <= g[c]
  PROVE  Total(f) <= Total(g)
<1> DEFINE G == {s \in SUBSET Cpus : /\ Sums(f)[s] \in Nat /\ Sums(g)[s] \in Nat
                                     /\ Sums(f)[s] <= Sums(g)[s]}
<1>1. ASSUME NEW s \in SUBSET Cpus, s = {} \/ s \ {Some(s)} \in G PROVE s \in G
  <2>1. /\ Sums(f)[s] = IF s = {} THEN 0 ELSE f[Some(s)] + Sums(f)[s \ {Some(s)}]
        /\ Sums(g)[s] = IF s = {} THEN 0 ELSE g[Some(s)] + Sums(g)[s \ {Some(s)}]
    BY CpusFinite, SumsUnfold
  <2>2. s # {} => f[Some(s)] \in Nat /\ g[Some(s)] \in Nat /\ f[Some(s)] <= g[Some(s)]
    BY SomeFact
  <2> QED BY <1>1, <2>1, <2>2
<1> HIDE DEF G
<1>2. Cpus \in G
  <2>1. SUBSET Cpus \subseteq G
    BY <1>1, CpusFinite, SubsetInduction
  <2> QED BY <2>1
<1> USE DEF G
<1> QED BY <1>2, TotalIsSums

LEMMA Distributes ==
  \A k, a, b, x, y \in Nat : k * (a + b) + k * (x + y) = k * ((a + x) + (b + y))
OBVIOUS

LEMMA SumOfModes ==
  ASSUME NEW u \in [Cpus -> Nat], NEW v \in [Cpus -> Nat], NEW k \in Nat
  PROVE  Total([c \in Cpus |-> k * (u[c] + v[c])]) = k * (Total(u) + Total(v))
<1> DEFINE w == [c \in Cpus |-> k * (u[c] + v[c])]
           G == {s \in SUBSET Cpus : /\ Sums(u)[s] \in Nat /\ Sums(v)[s] \in Nat
                                     /\ Sums(w)[s] = k * (Sums(u)[s] + Sums(v)[s])}
<1>0. DOMAIN w = Cpus /\ \A c \in Cpus : w[c] = k * (u[c] + v[c])
  OBVIOUS
<1> HIDE DEF w
<1>1. ASSUME NEW s \in SUBSET Cpus, s = {} \/ s \ {Some(s)} \in G PROVE s \in G
  <2>1. /\ Sums(u)[s] = IF s = {} THEN 0 ELSE u[Some(s)] + Sums(u)[s \ {Some(s)}]
        /\ Sums(v)[s] = IF s = {} THEN 0 ELSE v[Some(s)] + Sums(v)[s \ {Some(s)}]
        /\ Sums(w)[s] = IF s = {} THEN 0 ELSE w[Some(s)] + Sums(w)[s \ {Some(s)}]
    BY <1>0, CpusFinite, SumsUnfold
  <2>2. CASE s = {}
    BY <2>1, <2>2
  <2>3. CASE s # {}
    <3> DEFINE c == Some(s)
               r == s \ {c}
    <3>1. /\ u[c] \in Nat /\ v[c] \in Nat /\ w[c] = k * (u[c] + v[c])
          /\ Sums(u)[r] \in Nat /\ Sums(v)[r] \in Nat
          /\ Sums(w)[r] = k * (Sums(u)[r] + Sums(v)[r])
      BY <1>0, <1>1, <2>3, SomeFact
    <3>2. w[c] + Sums(w)[r] = k * ((u[c] + Sums(u)[r]) + (v[c] + Sums(v)[r]))
      BY <3>1, Distributes
    <3> HIDE DEF r, c
    <3>3. s \in SUBSET Cpus /\ Sums(u)[s] = u[c] + Sums(u)[r] /\ Sums(v)[s] = v[c] + Sums(v)[r]
          /\ Sums(w)[s] = w[c] + Sums(w)[r]
      BY <2>1, <2>3 DEF r, c
    <3> QED BY <3>1, <3>2, <3>3
  <2> QED BY <2>2, <2>3
<1> HIDE DEF G
<1>2. Cpus \in G
  <2>1. SUBSET Cpus \subseteq G
    BY <1>1, CpusFinite, SubsetInduction
  <2> QED BY <2>1
<1> USE DEF G
<1>3. Total(w) = Sums(w)[Cpus] /\ Total(u) = Sums(u)[Cpus] /\ Total(v) = Sums(v)[Cpus]
  BY <1>0, TotalIsSums
<1>4. Total(w) = k * (Total(u) + Total(v))
  BY <1>2, <1>3
<1> QED BY <1>4 DEF w

-----------------------------------------------------------------------------
PerTick == Nanos \div ClockTicks

LEMMA Width == PerTick \in Nat /\ Nanos = PerTick * ClockTicks /\ Word \in Nat /\ Word > 0
               /\ ClockTicks \in Nat /\ ClockTicks > 0 /\ Nanos \in Nat
BY WidthAssumption DEF PerTick

LEMMA Remainder == ASSUME NEW a \in Nat, NEW b \in Nat, b > 0
                 PROVE  a % b \in Nat /\ a % b <= a /\ (a < b => a % b = a)
OBVIOUS

LEMMA Divided == ASSUME NEW a \in Nat, NEW d \in Nat, d > 0, NEW m \in Nat
                 PROVE  /\ a \div d \in Nat
                        /\ a <= m * d => a \div d <= m
                        /\ a = m * d => a \div d = m
OBVIOUS

LEMMA Nanoseconds ==
  ASSUME NEW t \in Nat
  PROVE  /\ InNanos(t) \in Nat /\ InNanos(t) <= PerTick * t
         /\ t * Nanos < Word => InNanos(t) = PerTick * t
<1> DEFINE a == t * Nanos
           b == a % Word
<1>1. a \in Nat /\ a = (PerTick * t) * ClockTicks /\ PerTick * t \in Nat
  BY Width
<1>2. b \in Nat /\ b <= a /\ (a < Word => b = a)
  BY <1>1, Width, Remainder
<1>3. InNanos(t) = b \div ClockTicks
  BY DEF InNanos
<1> HIDE DEF a, b
<1> QED BY <1>1, <1>2, <1>3, Width, Divided DEF a

-----------------------------------------------------------------------------
(***************************************************************************)
(* Types.                                                                  *)
(***************************************************************************)
TypeInv == TypeOK /\ (writer = "write" => asked > 0)

KernelType ==
  /\ there \subseteq Hierarchies /\ ticks \in [Cpus -> [Modes -> Nat]] /\ cache \in Nat
  /\ max \in (Limits \ {0}) \cup {NoLimit} /\ events \in 0 .. MaxEvents
WriterType ==
  /\ writer \in {"idle", "mkdir", "write"} /\ asked \in Limits \cup {0}
  /\ writer = "write" => asked > 0
ReaderType ==
  /\ pc \in {"idle", "dead", "cpuStat", "cpuScan", "acctStat", "acctUsage",
             "acctPercpu", "current", "max", "memOpen", "memParse"}
  /\ op \in DOMAIN Entry \cup {"none"}
  /\ result \in {"none", "ok", "error", "panic"}
  /\ got \in [DOMAIN NothingGot -> Nat]
  /\ DOMAIN before = {"cpu", "pids", "memory"}

LEMMA TypeParts ==
  IInv => (TypeInv <=> KernelType /\ WriterType /\ ReaderType)
BY DEF IInv, Shape, Counted, TypeInv, TypeOK, KernelType, WriterType, ReaderType

LEMMA InitType == Init => KernelType /\ WriterType /\ ReaderType
BY LimitsAssumption DEF Init, KernelType, WriterType, ReaderType, Modes, NothingGot, Entry

LEMMA KernelStep ==
  ASSUME KernelType, WriterType, ReaderType,
         \/ \E c \in Cpus, m \in Modes : Tick(c, m)
         \/ \E full \in BOOLEAN : Period(full)
         \/ Charge \/ \E h \in Hierarchies : Rmdir(h)
  PROVE  KernelType' /\ WriterType' /\ ReaderType'
<1>1. Event
  BY DEF Tick, Period, Charge, Rmdir
<1>2. events' \in 0 .. MaxEvents
  BY <1>1, LimitsAssumption DEF Event, KernelType
<1>3. WriterType' /\ ReaderType'
  BY <1>1 DEF Event, pids, reader, WriterType, ReaderType
<1>4. CASE \E c \in Cpus, m \in Modes : Tick(c, m)
  BY <1>2, <1>3, <1>4 DEF Tick, KernelType
<1>5. CASE (\E full \in BOOLEAN : Period(full)) \/ Charge
  BY <1>2, <1>3, <1>5 DEF Period, Charge, KernelType
<1>6. CASE \E h \in Hierarchies : Rmdir(h)
  BY <1>2, <1>3, <1>6 DEF Rmdir, KernelType
<1> QED BY <1>4, <1>5, <1>6

LEMMA WriterStep ==
  ASSUME KernelType, WriterType, ReaderType,
         (\E l \in Limits : WriterCall(l)) \/ Mkdir \/ WriteLimit
  PROVE  KernelType' /\ WriterType' /\ ReaderType'
<1>1. ReaderType'
  BY DEF WriterCall, Mkdir, WriteLimit, reader, ReaderType
<1>2. CASE \E l \in Limits : WriterCall(l)
  BY <1>1, <1>2 DEF WriterCall, kernel, KernelType, WriterType
<1>3. CASE Mkdir
  BY <1>1, <1>3 DEF Mkdir, WritesLimit, KernelType, WriterType, Hierarchies
<1>4. CASE WriteLimit
  BY <1>1, <1>4, LimitsAssumption DEF WriteLimit, KernelType, WriterType
<1> QED BY <1>2, <1>3, <1>4

\* A sum of ticks, and of what they make, at one moment.
SumIn(t, m) == Total([c \in Cpus |-> t[c][m]])
UsedIn(t) == Total([c \in Cpus |-> PerTick * (t[c]["user"] + t[c]["system"])])

LEMMA SumsAre ==
  ASSUME NEW t \in [Cpus -> [Modes -> Nat]]
  PROVE  /\ SumIn(t, "user") \in Nat /\ SumIn(t, "system") \in Nat
         /\ UsedIn(t) = PerTick * (SumIn(t, "user") + SumIn(t, "system"))
<1> DEFINE u == [c \in Cpus |-> t[c]["user"]]
           y == [c \in Cpus |-> t[c]["system"]]
<1>1. u \in [Cpus -> Nat] /\ y \in [Cpus -> Nat]
  BY DEF Modes
<1>2. [c \in Cpus |-> PerTick * (t[c]["user"] + t[c]["system"])]
        = [c \in Cpus |-> PerTick * (u[c] + y[c])]
  OBVIOUS
<1>3. SumIn(t, "user") = Total(u) /\ SumIn(t, "system") = Total(y)
  BY DEF SumIn
<1> HIDE DEF u, y
<1> QED BY <1>1, <1>2, <1>3, Width, SumNat, SumOfModes DEF UsedIn

LEMMA TicksAre ==
  /\ \A m : TicksOf(m) = SumIn(ticks, m) /\ TicksOf(m)' = SumIn(ticks', m)
  /\ Total([c \in Cpus |-> UsageOf(c)]) = UsedIn(ticks)
BY DEF TicksOf, SumIn, UsedIn, UsageOf, PerTick

LEMMA ReaderStep ==
  ASSUME IInv, IInv', KernelType, WriterType, ReaderType,
         \/ \E cpu \in {Nil, ZeroCPU} : NewStats(cpu)
         \/ \E o \in DOMAIN Entry : Call(o)
         \/ Stat
  PROVE  KernelType' /\ WriterType' /\ ReaderType'
<1> DEFINE pcs == {"idle", "dead", "cpuStat", "cpuScan", "acctStat", "acctUsage",
                   "acctPercpu", "current", "max", "memOpen", "memParse"}
           fields == {"user", "kernel", "total"}
<1>1. /\ got \in [fields -> Nat] /\ NothingGot \in [fields -> Nat]
      /\ DOMAIN NothingGot = fields
  BY DEF ReaderType, NothingGot
<1>2. DOMAIN stats = {"cpu", "pids", "memory"} /\ DOMAIN stats' = {"cpu", "pids", "memory"}
      /\ DOMAIN before = {"cpu", "pids", "memory"}
  BY DEF IInv, Shape, ReaderType
<1>3. UNCHANGED <<kernel, pids>>
  BY DEF NewStats, Call, Stat, CpuStat, AcctStat, AcctUsage, Current, Read, ReadFails, Fail,
         CpuScan, AcctPercpu, Max, MemOpen, MemParse, Return
<1>4. KernelType' /\ WriterType'
  BY <1>3 DEF kernel, pids, KernelType, WriterType
<1>5. CASE \/ \E cpu \in {Nil, ZeroCPU} : NewStats(cpu)
           \/ \E o \in DOMAIN Entry : Call(o)
  BY <1>2, <1>4, <1>5 DEF NewStats, Call, ReaderType, Entry
<1>6. CASE \E r \in {"ok", "error", "panic"} : Return(r)
  <2>1. /\ got' = NothingGot /\ before' \in {before, stats'} /\ op' = op
        /\ result' \in {"ok", "error", "panic"} /\ pc' \in {"idle", "dead"}
    BY <1>6 DEF Return
  <2> QED BY <1>1, <1>2, <1>4, <2>1 DEF ReaderType
<1>7. CASE CpuStat \/ Current \/ MemOpen
  BY <1>2, <1>4, <1>7 DEF CpuStat, Current, MemOpen, Read, ReaderType
<1>8. CASE AcctStat \/ AcctUsage
  <2>1. got' \in [fields -> Nat]
    <3>1. /\ InNanos(TicksOf("user")) \in Nat /\ InNanos(TicksOf("system")) \in Nat
          /\ Total([c \in Cpus |-> UsageOf(c)]) \in Nat
      <4>1. /\ SumIn(ticks, "user") \in Nat /\ SumIn(ticks, "system") \in Nat
            /\ UsedIn(ticks) = PerTick * (SumIn(ticks, "user") + SumIn(ticks, "system"))
        BY SumsAre DEF KernelType
      <4> QED BY <4>1, TicksAre, Nanoseconds, Width
    <3> QED BY <1>1, <1>8, <3>1 DEF AcctStat, AcctUsage
  <2> QED BY <1>1, <1>2, <1>4, <1>8, <2>1 DEF AcctStat, AcctUsage, Read, ReaderType
<1>9. CASE CpuScan \/ AcctPercpu \/ Max \/ MemParse
             \/ \E l \in {"cpuStat", "acctStat", "acctUsage", "acctPercpu", "current", "max",
                          "memOpen"} : ReadFails(l)
  <2>1. \E r \in {"ok", "error", "panic"} : Return(r)
    BY <1>9 DEF CpuScan, AcctPercpu, Max, MemParse, ReadFails, Fail
  <2> QED BY <1>6, <2>1
<1> QED BY <1>5, <1>7, <1>8, <1>9 DEF Stat

LEMMA NextType == IInv /\ IInv' /\ TypeInv /\ [Next]_vars => TypeInv'
<1> SUFFICES ASSUME IInv, IInv', TypeInv, [Next]_vars PROVE TypeInv'
  OBVIOUS
<1>1. KernelType /\ WriterType /\ ReaderType
  BY TypeParts
<1>2. CASE UNCHANGED vars
  BY <1>2 DEF TypeInv, TypeOK, vars, kernel, pids, reader
<1>3. CASE Next
  <2>1. KernelType' /\ WriterType' /\ ReaderType'
    BY <1>1, <1>3, KernelStep, WriterStep, ReaderStep DEF Next
  <2>2. DOMAIN stats' = {"cpu", "pids", "memory"} /\ periods' \in Nat /\ throttled' \in Nat
    BY DEF IInv, Shape, Counted
  <2> QED BY <2>1, <2>2 DEF TypeInv, TypeOK, KernelType, WriterType, ReaderType
<1> QED BY <1>2, <1>3

LEMMA TypeInductive == Spec => []TypeInv
<1>1. Init => TypeInv
  BY InitInv, InitType, TypeParts
<1> QED BY <1>1, InitInv, NextInv, NextType, PTL DEF Spec

\* Every variable keeps its type.
THEOREM Typing == Spec => []TypeOK
<1>1. TypeInv => TypeOK
  BY DEF TypeInv
<1> QED BY <1>1, TypeInductive, PTL

-----------------------------------------------------------------------------
(***************************************************************************)
(* The usage.  Its four numbers come from three reads; what bounds them is *)
(* how far the kernel had counted at each.                                 *)
(***************************************************************************)
\* Nanoseconds of a mode now, and of both.
Used(m) == PerTick * TicksOf(m)
AllUsed == PerTick * (TicksOf("user") + TicksOf("system"))

\* The reader has read user after t ticks, and reported no more before.
ReadAfter(t) ==
  /\ t <= TicksOf("user") /\ got.user = InNanos(t)
  /\ stats.cpu # Nil => stats.cpu.user <= PerTick * t

ReadsBound ==
  /\ pc \in {"acctUsage", "acctPercpu"} => result = "none" /\ \E t \in Nat : ReadAfter(t)
  /\ pc = "acctStat" => result = "none"
  /\ pc = "acctUsage" => got.kernel <= Used("system")
  /\ pc = "acctPercpu" => got.user + got.kernel <= got.total /\ got.total <= AllUsed

ReportBound ==
  stats.cpu # Nil =>
    /\ stats.cpu.user \in Nat /\ stats.cpu.kernel \in Nat /\ stats.cpu.total \in Nat
    /\ stats.cpu.user + stats.cpu.kernel <= stats.cpu.total
    /\ stats.cpu.total <= Total(stats.cpu.percpu)
    /\ stats.cpu.user <= Used("user")

UsageInv == ReadsBound /\ ReportBound

\* The counters of the kernel only grow.
Grows ==
  \A m \in Modes : TicksOf(m) \in Nat /\ TicksOf(m)' \in Nat /\ TicksOf(m) <= TicksOf(m)'

LEMMA CountersGrow == ASSUME TypeInv, TypeInv', [Next]_vars PROVE Grows
<1>1. ticks \in [Cpus -> [Modes -> Nat]] /\ ticks' \in [Cpus -> [Modes -> Nat]]
  BY DEF TypeInv, TypeOK
<1>2. \A c \in Cpus, m \in Modes : ticks[c][m] <= ticks'[c][m]
  <2>1. CASE \E c \in Cpus, m \in Modes : Tick(c, m)
    BY <1>1, <2>1 DEF Tick
  <2>2. CASE UNCHANGED ticks
    BY <1>1, <2>2
  <2> QED BY <2>1, <2>2 DEF Next, Period, Charge, Rmdir, WriterCall, Mkdir, WriteLimit,
             NewStats, Call, Stat, CpuStat, AcctStat, AcctUsage, Current, Read, ReadFails,
             Fail, CpuScan, AcctPercpu, Max, MemOpen, MemParse, Return, kernel, vars
<1>3. ASSUME NEW m \in Modes
      PROVE  SumIn(ticks, m) \in Nat /\ SumIn(ticks', m) \in Nat
               /\ SumIn(ticks, m) <= SumIn(ticks', m)
  <2> DEFINE f == [c \in Cpus |-> ticks[c][m]]
             g == [c \in Cpus |-> ticks'[c][m]]
  <2>1. f \in [Cpus -> Nat] /\ g \in [Cpus -> Nat] /\ \A c \in Cpus : f[c] <= g[c]
    BY <1>1, <1>2
  <2>2. SumIn(ticks, m) = Total(f) /\ SumIn(ticks', m) = Total(g)
    BY DEF SumIn
  <2> HIDE DEF f, g
  <2> QED BY <2>1, <2>2, SumNat, SumGrows
<1> QED BY <1>3, TicksAre DEF Grows

\* A step that reports no usage leaves what was reported.
UsageKept ==
  stats'.cpu # Nil =>
    /\ stats.cpu # Nil
    /\ stats'.cpu.user = stats.cpu.user /\ stats'.cpu.kernel = stats.cpu.kernel
    /\ stats'.cpu.total = stats.cpu.total /\ stats'.cpu.percpu = stats.cpu.percpu

LEMMA CpuScanReports == ASSUME IInv, CpuScan PROVE UsageKept
<1>1. PICK n \in 0 .. 2 :
        \/ UNCHANGED stats
        \/ /\ n > 0 /\ stats.cpu # Nil
           /\ stats' = [stats EXCEPT
                         !.cpu.periods   = CpuLines[1],
                         !.cpu.throttled = IF n = 2 THEN CpuLines[2] ELSE @]
  BY CpuScanReads
<1>2. CASE UNCHANGED stats
  BY <1>2 DEF UsageKept
<1>3. CASE /\ stats.cpu # Nil
           /\ stats' = [stats EXCEPT
                         !.cpu.periods   = CpuLines[1],
                         !.cpu.throttled = IF n = 2 THEN CpuLines[2] ELSE @]
  <2> DEFINE t == IF n = 2 THEN CpuLines[2] ELSE stats.cpu.throttled
  <2>1. stats' = [cpu |-> [periods |-> CpuLines[1], throttled |-> t,
                           user |-> stats.cpu.user, kernel |-> stats.cpu.kernel,
                           total |-> stats.cpu.total, percpu |-> stats.cpu.percpu],
                  pids |-> stats.pids, memory |-> stats.memory]
    BY <1>3 DEF IInv, Shape
  <2> HIDE DEF t
  <2>2. stats'.cpu = [periods |-> CpuLines[1], throttled |-> t,
                      user |-> stats.cpu.user, kernel |-> stats.cpu.kernel,
                      total |-> stats.cpu.total, percpu |-> stats.cpu.percpu]
    BY <2>1
  <2>3. stats.cpu # Nil
    BY <1>3
  <2>4. /\ stats'.cpu.user = stats.cpu.user /\ stats'.cpu.kernel = stats.cpu.kernel
        /\ stats'.cpu.total = stats.cpu.total /\ stats'.cpu.percpu = stats.cpu.percpu
    BY <2>2
  <2> QED BY <2>3, <2>4 DEF UsageKept
<1> QED BY <1>1, <1>2, <1>3

LEMMA OtherReports ==
  ASSUME IInv, UNCHANGED stats \/ Max \/ MemOpen \/ MemParse \/ CpuScan
  PROVE  UsageKept
<1>1. CASE UNCHANGED stats \/ Max \/ MemOpen \/ MemParse
  <2>1. UNCHANGED stats \/ (\E v : stats' = [stats EXCEPT !.pids = v])
          \/ (\E v : stats' = [stats EXCEPT !.memory = v])
    BY <1>1 DEF Max, MemOpen, MemParse
  <2> QED BY <2>1 DEF IInv, Shape, UsageKept
<1> QED BY <1>1, CpuScanReports

LEMMA Times ==
  \A k, a, b \in Nat : k * a \in Nat /\ k * b \in Nat /\ (a <= b => k * a <= k * b)
OBVIOUS

LEMMA UsedGrows ==
  ASSUME Grows
  PROVE  /\ Used("user") \in Nat /\ Used("system") \in Nat /\ AllUsed \in Nat
         /\ Used("user")' \in Nat /\ Used("system")' \in Nat /\ AllUsed' \in Nat
         /\ Used("user") <= Used("user")' /\ Used("system") <= Used("system")'
         /\ AllUsed <= AllUsed' /\ AllUsed = Used("user") + Used("system")
<1> DEFINE u == TicksOf("user")
           y == TicksOf("system")
<1>1. /\ u \in Nat /\ u' \in Nat /\ u <= u' /\ y \in Nat /\ y' \in Nat /\ y <= y'
  BY DEF Grows, Modes
<1>2. Used("user") = PerTick * u /\ Used("user")' = PerTick * u'
      /\ Used("system") = PerTick * y /\ Used("system")' = PerTick * y'
      /\ AllUsed = PerTick * (u + y) /\ AllUsed' = PerTick * (u' + y')
  BY DEF Used, AllUsed
<1> HIDE DEF u, y
<1>3. /\ PerTick * u \in Nat /\ PerTick * u' \in Nat /\ PerTick * u <= PerTick * u'
      /\ PerTick * y \in Nat /\ PerTick * y' \in Nat /\ PerTick * y <= PerTick * y'
  BY <1>1, Width, Times
<1>4. PerTick * (u + y) = PerTick * u + PerTick * y
      /\ PerTick * (u' + y') = PerTick * u' + PerTick * y'
  BY <1>1, Width
<1>5. AllUsed = Used("user") + Used("system") /\ AllUsed' = Used("user")' + Used("system")'
  BY <1>2, <1>4
<1>6. /\ Used("user") \in Nat /\ Used("system") \in Nat
      /\ Used("user")' \in Nat /\ Used("system")' \in Nat
      /\ Used("user") <= Used("user")' /\ Used("system") <= Used("system")'
  BY <1>2, <1>3
<1> QED BY <1>5, <1>6

LEMMA ReportStays == ASSUME TypeInv, ReportBound, Grows, UsageKept PROVE ReportBound'
<1>1. Used("user") \in Nat /\ Used("user")' \in Nat /\ Used("user") <= Used("user")'
  BY UsedGrows
<1> SUFFICES ASSUME stats'.cpu # Nil
             PROVE  /\ stats'.cpu.user \in Nat /\ stats'.cpu.kernel \in Nat
                    /\ stats'.cpu.total \in Nat
                    /\ stats'.cpu.user + stats'.cpu.kernel <= stats'.cpu.total
                    /\ stats'.cpu.total <= Total(stats'.cpu.percpu)
                    /\ stats'.cpu.user <= Used("user")'
  BY DEF ReportBound
<1> QED BY <1>1 DEF ReportBound, UsageKept

LEMMA OthersRead == ASSUME TypeInv, UsageInv, Grows, UNCHANGED reader PROVE UsageInv'
<1>1. UsageKept /\ ReportBound'
  BY ReportStays DEF UsageKept, UsageInv, reader
<1>2. /\ Used("system") \in Nat /\ Used("system")' \in Nat /\ Used("system") <= Used("system")'
      /\ AllUsed \in Nat /\ AllUsed' \in Nat /\ AllUsed <= AllUsed'
  BY UsedGrows
<1>3. got.kernel \in Nat /\ got.total \in Nat
  BY DEF TypeInv, TypeOK, NothingGot
<1>4. ASSUME NEW t \in Nat, ReadAfter(t) PROVE ReadAfter(t)'
  <2>1. TicksOf("user") \in Nat /\ TicksOf("user")' \in Nat /\ TicksOf("user") <= TicksOf("user")'
    BY DEF Grows, Modes
  <2> QED BY <1>4, <2>1 DEF ReadAfter, reader
<1>5. ReadsBound'
  BY <1>2, <1>3, <1>4 DEF UsageInv, ReadsBound, reader
<1> QED BY <1>1, <1>5 DEF UsageInv

LEMMA AcctStatReads ==
  ASSUME TypeInv, UsageInv, Grows, AcctStat PROVE UsageInv'
<1>1. /\ pc = "acctStat" /\ pc' = "acctUsage" /\ UNCHANGED <<kernel, stats, result>>
      /\ got' = [got EXCEPT !.user = InNanos(TicksOf("user")),
                            !.kernel = InNanos(TicksOf("system"))]
  BY DEF AcctStat, Read
<1>2. got \in [{"user", "kernel", "total"} -> Nat]
  BY DEF TypeInv, TypeOK, NothingGot
<1>3. got'.user = InNanos(TicksOf("user")) /\ got'.kernel = InNanos(TicksOf("system"))
  BY <1>1, <1>2
<1>4. TicksOf("user") \in Nat /\ TicksOf("system") \in Nat
      /\ TicksOf("user")' = TicksOf("user") /\ TicksOf("system")' = TicksOf("system")
  BY <1>1 DEF Grows, Modes, kernel, TicksOf
<1>5. PICK t \in Nat : t = TicksOf("user")
  BY <1>4
<1>6. ReadAfter(t)'
  BY <1>1, <1>3, <1>4, <1>5 DEF ReadAfter, UsageInv, ReportBound, Used
<1>7. got'.kernel <= Used("system")'
  BY <1>3, <1>4, Nanoseconds DEF Used
<1>8. ReadsBound'
  BY <1>1, <1>6, <1>7 DEF ReadsBound, UsageInv
<1>9. UsageKept
  BY <1>1 DEF UsageKept
<1> QED BY <1>8, <1>9, ReportStays DEF UsageInv

LEMMA AllUsedIs ==
  TypeInv => Total([c \in Cpus |-> UsageOf(c)]) = AllUsed
<1> SUFFICES ASSUME TypeInv PROVE Total([c \in Cpus |-> UsageOf(c)]) = AllUsed
  OBVIOUS
<1>1. ticks \in [Cpus -> [Modes -> Nat]]
  BY DEF TypeInv, TypeOK
<1>2. UsedIn(ticks) = PerTick * (SumIn(ticks, "user") + SumIn(ticks, "system"))
  BY <1>1, SumsAre
<1> QED BY <1>2, TicksAre DEF AllUsed

\* Both times read, and what they are read from, are within the usage now.
LEMMA AcctUsageReads ==
  ASSUME TypeInv, UsageInv, Grows, AcctUsage PROVE UsageInv'
<1>1. /\ pc = "acctUsage" /\ pc' = "acctPercpu" /\ UNCHANGED <<kernel, stats, result>>
      /\ got' = [got EXCEPT !.total = AllUsed]
  BY AllUsedIs DEF AcctUsage, Read
<1>2. got \in [{"user", "kernel", "total"} -> Nat]
  BY DEF TypeInv, TypeOK, NothingGot
<1>3. got'.total = AllUsed /\ got'.user = got.user /\ got'.kernel = got.kernel
  BY <1>1, <1>2
<1>4. AllUsed' = AllUsed /\ TicksOf("user")' = TicksOf("user") /\ TicksOf("user") \in Nat
  BY <1>1 DEF AllUsed, kernel, TicksOf, Grows, Modes
<1>5. PICK t \in Nat : ReadAfter(t)
  BY <1>1 DEF UsageInv, ReadsBound
<1>6. ReadAfter(t)'
  BY <1>1, <1>3, <1>4, <1>5 DEF ReadAfter
<1>7. got.user + got.kernel <= AllUsed
  <2>1. got.user <= PerTick * t /\ PerTick * t <= Used("user") /\ PerTick * t \in Nat
    BY <1>4, <1>5, Nanoseconds, Times, Width DEF ReadAfter, Used
  <2>2. got.kernel <= Used("system") /\ AllUsed = Used("user") + Used("system")
        /\ Used("user") \in Nat /\ Used("system") \in Nat
    BY <1>1, UsedGrows DEF UsageInv, ReadsBound
  <2>3. got.user \in Nat /\ got.kernel \in Nat
    BY <1>2
  <2> QED BY <2>1, <2>2, <2>3
<1>8. ReadsBound'
  BY <1>1, <1>3, <1>4, <1>6, <1>7, UsedGrows DEF ReadsBound, UsageInv
<1>9. UsageKept
  BY <1>1 DEF UsageKept
<1> QED BY <1>8, <1>9, ReportStays DEF UsageInv

LEMMA AcctPercpuReports ==
  ASSUME IInv, TypeInv, UsageInv, Grows, AcctPercpu PROVE UsageInv'
<1>1. pc = "acctPercpu" /\ pc' \in {"idle", "dead"} /\ UNCHANGED kernel
  BY DEF AcctPercpu, Return
<1>2. ReadsBound'
  BY <1>1 DEF ReadsBound
<1>3. CASE UNCHANGED stats
  <2>1. UsageKept
    BY <1>3 DEF UsageKept
  <2> QED BY <1>2, <2>1, ReportStays DEF UsageInv
<1>4. CASE /\ stats.cpu # Nil
           /\ stats' = [stats EXCEPT
                 !.cpu.user = got.user, !.cpu.kernel = got.kernel,
                 !.cpu.total = got.total,
                 !.cpu.percpu = [c \in Cpus |-> UsageOf(c)]]
  <2> DEFINE all == [c \in Cpus |-> UsageOf(c)]
  <2>1. stats' = [cpu |-> [periods |-> stats.cpu.periods, throttled |-> stats.cpu.throttled,
                           user |-> got.user, kernel |-> got.kernel,
                           total |-> got.total, percpu |-> all],
                  pids |-> stats.pids, memory |-> stats.memory]
    BY <1>4 DEF IInv, Shape
  <2>2. got.user \in Nat /\ got.kernel \in Nat /\ got.total \in Nat
    BY DEF TypeInv, TypeOK, NothingGot
  <2>3. PICK t \in Nat : ReadAfter(t)
    BY <1>1 DEF UsageInv, ReadsBound
  <2>4. got.user <= Used("user")
    <3>1. got.user <= PerTick * t
      BY <2>3, Nanoseconds DEF ReadAfter
    <3>2. t <= TicksOf("user") /\ TicksOf("user") \in Nat
      BY <2>3 DEF ReadAfter, Grows, Modes
    <3>3. PerTick * t <= Used("user") /\ PerTick * t \in Nat /\ Used("user") \in Nat
      BY <3>2, Times, Width DEF Used
    <3> QED BY <2>2, <3>1, <3>3
  <2>5. Used("user")' = Used("user")
    BY <1>1 DEF Used, TicksOf, kernel
  <2>6. got.user + got.kernel <= got.total /\ got.total <= Total(all)
    BY <1>1, AllUsedIs DEF UsageInv, ReadsBound
  <2> HIDE DEF all
  <2>7. stats'.cpu = [periods |-> stats.cpu.periods, throttled |-> stats.cpu.throttled,
                      user |-> got.user, kernel |-> got.kernel,
                      total |-> got.total, percpu |-> all]
    BY <2>1
  <2>8. ReportBound'
    BY <2>2, <2>4, <2>5, <2>6, <2>7 DEF ReportBound
  <2> QED BY <1>2, <2>8 DEF UsageInv
<1> QED BY <1>3, <1>4 DEF AcctPercpu

LEMMA CallReads ==
  ASSUME TypeInv, UsageInv, Grows,
         \/ \E cpu \in {Nil, ZeroCPU} : NewStats(cpu)
         \/ \E o \in DOMAIN Entry : Call(o)
  PROVE  UsageInv'
<1>1. CASE \E o \in DOMAIN Entry : Call(o)
  <2>1. /\ pc' \in {"cpuStat", "acctStat", "current", "memOpen"} /\ result' = "none"
        /\ UNCHANGED stats
    BY <1>1 DEF Call, Entry
  <2>2. ReadsBound' /\ UsageKept
    BY <2>1 DEF ReadsBound, UsageKept
  <2> QED BY <2>2, ReportStays DEF UsageInv
<1>2. ASSUME NEW cpu \in {Nil, ZeroCPU}, NewStats(cpu) PROVE UsageInv'
  <2>1. pc' = "idle" /\ stats'.cpu = cpu
    BY <1>2 DEF NewStats
  <2>2. Used("user")' \in Nat
    BY UsedGrows
  <2>3. Total([c \in Cpus |-> 0]) \in Nat
    BY SumNat
  <2>4. /\ ZeroCPU.user = 0 /\ ZeroCPU.kernel = 0 /\ ZeroCPU.total = 0
        /\ ZeroCPU.percpu = [c \in Cpus |-> 0]
    BY DEF ZeroCPU
  <2>5. ReportBound'
    BY <2>1, <2>2, <2>3, <2>4 DEF ReportBound
  <2> QED BY <2>1, <2>5 DEF UsageInv, ReadsBound
<1> QED BY <1>1, <1>2

LEMMA NextUsage ==
  IInv /\ TypeInv /\ TypeInv' /\ UsageInv /\ [Next]_vars => UsageInv'
<1> SUFFICES ASSUME IInv, TypeInv, TypeInv', UsageInv, [Next]_vars PROVE UsageInv'
  OBVIOUS
<1>0. Grows
  BY CountersGrow
<1>1. CASE \/ \E c \in Cpus, m \in Modes : Tick(c, m)
           \/ \E full \in BOOLEAN : Period(full)
           \/ Charge \/ \E h \in Hierarchies : Rmdir(h)
           \/ \E l \in Limits : WriterCall(l)
           \/ Mkdir \/ WriteLimit \/ UNCHANGED vars
  <2>1. UNCHANGED reader
    BY <1>1 DEF Tick, Period, Charge, Rmdir, Event, WriterCall, Mkdir, WriteLimit, vars
  <2> QED BY <1>0, <2>1, OthersRead
<1>2. CASE \/ \E cpu \in {Nil, ZeroCPU} : NewStats(cpu)
           \/ \E o \in DOMAIN Entry : Call(o)
  BY <1>0, <1>2, CallReads
<1>3. CASE AcctStat \/ AcctUsage \/ AcctPercpu
  BY <1>0, <1>3, AcctStatReads, AcctUsageReads, AcctPercpuReports
<1>4. CASE \/ MemOpen \/ MemParse \/ CpuStat \/ CpuScan \/ Current \/ Max
           \/ \E l \in {"cpuStat", "acctStat", "acctUsage", "acctPercpu", "current", "max",
                        "memOpen"} : ReadFails(l)
  <2>1. UsageKept
    BY <1>4, OtherReports DEF CpuStat, Current, Read, ReadFails, Fail
  <2>2. pc' \notin {"acctStat", "acctUsage", "acctPercpu"}
    BY <1>4 DEF MemOpen, MemParse, CpuStat, CpuScan, Current, Max, Read, ReadFails, Fail,
                Return
  <2>3. ReadsBound'
    BY <2>2 DEF ReadsBound
  <2> QED BY <1>0, <2>1, <2>3, ReportStays DEF UsageInv
<1> QED BY <1>1, <1>2, <1>3, <1>4 DEF Next, Stat

LEMMA InitUsage == Init => UsageInv
BY DEF Init, UsageInv, ReadsBound, ReportBound

LEMMA UsageInductive == Spec => [](IInv /\ TypeInv /\ UsageInv)
<1>1. Init => IInv /\ TypeInv /\ UsageInv
  BY InitInv, InitType, InitUsage, TypeParts
<1>2. (IInv /\ TypeInv /\ UsageInv) /\ [Next]_vars => (IInv /\ TypeInv /\ UsageInv)'
  BY NextInv, NextType, NextUsage
<1> QED BY <1>1, <1>2, PTL DEF Spec

\* For any processors and widths, the usage reported is consistent although it
\* comes from three files at three moments (cpuacct.go:51-62).
THEOREM Snapshot == Spec => []SnapshotOrdered
<1>1. UsageInv => SnapshotOrdered
  BY DEF UsageInv, ReportBound, SnapshotOrdered
<1> QED BY <1>1, UsageInductive, PTL

\* The user time never falls from one Stat to the next while its ticks times
\* nanosecondsInSecond fit the word (cpuacct.go:121).
THEOREM Monotone == Spec => UsageGrows
<1>1. IInv /\ TypeInv /\ UsageInv /\ [Next]_vars
        => [(pc = "acctPercpu" /\ result' = "ok" /\ TicksOf("user") * Nanos < Word)
              => stats'.cpu.user >= stats.cpu.user]_vars
  <2> SUFFICES ASSUME IInv, TypeInv, UsageInv, Next, pc = "acctPercpu", result' = "ok",
                      TicksOf("user") * Nanos < Word
               PROVE  stats'.cpu.user >= stats.cpu.user
    OBVIOUS
  <2>1. PICK t \in Nat : ReadAfter(t)
    BY DEF UsageInv, ReadsBound
  <2>2. result = "none"
    BY DEF UsageInv, ReadsBound
  <2>3. AcctPercpu
    BY <2>2 DEF Next, Tick, Period, Charge, Rmdir, Event, WriterCall, Mkdir, WriteLimit,
             NewStats, Call, Stat, CpuStat, AcctStat, AcctUsage, Current, Read, ReadFails,
             Fail, CpuScan, Max, MemOpen, MemParse, Return, reader
  <2>4. /\ stats.cpu # Nil
        /\ stats' = [stats EXCEPT
                 !.cpu.user = got.user, !.cpu.kernel = got.kernel,
                 !.cpu.total = got.total,
                 !.cpu.percpu = [c \in Cpus |-> UsageOf(c)]]
    BY <2>3 DEF AcctPercpu, Return
  <2>5. stats'.cpu.user = got.user
    BY <2>4 DEF IInv, Shape
  <2>6. t * Nanos < Word
    <3>1. TicksOf("user") \in Nat
      BY TicksAre, SumsAre DEF TypeInv, TypeOK
    <3>2. Nanos * t <= Nanos * TicksOf("user") /\ Nanos * t = t * Nanos
          /\ Nanos * TicksOf("user") = TicksOf("user") * Nanos
      BY <2>1, <3>1, Times, Width DEF ReadAfter
    <3> QED BY <3>1, <3>2, Width
  <2>7. got.user = PerTick * t /\ stats.cpu.user <= PerTick * t
    BY <2>1, <2>4, <2>6, Nanoseconds DEF ReadAfter
  <2>8. stats.cpu.user \in Nat /\ PerTick * t \in Nat
    BY <2>4, Width DEF UsageInv, ReportBound
  <2> QED BY <2>5, <2>7, <2>8
<1> QED BY <1>1, UsageInductive, PTL DEF Spec, UsageGrows
=============================================================================
