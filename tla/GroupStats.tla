----------------------------- MODULE GroupStats -----------------------------
(***************************************************************************)
(* Reading a group's metrics into one Stats value: Stat of the cpu,        *)
(* cpuacct, pids and memory controllers (cpu.go, cpuacct.go, pids.go and   *)
(* memory.go of src/cgroups), file after file, while the kernel counts on, *)
(* another process runs Create and Update of the pids controller, and      *)
(* groups are removed.  Of memory's Stat this is the part that reads       *)
(* memory.stat; MemoryController has the limits.                           *)
(***************************************************************************)
EXTENDS Naturals, FiniteSets, Functions

CONSTANTS
  Cpus,       \* the processors of cpuacct.usage_percpu
  Limits,     \* the pids limits callers ask for, those <= 0 included as 0
  Nil,        \* a nil pointer
  NoLimit,    \* the content "max" of pids.max
  Word,       \* 2^64
  Nanos,      \* nanosecondsInSecond
  ClockTicks, \* clockTicks
  Boot,       \* ticks a processor may have counted in each mode at first
  MaxEvents   \* bound: how often the kernel may change its counters

VARIABLES
  there, ticks, periods, throttled, max, cache, events,  \* kernel
  writer, asked,                                         \* the pids writer
  pc, op, stats, got, result,                            \* the reader
  before, saw   \* ghosts: stats at the call; the cache it read

kernel == <<there, ticks, periods, throttled, max, cache, events>>
pids   == <<writer, asked>>
reader == <<pc, op, stats, got, result, before, saw>>
vars   == <<kernel, pids, reader>>

ASSUME WidthAssumption ==
  /\ Word \in Nat \ {0} /\ ClockTicks \in Nat \ {0}
  /\ Nanos \in Nat \ {0} /\ Nanos % ClockTicks = 0
ASSUME LimitsAssumption ==
  /\ Limits \subseteq Nat /\ NoLimit \notin Nat /\ IsFiniteSet(Cpus)
  /\ Boot \subseteq Nat /\ MaxEvents \in Nat

Modes == {"user", "system"}
Hierarchies == {"cpu", "cpuacct", "pids", "memory"}
NothingGot == [user |-> 0, kernel |-> 0, total |-> 0]
ZeroCPU == [periods |-> 0, throttled |-> 0, user |-> 0, kernel |-> 0,
            total |-> 0, percpu |-> [c \in Cpus |-> 0]]

ZeroMemory == [cache |-> 0, total |-> 0]

Total(f) == FoldFunction(+, 0, f)

(***************************************************************************)
(* The kernel's files: ticks per mode in cpuacct.stat, nanoseconds in      *)
(* cpuacct.usage and cpuacct.usage_percpu.  Counters only grow, and at any *)
(* moment the two modes add up to the usage.                               *)
(***************************************************************************)
TicksOf(m) == Total([c \in Cpus |-> ticks[c][m]])
UsageOf(c) == (Nanos \div ClockTicks) * (ticks[c]["user"] + ticks[c]["system"])

\* getUsage: ticks to nanoseconds, the product taken modulo 2^64.
\* Mutant: the product is kept in half the width.
InNanosNarrow(t) == ((t * Nanos) % (Word \div 2)) \div ClockTicks
InNanos(t) == ((t * Nanos) % Word) \div ClockTicks

-----------------------------------------------------------------------------
Init ==
  /\ there = Hierarchies
  /\ \E b \in Boot : ticks = [c \in Cpus |-> [m \in Modes |-> b]]
  /\ periods = 0 /\ throttled = 0 /\ max = NoLimit
  /\ cache = 0 /\ events = 0
  /\ writer = "idle" /\ asked = 0
  /\ pc = "idle" /\ op = "none"
  /\ stats = [cpu |-> Nil, pids |-> Nil, memory |-> Nil]
  /\ got = NothingGot /\ result = "none"
  /\ before = stats /\ saw = Nil

Event == events < MaxEvents /\ events' = events + 1 /\ UNCHANGED <<pids, reader>>

Tick(c, m) ==
  /\ Event
  /\ ticks' = [ticks EXCEPT ![c][m] = @ + 1]
  /\ UNCHANGED <<there, periods, throttled, max, cache>>

Period(full) ==
  /\ Event
  /\ periods' = periods + 1
  /\ throttled' = IF full THEN throttled + 1 ELSE throttled
  /\ UNCHANGED <<there, ticks, max, cache>>

\* The group's page cache grows, and with it the total of its hierarchy.
Charge ==
  /\ Event /\ "memory" \in there
  /\ cache' = cache + 1
  /\ UNCHANGED <<there, ticks, periods, throttled, max>>

Rmdir(h) ==
  /\ Event
  /\ h \in there
  /\ there' = there \ {h}
  /\ max' = IF h = "pids" THEN NoLimit ELSE max
  /\ UNCHANGED <<ticks, periods, throttled, cache>>

(***************************************************************************)
(* The pids controller's Create, and Update, which is Create.              *)
(***************************************************************************)
WriterCall(l) ==
  /\ writer = "idle"
  /\ writer' = "mkdir" /\ asked' = l
  /\ UNCHANGED <<kernel, reader>>

\* Mutant: a limit of 0 is written too.
WritesLimitAlways == TRUE
WritesLimit == asked > 0

Mkdir ==
  /\ writer = "mkdir"
  /\ \/ /\ there' = there \cup {"pids"}
        /\ WritesLimit /\ writer' = "write" /\ UNCHANGED asked
     \/ /\ there' = there \cup {"pids"}
        /\ ~WritesLimit /\ writer' = "idle" /\ asked' = 0
     \/ writer' = "idle" /\ asked' = 0 /\ UNCHANGED there
  /\ UNCHANGED <<ticks, periods, throttled, max, cache, events, reader>>

WriteLimit ==
  /\ writer = "write"
  /\ writer' = "idle" /\ asked' = 0
  /\ max' = IF "pids" \in there THEN asked ELSE max
  /\ UNCHANGED <<there, ticks, periods, throttled, cache, events, reader>>

(***************************************************************************)
(* The reader.  Its caller passes a Stats value whose CPU part is nil or   *)
(* allocated, and may pass the same value again.                           *)
(***************************************************************************)
NewStats(cpu) ==
  /\ pc \in {"idle", "dead"}
  /\ stats' = [cpu |-> cpu, pids |-> Nil, memory |-> Nil]
  /\ pc' = "idle" /\ op' = "none" /\ result' = "none"
  /\ before' = stats' /\ saw' = Nil
  /\ UNCHANGED <<kernel, pids, got>>

Entry == [cpu |-> "cpuStat", cpuacct |-> "acctStat", pids |-> "current",
          memory |-> "memOpen"]

Call(o) ==
  /\ pc = "idle"
  /\ pc' = Entry[o] /\ op' = o /\ result' = "none"
  /\ before' = stats /\ saw' = Nil
  /\ UNCHANGED <<kernel, pids, stats, got>>

Return(r) ==
  /\ pc' = IF r = "panic" THEN "dead" ELSE "idle"
  /\ result' = r
  /\ got' = NothingGot
  /\ before' = IF r = "error" THEN before ELSE stats'
  /\ UNCHANGED <<kernel, pids, op>>

Fail == UNCHANGED <<stats, saw>> /\ Return("error")

\* A step that reads a file of hierarchy h: it goes on to label l, or fails.
Read(from, h, l) ==
  /\ pc = from /\ h \in there
  /\ pc' = l
  /\ UNCHANGED <<kernel, pids, op, stats, result, before>>
ReadFails(from) == pc = from /\ Fail

(***************************************************************************)
(* cpu.Stat: open cpu.stat, then take its lines one by one.  The loop ends *)
(* at the end of the file, at a line that does not parse, or at a read     *)
(* error, which the scanner reports only after the loop: Stat returns nil. *)
(***************************************************************************)
CpuStat == Read("cpuStat", "cpu", "cpuScan") /\ UNCHANGED <<got, saw>>

\* The lines the switch knows, in the file's order; throttled_time is treated
\* as nr_throttled is and left out.
\* Mutant: the two counters are taken for each other.
CpuLinesCrossed == <<throttled, periods>>
CpuLines == <<periods, throttled>>

CpuScan ==
  /\ pc = "cpuScan"
  /\ \E n \in 0 .. 2, end \in {"eof", "readError", "malformed"} :
       /\ end = "eof" => n = 2
       /\ end = "malformed" => n < 2
       /\ (n > 0 \/ end # "readError") => "cpu" \in there
       /\ IF n > 0 /\ stats.cpu = Nil
            THEN UNCHANGED stats /\ Return("panic")
            ELSE /\ stats' = IF n = 0 THEN stats
                             ELSE [stats EXCEPT
                                    !.cpu.periods   = CpuLines[1],
                                    !.cpu.throttled = IF n = 2 THEN CpuLines[2] ELSE @]
                 /\ Return(IF end = "malformed" THEN "error" ELSE "ok")
  /\ UNCHANGED saw

(***************************************************************************)
(* cpuacct.Stat: cpuacct.stat, then cpuacct.usage, then                    *)
(* cpuacct.usage_percpu, and then the four assignments.                    *)
(***************************************************************************)
AcctStat ==
  /\ Read("acctStat", "cpuacct", "acctUsage")
  /\ got' = [got EXCEPT !.user = InNanos(TicksOf("user")),
                        !.kernel = InNanos(TicksOf("system"))]
  /\ UNCHANGED saw

AcctUsage ==
  /\ Read("acctUsage", "cpuacct", "acctPercpu")
  /\ got' = [got EXCEPT !.total = Total([c \in Cpus |-> UsageOf(c)])]
  /\ UNCHANGED saw

\* Mutant: the assignments are made before the last file is read.
AcctPercpuEarly ==
  /\ pc = "acctPercpu" /\ stats.cpu # Nil
  /\ stats' = [stats EXCEPT !.cpu.user = got.user, !.cpu.kernel = got.kernel,
                            !.cpu.total = got.total]
  /\ \E r \in {"ok", "error"} : Return(r)
  /\ UNCHANGED saw
\* Mutant: getUsage is called last.
AcctUsageLast ==
  /\ pc = "acctPercpu" /\ "cpuacct" \in there /\ stats.cpu # Nil
  /\ stats' = [stats EXCEPT !.cpu.user = InNanos(TicksOf("user")),
                            !.cpu.kernel = InNanos(TicksOf("system")),
                            !.cpu.total = got.total]
  /\ Return("ok") /\ UNCHANGED saw
AcctPercpu ==
  /\ pc = "acctPercpu" /\ "cpuacct" \in there
  /\ IF stats.cpu = Nil
       THEN UNCHANGED stats /\ Return("panic")
       ELSE /\ stats' = [stats EXCEPT
                 !.cpu.user = got.user, !.cpu.kernel = got.kernel,
                 !.cpu.total = got.total,
                 !.cpu.percpu = [c \in Cpus |-> UsageOf(c)]]
            /\ Return("ok")
  /\ UNCHANGED saw

\* pids.Stat: pids.current, whose value is left out, then pids.max, "max"
\* being reported as 0.
Current ==
  /\ Read("current", "pids", "max")
  /\ UNCHANGED <<got, saw>>

Max ==
  /\ pc = "max" /\ "pids" \in there
  /\ stats' = [stats EXCEPT !.pids = [limit |-> IF max = NoLimit THEN 0 ELSE max]]
  /\ Return("ok")
  /\ UNCHANGED saw

(***************************************************************************)
(* memory.Stat: open memory.stat, put a new MemoryStat in the Stats, parse *)
(* the lines into a map, and take the fields from it, the missing ones 0.  *)
(* A malformed line ends the call before any field is taken.  The limits   *)
(* are read afterwards, and that may fail too.                             *)
(***************************************************************************)
\* Mutant: the MemoryStat that is there is used again.
FreshMemoryReused == IF stats.memory = Nil THEN ZeroMemory ELSE stats.memory
FreshMemory == ZeroMemory

MemOpen ==
  /\ pc = "memOpen" /\ "memory" \in there
  /\ pc' = "memParse"
  /\ stats' = [stats EXCEPT !.memory = FreshMemory]
  /\ UNCHANGED <<kernel, pids, op, got, result, before, saw>>

\* The fields taken when the first n of the two lines, cache and total_cache,
\* were read.
ParseStats(n) == [cache |-> IF n > 0 THEN cache ELSE 0,
                  total |-> IF n > 1 THEN cache ELSE 0]

MemParse ==
  /\ pc = "memParse"
  /\ saw' = cache
  /\ \/ /\ \E n \in 0 .. 2 :
             /\ n > 0 => "memory" \in there
             /\ stats' = [stats EXCEPT !.memory = ParseStats(n)]
        /\ \E r \in {"ok", "error"} : Return(r)
     \/ UNCHANGED stats /\ Return("error")   \* malformed

Stat ==
  \/ MemOpen \/ MemParse
  \/ CpuStat \/ CpuScan \/ AcctStat \/ AcctUsage \/ AcctPercpu \/ Current \/ Max
  \/ \E l \in {"cpuStat", "acctStat", "acctUsage", "acctPercpu", "current", "max",
             "memOpen"} : ReadFails(l)

Next ==
  \/ \E c \in Cpus, m \in Modes : Tick(c, m)
  \/ \E full \in BOOLEAN : Period(full)
  \/ Charge
  \/ \E h \in Hierarchies : Rmdir(h)
  \/ \E l \in Limits : WriterCall(l)
  \/ Mkdir \/ WriteLimit
  \/ \E cpu \in {Nil, ZeroCPU} : NewStats(cpu)
  \/ \E o \in DOMAIN Entry : Call(o)
  \/ Stat

Spec == Init /\ [][Next]_vars

-----------------------------------------------------------------------------
\* Every variable keeps its type.
TypeOK ==
  /\ there \subseteq Hierarchies
  /\ ticks \in [Cpus -> [Modes -> Nat]]
  /\ periods \in Nat /\ throttled \in Nat /\ cache \in Nat
  /\ max \in (Limits \ {0}) \cup {NoLimit} /\ events \in 0 .. MaxEvents
  /\ writer \in {"idle", "mkdir", "write"} /\ asked \in Limits \cup {0}
  /\ pc \in {"idle", "dead", "cpuStat", "cpuScan", "acctStat", "acctUsage",
             "acctPercpu", "current", "max", "memOpen", "memParse"}
  /\ op \in DOMAIN Entry \cup {"none"}
  /\ result \in {"none", "ok", "error", "panic"}
  /\ DOMAIN stats = {"cpu", "pids", "memory"} /\ DOMAIN before = DOMAIN stats
  /\ got \in [DOMAIN NothingGot -> Nat]

\* The usage reported is consistent although it comes from three reads at three
\* moments: user + kernel <= total <= the sum over the processors, because the
\* files are read in that order and the counters only grow (cpuacct.go:51-62).
SnapshotOrdered ==
  stats.cpu # Nil =>
    /\ stats.cpu.user + stats.cpu.kernel <= stats.cpu.total
    /\ stats.cpu.total <= Total(stats.cpu.percpu)

\* A Stat of cpuacct or pids that returns an error, after whatever reads, has
\* changed nothing in the caller's Stats (cpuacct.go:63-66, pids.go:78-81).
AllOrNothing ==
  (op \in {"cpuacct", "pids"} /\ result = "error") => stats = before

\* No more throttled periods than periods are ever reported, also when cpu.Stat
\* took the file for shorter than it is and left older values in place.
ThrottledBounded ==
  stats.cpu # Nil => stats.cpu.throttled <= stats.cpu.periods

\* After a memory Stat that got to memory.stat, failed or not, the counters are
\* 0 or what the kernel said during that very call, and the total is not from
\* another read than the group's own (memory.go:130-136, 243-275).
MemoryFresh ==
  (saw # Nil /\ result # "none") =>
    /\ stats.memory.cache \in {0, saw}
    /\ stats.memory.total \in {0, stats.memory.cache}

\* From one Stat to the next into the same Stats the user time never falls, as
\* long as its ticks times nanosecondsInSecond fit the word (cpuacct.go:121).
UsageGrows ==
  [][(pc = "acctPercpu" /\ result' = "ok" /\ TicksOf("user") * Nanos < Word)
       => stats'.cpu.user >= stats.cpu.user]_vars
=============================================================================
