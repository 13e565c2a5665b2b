----------------------------- MODULE CgroupPath -----------------------------
(***************************************************************************)
(* Where a group's path leads: cleanPath of src/cgroups/utils.go, and the  *)
(* walk of ensureParent in src/cgroups/cpuset.go up from a group to the    *)
(* mount point and down again, which Cpuset has as one test.  A path is    *)
(* whether it is absolute and its components; "" has none, and "." is the  *)
(* relative path of the one component ".".                                 *)
(***************************************************************************)
EXTENDS Naturals, Sequences, SequencesExt, FiniteSets

CONSTANTS
  FileNames,   \* names but "." and ".."
  Lists,       \* the components of the paths asked for
  Roots        \* the components of the mount points, none of them "/"

VARIABLES
  asked, root,           \* the path asked for; the controller's root
  walk, current, below,    \* ensureParent: its argument, those it returns to
  made, outcome

pathVars == <<asked, root, walk, current, below, made, outcome>>

ASSUME PathsAssumption ==
  /\ {".", ".."} \cap FileNames = {}
  /\ \A l \in Lists : l \in Seq(FileNames \cup {".", ".."})
  /\ \A l \in Roots : l \in Seq(FileNames) /\ l # <<>>

Absolute(l) == [abs |-> TRUE, names |-> l]
EmptyPath   == [abs |-> FALSE, names |-> <<>>]

-----------------------------------------------------------------------------
\* filepath.Clean, one component at a time.
Pushed(abs, stack, n) ==
  CASE n = "."                                        -> stack
    [] n = ".." /\ stack # <<>> /\ Last(stack) # ".." -> Front(stack)
    [] n = ".." /\ stack = <<>> /\ abs                -> stack
    [] OTHER                                          -> Append(stack, n)

Stack(abs, names) == FoldLeft(LAMBDA s, n : Pushed(abs, s, n), <<>>, names)

Clean(p) ==
  LET stack == Stack(p.abs, p.names)
  IN  [p EXCEPT !.names = IF stack = <<>> /\ ~p.abs THEN <<".">> ELSE stack]

\* filepath.Dir of a clean absolute path.
Dir(p) == IF p.names = <<>> THEN p ELSE [p EXCEPT !.names = Front(@)]

\* Mutant: a relative path is not taken for one below "/" first.
cleanPathRelative(p) == IF p = EmptyPath THEN p ELSE Clean(p)
cleanPath(p) ==
  IF p = EmptyPath THEN p
  ELSE LET c == Clean(p) IN
       IF c.abs THEN Clean(c)
       ELSE Clean([Clean(Absolute(c.names)) EXCEPT !.abs = FALSE])

\* The controller's Path: filepath.Join of its root and the path.
Path(p) == Clean(Absolute(root.names \o p.names))

-----------------------------------------------------------------------------
PathInit ==
  /\ asked \in [abs : BOOLEAN, names : Lists]
  /\ root \in {Absolute(l) : l \in Roots}
  /\ walk = "idle" /\ current = EmptyPath /\ below = <<>>
  /\ made = <<>> /\ outcome = "none"

\* cleanPath of the path itself.
CleanIt ==
  /\ walk = "idle" /\ outcome = "none"
  /\ current' = cleanPath(asked) /\ outcome' = "clean"
  /\ UNCHANGED <<asked, root, walk, below, made>>

EnsureParent ==
  /\ walk = "idle" /\ outcome = "none"
  /\ walk' = "up" /\ current' = Path(asked)
  /\ UNCHANGED <<asked, root, below, made, outcome>>

\* Mutant: the walk ends at "/" without an error.
UpToSlash ==
  /\ walk = "up"
  /\ IF cleanPath(Dir(current)) # root /\ Dir(current) # current
     THEN /\ current' = Dir(current) /\ below' = <<current>> \o below
          /\ UNCHANGED <<walk, outcome>>
     ELSE walk' = "down" /\ UNCHANGED <<current, below, outcome>>
  /\ UNCHANGED <<asked, root, made>>
\* One call of ensureParent up to the recursive one.  Both paths are absolute,
\* so that filepath.Rel does not fail.
Up ==
  /\ walk = "up"
  /\ LET parent == Dir(current) IN
     \/ /\ parent = current
        /\ walk' = "idle" /\ outcome' = "error" /\ below' = <<>>
        /\ UNCHANGED current
     \/ /\ parent # current /\ cleanPath(parent) # root
        /\ current' = parent /\ below' = <<current>> \o below
        /\ UNCHANGED <<walk, outcome>>
     \/ /\ parent # current /\ cleanPath(parent) = root
        /\ walk' = "down"
        /\ UNCHANGED <<current, below, outcome>>
  /\ UNCHANGED <<asked, root, made>>

\* The rest of that call: MkdirAll, and the copies, of which Cpuset has the
\* detail.  Either may fail.
Down ==
  /\ walk = "down"
  /\ \/ /\ made' = Append(made, current)
        /\ IF below = <<>>
           THEN walk' = "idle" /\ outcome' = "ok" /\ UNCHANGED <<current, below>>
           ELSE /\ current' = Head(below) /\ below' = Tail(below)
                /\ UNCHANGED <<walk, outcome>>
     \/ /\ walk' = "idle" /\ outcome' = "failed" /\ below' = <<>>
        /\ UNCHANGED <<current, made>>
  /\ UNCHANGED <<asked, root>>

PathNext == CleanIt \/ EnsureParent \/ Up \/ Down

PathSpec == PathInit /\ [][PathNext]_pathVars

-----------------------------------------------------------------------------
\* The names of a path that no later ".." takes back: after each of them, no
\* stretch of the path has more ".." than names.
Count(l, i, j, N) == Cardinality({k \in i .. j : l[k] \in N})
Kept(l) ==
  {i \in 1 .. Len(l) :
     /\ l[i] \in FileNames
     /\ \A j \in i .. Len(l) : Count(l, i + 1, j, {".."}) <= Count(l, i + 1, j, FileNames)}

\* The elements of a path at some places, in their order.
Place(S, i) == Cardinality({j \in S : j <= i})
Nth(S, n) == CHOOSE i \in S : Place(S, i) = n
Picked(l, S) == [n \in 1 .. Cardinality(S) |-> l[Nth(S, n)]]

Reduced(l) == Picked(l, Kept(l))

\* cleanPath never leads above the directory it is joined to, keeps a path
\* absolute or relative, names the directory the path does when ".." stops at
\* that directory, and has nothing left to clean (utils.go:227-236).
PathStaysBelow ==
  outcome = "clean" =>
    /\ current.abs = asked.abs
    /\ IF current.names = <<".">> THEN ~current.abs /\ Reduced(asked.names) = <<>>
       ELSE current.names = Reduced(asked.names)
    /\ cleanPath(current) = current

\* Whatever path is asked for, dots included, ensureParent makes directories
\* below the mount point only, each after its parent and down to the one asked
\* for; and it refuses exactly the paths that do not lead there, having made
\* nothing (cpuset.go:101-119).
MadeBelowRoot ==
  LET wanted == Reduced(root.names \o asked.names)
      inside == IsStrictPrefix(root.names, wanted)
  IN  /\ \A i \in 1 .. Len(made) :
           /\ inside /\ made[i].abs
           /\ made[i].names = SubSeq(wanted, 1, Len(root.names) + i)
      /\ outcome = "ok" => Len(root.names) + Len(made) = Len(wanted) /\ inside
      /\ outcome = "error" => made = <<>> /\ ~inside
=============================================================================
