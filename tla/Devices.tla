------------------------------ MODULE Devices ------------------------------
(***************************************************************************)
(* DevicePermissions of src/configs/devices.go: a string of "r", "w" and   *)
(* "m", here the sequence of its characters, with the operations of a set. *)
(* It is a string for the sake of old callers, so it may hold what no set  *)
(* of permissions does: a character twice, in another order, or unknown.   *)
(* A rule's permissions start as any such string and are operated on.      *)
(***************************************************************************)
EXTENDS Naturals, Sequences

CONSTANTS
  Chars,    \* the characters a string may have
  Strings   \* the strings given to the operations

VARIABLES
  perm,             \* a rule's Permissions
  ideal, operated   \* ghosts: the set it should stand for; is it a result?

permVars == <<perm, ideal, operated>>

Permissions == {"r", "w", "m"}

ASSUME CharsAssumption == Permissions \subseteq Chars
ASSUME StringsAssumption == Strings \subseteq Seq(Chars)

\* The set of bits toSet returns, as the permissions they stand for.
toSet(p) == {c \in Permissions : \E i \in 1 .. Len(p) : p[i] = c}

If(set, c) == IF c \in set THEN <<c>> ELSE <<>>

fromSet(set) == If(set, "r") \o If(set, "w") \o If(set, "m")

Union(p, o) == fromSet(toSet(p) \cup toSet(o))

\* Mutant: what only o has is kept.
DifferenceXor(p, o) ==
  fromSet((toSet(p) \ toSet(o)) \cup (toSet(o) \ toSet(p)))
Difference(p, o) == fromSet(toSet(p) \ toSet(o))

Intersection(p, o) == fromSet(toSet(p) \cap toSet(o))

IsEmpty(p) == p = <<>>

IsValid(p) == p = fromSet(toSet(p))

-----------------------------------------------------------------------------
\* The permissions that occur in a string.
Listed(p) == {p[i] : i \in 1 .. Len(p)} \cap Permissions

PermInit == perm \in Strings /\ ideal = Listed(perm) /\ operated = FALSE

Operate(result, set) == perm' = result /\ ideal' = set /\ operated' = TRUE

PermNext ==
  \E o \in Strings :
    \/ Operate(Union(perm, o), ideal \cup Listed(o))
    \/ Operate(Difference(perm, o), ideal \ Listed(o))
    \/ Operate(Intersection(perm, o), ideal \cap Listed(o))

PermSpec == PermInit /\ [][PermNext]_permVars

-----------------------------------------------------------------------------
\* However many operations were made, with whatever strings, the result lists
\* the set that the same operations on sets give, it is valid, and IsEmpty
\* tells whether that set is (devices.go:70-95).
SetOperations ==
  /\ Listed(perm) = ideal
  /\ operated => IsValid(perm) /\ (IsEmpty(perm) <=> ideal = {})

\* "IsValid returns whether the set of permissions is a subset of valid
\* permissions (namely, {r,w,m})", says devices.go:97-98, and devices.go:150-151
\* of the strings of a rule: "any combination of "rwm"".  A run shows that the
\* order counts as well.
ValidIsSubset ==
  IsValid(perm) <=> \A i \in 1 .. Len(perm) : perm[i] \in Permissions

\* IsValid accepts the strings that list permissions in the order of "rwm",
\* each once, and no other (devices.go:99-101).
Rank == [c \in Permissions |-> IF c = "r" THEN 1 ELSE IF c = "w" THEN 2 ELSE 3]

InOrder(p) ==
  /\ \A i \in 1 .. Len(p) : p[i] \in Permissions
  /\ \A i, j \in 1 .. Len(p) : i < j => Rank[p[i]] < Rank[p[j]]

ValidIsInOrder == IsValid(perm) <=> InOrder(perm)
=============================================================================
