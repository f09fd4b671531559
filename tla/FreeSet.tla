------------------------------- MODULE FreeSet -------------------------------
(***************************************************************************)
(* What CSpace (src/src/space.h) promises to its only caller, the remap of *)
(* a RomFS: it keeps a set of free units, hands out the lowest position at *)
(* which a given size fits, and answers every call truthfully.  There is   *)
(* no list here; the module Space shows that the list of extents the code  *)
(* keeps implements this.                                                  *)
(***************************************************************************)
EXTENDS Integers

CONSTANT MaxOffset       \* the units of the address space are 0 .. MaxOffset - 1

VARIABLES units,         \* the set of free units
          ok,            \* what the last addition or removal answered
          found          \* what the last search answered

vars == <<units, ok, found>>

Universe == 0 .. (MaxOffset - 1)

\* The units of the extent of s units at offset o.
Extent(o, s) == o .. (o + s - 1)

\* The free positions from which s consecutive units are free.
Fits(s) == {o \in units : Extent(o, s) \subseteq units}

\* A new extent is added when none of its units is free already.
Add(o, s) ==
  /\ UNCHANGED found
  /\ \/ /\ Extent(o, s) \cap units = {}
        /\ units' = units \cup Extent(o, s)
        /\ ok' = TRUE
     \/ /\ Extent(o, s) \cap units # {}
        /\ ok' = FALSE
        /\ UNCHANGED units

\* An extent is removed when all of its units are free.
Sub(o, s) ==
  /\ UNCHANGED found
  /\ \/ /\ Extent(o, s) \subseteq units
        /\ units' = units \ Extent(o, s)
        /\ ok' = TRUE
     \/ /\ ~(Extent(o, s) \subseteq units)
        /\ ok' = FALSE
        /\ UNCHANGED units

Clear ==
  /\ units' = {}
  /\ UNCHANGED <<ok, found>>

\* The lowest position where s units fit, or -1 when there is none.
Get(s) ==
  /\ \/ /\ Fits(s) = {}
        /\ found' = -1
     \/ /\ found' \in Fits(s)
        /\ \A o \in Fits(s) : found' <= o
  /\ UNCHANGED <<units, ok>>

-----------------------------------------------------------------------------

Init ==
  /\ units = {}
  /\ ok = TRUE
  /\ found = -1

Next ==
  \/ \E o \in 0 .. MaxOffset : \E s \in 0 .. (MaxOffset - o) : Add(o, s) \/ Sub(o, s)
  \/ Clear
  \/ \E s \in 0 .. MaxOffset : Get(s)

Spec == Init /\ [][Next]_vars
=============================================================================
