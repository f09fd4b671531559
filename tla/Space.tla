-------------------------------- MODULE Space --------------------------------
(***************************************************************************)
(* CSpace (src/src/space.cpp): the list of free extents that the creation  *)
(* of a RomFS against a reference allocates from.  m_lBuffer is kept here  *)
(* as a sequence of the same extents in the same order; an extent is the   *)
(* half-open interval [Top, Bottom).  Every method walks the list from its *)
(* head and acts at the first buffer that meets one of its conditions, so  *)
(* each is written with the set of buffers at which its loop can stop.     *)
(*                                                                         *)
(* n64 offsets are integers: a RomFS is far below 2^63 bytes.              *)
(***************************************************************************)
EXTENDS Integers, Sequences

CONSTANT MaxOffset       \* extents lie within 0 .. MaxOffset

ASSUME MaxOffsetAssumption == MaxOffset \in Nat

VARIABLES buffers,       \* m_lBuffer
          ok,            \* what the last AddSpace or SubSpace returned
          found          \* what the last GetSpace returned

vars == <<buffers, ok, found>>

\* Operators named ...Mutant are what the definition after them would be with a
\* plausible slip in the code; PROJECT.json pairs each with the property that
\* notices it.

\* The end of an extent taken for its last unit.
SBufferMutant(top, bottom) == [Top |-> top, Bottom |-> bottom + 1]

\* SBuffer(a_nTop, a_nBottom)
SBuffer(top, bottom) == [Top |-> top, Bottom |-> bottom]

Buffer == [Top : Nat, Bottom : Nat]

\* list::insert before position i (push_back: before the end), and list::erase.
Insert(b, i, e) ==
  [j \in 1 .. (Len(b) + 1) |->
     IF j < i THEN b[j] ELSE IF j = i THEN e ELSE b[j - 1]]

Erase(b, i) ==
  [j \in 1 .. (Len(b) - 1) |-> IF j < i THEN b[j] ELSE b[j + 1]]

\* The first position of the list in the set S of positions.
First(S) == CHOOSE i \in S : \A j \in S : i <= j

-----------------------------------------------------------------------------
(* AddSpace *)

\* One end of [top, bottom) lies inside buffer e.
Overlap(e, top, bottom) ==
  \/ e.Top <= top /\ top < e.Bottom
  \/ e.Top < bottom /\ bottom <= e.Bottom

\* [top, bottom) continues buffer i and ends no later than buffer i + 1 begins.
Extends(b, i, top, bottom) ==
  /\ top = b[i].Bottom
  /\ i = Len(b) \/ bottom <= b[i + 1].Top

\* The buffers at which the loop of AddSpace returns.
AddStops(b, top, bottom) ==
  {i \in DOMAIN b : \/ Overlap(b[i], top, bottom)
                    \/ bottom <= b[i].Top
                    \/ Extends(b, i, top, bottom)}

\* The gap between two buffers is filled and they stay two.
AddedAtMutant(b, i, top, bottom) ==
  IF Overlap(b[i], top, bottom) THEN b
  ELSE IF bottom < b[i].Top THEN Insert(b, i, SBuffer(top, bottom))
  ELSE IF bottom = b[i].Top THEN [b EXCEPT ![i].Top = top]
  ELSE [b EXCEPT ![i].Bottom = bottom]

\* The list AddSpace leaves when it stops at buffer i.
AddedAt(b, i, top, bottom) ==
  IF Overlap(b[i], top, bottom) THEN b
  ELSE IF bottom < b[i].Top THEN Insert(b, i, SBuffer(top, bottom))
  ELSE IF bottom = b[i].Top THEN [b EXCEPT ![i].Top = top]
  ELSE IF i = Len(b) \/ bottom < b[i + 1].Top THEN [b EXCEPT ![i].Bottom = bottom]
  ELSE Erase([b EXCEPT ![i].Bottom = b[i + 1].Bottom], i + 1)

AddSpace(o, s) ==
  LET stops == AddStops(buffers, o, o + s) IN
  /\ UNCHANGED found
  /\ \/ /\ s = 0
        /\ ok' = TRUE
        /\ UNCHANGED buffers
     \/ /\ s # 0
        /\ stops = {}
        /\ buffers' = Insert(buffers, Len(buffers) + 1, SBuffer(o, o + s))
        /\ ok' = TRUE
     \/ /\ s # 0
        /\ stops # {}
        /\ buffers' = AddedAt(buffers, First(stops), o, o + s)
        /\ ok' = ~Overlap(buffers[First(stops)], o, o + s)

-----------------------------------------------------------------------------
(* SubSpace *)

\* The buffers that hold all of [top, bottom).
SubStops(b, top, bottom) ==
  {i \in DOMAIN b : b[i].Top <= top /\ bottom <= b[i].Bottom}

\* The list SubSpace leaves when it stops at buffer i.
SubtractedAt(b, i, top, bottom) ==
  IF top = b[i].Top /\ bottom = b[i].Bottom THEN Erase(b, i)
  ELSE IF top = b[i].Top THEN [b EXCEPT ![i].Top = bottom]
  ELSE IF bottom = b[i].Bottom THEN [b EXCEPT ![i].Bottom = top]
  ELSE Insert([b EXCEPT ![i].Bottom = top], i + 1, SBuffer(bottom, b[i].Bottom))

SubSpace(o, s) ==
  LET stops == SubStops(buffers, o, o + s) IN
  /\ UNCHANGED found
  /\ \/ /\ s = 0
        /\ ok' = TRUE
        /\ UNCHANGED buffers
     \/ /\ s # 0
        /\ stops = {}
        /\ ok' = FALSE
        /\ UNCHANGED buffers
     \/ /\ s # 0
        /\ stops # {}
        /\ buffers' = SubtractedAt(buffers, First(stops), o, o + s)
        /\ ok' = TRUE

-----------------------------------------------------------------------------

Clear ==
  /\ buffers' = <<>>
  /\ UNCHANGED <<ok, found>>

\* A buffer of exactly the size asked for passed over.
RoomyMutant(s) == {i \in DOMAIN buffers : buffers[i].Bottom - buffers[i].Top > s}

\* GetSpace does not change the list: the buffers with room for s units, and
\* the top of the first of them.
Roomy(s) == {i \in DOMAIN buffers : buffers[i].Bottom - buffers[i].Top >= s}

FirstFit(s) == IF Roomy(s) = {} THEN -1 ELSE buffers[First(Roomy(s))].Top

GetSpace(s) ==
  /\ found' = FirstFit(s)
  /\ UNCHANGED <<buffers, ok>>

-----------------------------------------------------------------------------

\* AddSpace tests only the two ends of the new extent, so it does not see a
\* buffer that lies strictly inside it.  Its caller owes it extents that
\* swallow no free buffer; RomFsRemap shows that remap() keeps this.
Swallows(o, s) ==
  \E i \in DOMAIN buffers : o < buffers[i].Top /\ buffers[i].Bottom < o + s

Init ==
  /\ buffers = <<>>
  /\ ok = TRUE
  /\ found = -1

Next ==
  \/ \E o \in 0 .. MaxOffset : \E s \in 0 .. (MaxOffset - o) :
       \/ ~Swallows(o, s) /\ AddSpace(o, s)
       \/ SubSpace(o, s)
  \/ Clear
  \/ \E s \in 0 .. MaxOffset : GetSpace(s)

Spec == Init /\ [][Next]_vars

-----------------------------------------------------------------------------
(* Properties *)

TypeOK ==
  /\ buffers \in Seq(Buffer)
  /\ \A i \in DOMAIN buffers : buffers[i].Bottom <= MaxOffset
  /\ ok \in BOOLEAN
  /\ found \in -1 .. MaxOffset

\* A list in address order, without an empty extent and without two neighbours
\* that touch.
Ordered(b) ==
  /\ \A i \in DOMAIN b : b[i].Top < b[i].Bottom
  /\ \A i, j \in DOMAIN b : i < j => b[i].Bottom < b[j].Top

\* The list is always of that form: AddSpace merges on both sides whatever the
\* order in which remap() releases files, and SubSpace splits without leaving an
\* empty rest.  Everything the loops of space.cpp rely on follows from this.
Coalesced == Ordered(buffers)

\* The units a list stands for.
Units(b) == UNION {b[i].Top .. (b[i].Bottom - 1) : i \in DOMAIN b}

\* The list implements the set of free units: no unit is lost, invented or
\* handed out twice by any sequence of calls, an overlapping release and an
\* impossible reservation are refused, and GetSpace finds room whenever there
\* is room, at the lowest address.
Free == INSTANCE FreeSet WITH units <- Units(buffers)

ImplementsFreeSet == Free!Spec
=============================================================================
