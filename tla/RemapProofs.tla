----------------------------- MODULE RemapProofs -----------------------------
(***************************************************************************)
(* The data of the files of a RomFS for every set of paths, sizes, starts  *)
(* and rules, every alignment and any number of images: as long as the     *)
(* tail of every reference could be cut, no call of CSpace is refused,     *)
(* what is free is used by no file, and files never share bytes.           *)
(***************************************************************************)
EXTENDS RomFsRemap, Sequences, TLAPS

\* The lemmas about lists do not mention the end of the space: any number will do.
SP == INSTANCE SpaceProofs WITH buffers <- space, found <- -1, MaxOffset <- 0

-----------------------------------------------------------------------------
(* Whole units of the alignment                                            *)

Aligned(n) == \E k \in Int : n = k * Alignment

LEMMA UnitFacts == Alignment \in Nat /\ Alignment > 0
  BY RemapAssumption

LEMMA AlignProperties ==
  ASSUME NEW n \in Nat
  PROVE  /\ Align(n) \in Nat /\ Align(n) >= n /\ Align(n) < n + Alignment
         /\ Aligned(Align(n))
<1> DEFINE a == Alignment
           k == (n + a - 1) \div a
<1>1. a \in Nat /\ a > 0
  BY UnitFacts
<1>2. n + a - 1 \in Nat
  BY <1>1
<1>3. k \in Nat
  BY <1>1, <1>2
<1>4. k * a <= n + a - 1 /\ n + a - 1 < k * a + a
  BY <1>1, <1>2
<1>5. k * a \in Nat
  BY <1>1, <1>3
<1>6. Align(n) = k * a
  BY DEF Align
<1> HIDE DEF a, k
<1>7. k * a >= n /\ k * a < n + a
  BY <1>1, <1>4, <1>5
<1>8. Aligned(k * a)
  BY <1>3 DEF Aligned, a
<1> QED
  BY <1>5, <1>6, <1>7, <1>8 DEF a

LEMMA AlignedSum ==
  ASSUME NEW m \in Int, NEW n \in Int, Aligned(m), Aligned(n)
  PROVE  Aligned(m + n) /\ Aligned(m - n)
<1>1. PICK j \in Int : m = j * Alignment
  BY DEF Aligned
<1>2. PICK k \in Int : n = k * Alignment
  BY DEF Aligned
<1>3. m + n = (j + k) * Alignment /\ m - n = (j - k) * Alignment
  BY <1>1, <1>2, UnitFacts
<1>4. j + k \in Int /\ j - k \in Int
  OBVIOUS
<1> QED
  BY <1>3, <1>4 DEF Aligned

\* Between two whole numbers of units there is room for whole units only.
LEMMA AlignedApart ==
  ASSUME NEW m \in Int, NEW n \in Int, Aligned(m), Aligned(n), m < n + Alignment
  PROVE  m <= n
<1>1. PICK j \in Int : m = j * Alignment
  BY DEF Aligned
<1>2. PICK k \in Int : n = k * Alignment
  BY DEF Aligned
<1>3. CASE j <= k
  BY <1>1, <1>2, <1>3, UnitFacts
<1>4. CASE j >= k + 1
  <2>1. j * Alignment >= (k + 1) * Alignment
    BY <1>4, UnitFacts
  <2>2. (k + 1) * Alignment = k * Alignment + Alignment
    BY UnitFacts
  <2> QED
    BY <1>1, <1>2, <2>1, <2>2, UnitFacts
<1> QED
  BY <1>3, <1>4

LEMMA AlignedZero == Aligned(0)
  BY UnitFacts DEF Aligned

LEMMA AlignedAlign ==
  ASSUME NEW n \in Nat, Aligned(n)
  PROVE  Align(n) = n
<1>1. Align(n) \in Nat /\ Align(n) >= n /\ Align(n) < n + Alignment /\ Aligned(Align(n))
  BY AlignProperties
<1>2. Align(n) <= n
  BY <1>1, AlignedApart
<1> QED
  BY <1>1, <1>2

LEMMA AlignMonotone ==
  ASSUME NEW m \in Nat, NEW n \in Nat, m <= n
  PROVE  Align(m) <= Align(n)
<1>1. /\ Align(m) \in Nat /\ Align(m) < m + Alignment /\ Aligned(Align(m))
      /\ Align(n) \in Nat /\ Align(n) >= n /\ Aligned(Align(n))
  BY AlignProperties
<1>2. Align(m) < Align(n) + Alignment
  BY <1>1, UnitFacts
<1> QED
  BY <1>1, <1>2, AlignedApart

LEMMA AlignSum ==
  ASSUME NEW m \in Nat, NEW n \in Nat, Aligned(m)
  PROVE  Align(m + n) = m + Align(n)
<1>1. /\ Align(n) \in Nat /\ Align(n) >= n /\ Align(n) < n + Alignment /\ Aligned(Align(n))
  BY AlignProperties
<1>2. /\ Align(m + n) \in Nat /\ Align(m + n) >= m + n /\ Align(m + n) < m + n + Alignment
      /\ Aligned(Align(m + n))
  BY AlignProperties
<1>3. m + Align(n) \in Int /\ Aligned(m + Align(n))
  <2> DEFINE a == Align(n)
  <2>1. a \in Int /\ Aligned(a)
    BY <1>1
  <2> HIDE DEF a
  <2>2. m + a \in Int /\ Aligned(m + a)
    BY <2>1, AlignedSum
  <2> QED
    BY <2>2 DEF a
<1>4. Align(m + n) <= m + Align(n)
  BY <1>1, <1>2, <1>3, UnitFacts, AlignedApart
<1>5. m + Align(n) <= Align(m + n)
  BY <1>1, <1>2, <1>3, UnitFacts, AlignedApart
<1> QED
  BY <1>1, <1>2, <1>4, <1>5

-----------------------------------------------------------------------------
(* The list of free extents, as a set of units                             *)

LEMMA SameList ==
  /\ Space!Buffer = SP!Buffer
  /\ \A b : Space!Units(b) = SP!Units(b) /\ (Space!Ordered(b) <=> SP!Ordered(b))
  BY DEF Space!Buffer, SP!Buffer, Space!Units, SP!Units, Space!Ordered, SP!Ordered

IsList(b) == b \in Seq(Space!Buffer) /\ Space!Ordered(b)

LEMMA AddedUnits ==
  ASSUME IsList(space), NEW o \in Nat, NEW s \in Nat,
         (o .. (o + s - 1)) \cap Space!Units(space) = {}, Space!AddSpace(o, s)
  PROVE  /\ IsList(space') /\ ok' = TRUE
         /\ Space!Units(space') = Space!Units(space) \cup (o .. (o + s - 1))
<1>1. CASE s = 0
  BY <1>1 DEF Space!AddSpace
<1>2. CASE s # 0
  <2>1. space \in Seq(SP!Buffer) /\ SP!Ordered(space)
    BY SameList DEF IsList
  <2>2. o + s \in Nat /\ o < o + s
    BY <1>2
  <2>3. (o .. (o + s - 1)) \cap SP!Units(space) = {}
    BY SameList
  <2>4. ASSUME NEW j \in DOMAIN space
        PROVE  ~(o < space[j].Top /\ space[j].Bottom < o + s)
    <3>1. /\ space[j].Top \in Nat /\ space[j].Bottom \in Nat
          /\ space[j].Top < space[j].Bottom
      BY <2>1, SP!ListType DEF SP!Ordered
    <3>2. space[j].Top \in SP!Units(space)
      BY <2>1, <3>1, SP!UnitsProperties
    <3> QED
      BY <2>2, <2>3, <3>1, <3>2
  <2>5. /\ space' = SP!Added(space, o, o + s)
        /\ ok' = SP!Accepted(space, o, o + s)
    BY <1>2 DEF Space!AddSpace, SP!Added, SP!Accepted, Space!AddStops, SP!AddStops,
       Space!Overlap, SP!Overlap, Space!Extends, SP!Extends, Space!First, SP!First,
       Space!AddedAt, SP!AddedAt, Space!Insert, SP!Insert, Space!Erase, SP!Erase,
       Space!SBuffer, SP!SBuffer
  <2>6. /\ SP!Accepted(space, o, o + s)
             => SP!IsUnionOf(SP!Added(space, o, o + s), space, o, o + s)
        /\ ~SP!Accepted(space, o, o + s)
             => SP!Extent(o, o + s) \cap SP!Units(space) # {}
    BY <2>1, <2>2, <2>4, SP!AddedCorrect
  <2>7. SP!Accepted(space, o, o + s)
    BY <2>3, <2>6 DEF SP!Extent
  <2> QED
    BY <2>5, <2>6, <2>7, SameList DEF SP!IsUnionOf, SP!Extent, IsList
<1> QED
  BY <1>1, <1>2

LEMMA SubtractedUnits ==
  ASSUME IsList(space), NEW o \in Nat, NEW s \in Nat, Space!SubSpace(o, s)
  PROVE  /\ IsList(space') /\ ok' \in BOOLEAN
         /\ ok' => Space!Units(space') = Space!Units(space) \ (o .. (o + s - 1))
         /\ ok' <=> (o .. (o + s - 1)) \subseteq Space!Units(space)
<1>1. CASE s = 0
  BY <1>1 DEF Space!SubSpace
<1>2. CASE s # 0
  <2>1. space \in Seq(SP!Buffer) /\ SP!Ordered(space)
    BY SameList DEF IsList
  <2>2. o + s \in Nat /\ o < o + s
    BY <1>2
  <2>3. SP!SubStops(space, o, o + s) = {} <=> ~(SP!Extent(o, o + s) \subseteq SP!Units(space))
    BY <2>1, <2>2, SP!RefusedIsUsed
  <2>4. Space!SubStops(space, o, o + s) = SP!SubStops(space, o, o + s)
    BY DEF Space!SubStops, SP!SubStops
  <2>5. CASE SP!SubStops(space, o, o + s) = {}
    <3>1. ok' = FALSE /\ space' = space
      BY <1>2, <2>4, <2>5 DEF Space!SubSpace
    <3>2. ~((o .. (o + s - 1)) \subseteq Space!Units(space))
      BY <2>3, <2>5, SameList DEF SP!Extent
    <3> QED
      BY <3>1, <3>2
  <2>6. CASE SP!SubStops(space, o, o + s) # {}
    <3> DEFINE i == SP!First(SP!SubStops(space, o, o + s))
    <3>1. space' = SP!SubtractedAt(space, i, o, o + s) /\ ok' = TRUE
      <4>1. /\ space' = Space!SubtractedAt(space, Space!First(SP!SubStops(space, o, o + s)), o, o + s)
            /\ ok' = TRUE
        BY <1>2, <2>4, <2>6 DEF Space!SubSpace
      <4>2. Space!First(SP!SubStops(space, o, o + s)) = i
        BY DEF Space!First, SP!First
      <4> HIDE DEF i
      <4>3. Space!SubtractedAt(space, i, o, o + s) = SP!SubtractedAt(space, i, o, o + s)
        BY DEF Space!SubtractedAt, SP!SubtractedAt, Space!Insert, SP!Insert, Space!Erase, SP!Erase,
           Space!SBuffer, SP!SBuffer
      <4> QED
        BY <4>1, <4>2, <4>3
    <3>2. i \in SP!SubStops(space, o, o + s)
      <4>1. SP!SubStops(space, o, o + s) \subseteq Nat
        BY <2>1, SP!ListType DEF SP!SubStops
      <4> QED
        BY <4>1, <2>6, SP!FirstProperties
    <3> HIDE DEF i
    <3>3. SP!IsDifferenceOf(space', space, o, o + s)
      BY <2>1, <2>2, <3>1, <3>2, SP!SubtractedCorrect
    <3> QED
      BY <2>3, <2>6, <3>1, <3>3, SameList DEF SP!IsDifferenceOf, SP!Extent, IsList
  <2> QED
    BY <2>5, <2>6
<1> QED
  BY <1>1, <1>2

LEMMA FirstFitProperties ==
  ASSUME IsList(space), NEW s \in Nat, ~(Space!FirstFit(s) < 0)
  PROVE  /\ Space!FirstFit(s) \in Space!Units(space)
         /\ \E i \in DOMAIN space : Space!FirstFit(s) = space[i].Top
         /\ (Space!FirstFit(s) .. (Space!FirstFit(s) + s - 1)) \subseteq Space!Units(space)
<1> DEFINE i == Space!First(Space!Roomy(s))
<1>1. space \in Seq(SP!Buffer) /\ SP!Ordered(space)
  BY SameList DEF IsList
<1>2. Space!Roomy(s) # {}
  BY DEF Space!FirstFit
<1>3. i \in Space!Roomy(s)
  <2>1. Space!Roomy(s) \subseteq Nat
    BY <1>1, SP!ListType DEF Space!Roomy
  <2>2. SP!First(Space!Roomy(s)) \in Space!Roomy(s)
    BY <1>2, <2>1, SP!FirstProperties
  <2> QED
    BY <2>2 DEF SP!First, Space!First
<1>4. Space!FirstFit(s) = space[i].Top
  BY <1>2 DEF Space!FirstFit
<1> HIDE DEF i
<1>5. i \in DOMAIN space /\ space[i].Bottom - space[i].Top >= s
  BY <1>3 DEF Space!Roomy
<1>6. /\ space[i].Top \in Nat /\ space[i].Bottom \in Nat
      /\ space[i].Top < space[i].Bottom
  BY <1>1, <1>5, SP!ListType DEF SP!Ordered
<1>7. space[i].Top .. (space[i].Bottom - 1) \subseteq SP!Units(space)
  BY <1>1, <1>5, SP!BufferUnits DEF SP!Extent
<1> QED
  BY <1>4, <1>5, <1>6, <1>7, SameList
-----------------------------------------------------------------------------
(* The inductive invariant                                                 *)

Entries == [FileOffset : Nat, FileSize : Nat]

\* An entry on whole units between two places.
Lies(e, begin, end) ==
  /\ Aligned(e.FileOffset)
  /\ begin <= e.FileOffset /\ e.FileOffset + e.FileSize <= end

\* What is promised of an image: the files have their rooms for themselves.
GoodImage(img) ==
  /\ img.Start \in Nat /\ img.End \in Nat /\ img.Start <= img.End /\ Aligned(img.Start)
  /\ img.File \in [DOMAIN img.File -> Entries]
  /\ \A p \in DOMAIN img.File : Lies(img.File[p], img.Start, img.End)
  /\ \A p, q \in DOMAIN img.File : p # q => Room(img.File[p]) \cap Room(img.File[q]) = {}

\* What a file of the reference had when the remap began.
Old(p) == Clipped(image.File[p], start)

\* The entry that a file with a place will have in the image.
At(p) == [FileOffset |-> start + files[p].FileOffset, FileSize |-> files[p].FileSize]

Free == Space!Units(space)

\* The free units are whole units of the alignment.
WholeUnits(F) == \A u \in Int : ~(u \in F <=> (u - 1) \in F) => Aligned(u)

\* The list, and the units between the metadata and the end.
FreeInv(end) ==
  /\ IsList(space)
  /\ WholeUnits(Free)
  /\ Free \subseteq start .. (end - 1)

\* The files with a place have it for themselves.
PlacedInv ==
  /\ \A p \in Placed : /\ files[p].FileOffset \in Nat
                       /\ Lies(At(p), start, start + size)
                       /\ Room(At(p)) \cap Free = {}
  /\ \A p, q \in Placed : p # q => Room(At(p)) \cap Room(At(q)) = {}

\* While the reference is visited, a file with a place is in its old one, and the
\* end of one of them is the size.
ScanInv ==
  /\ DOMAIN ref = DOMAIN image.File /\ ref \in [DOMAIN ref -> Entries]
  /\ todo \subseteq DOMAIN ref /\ moved \subseteq DOMAIN ref \cap DOMAIN files
  /\ moved \cap todo = {}
  /\ \A p \in todo : ref[p] = Old(p) /\ Room(Old(p)) \cap Free = {}
  /\ \A p \in Placed : /\ At(p).FileOffset = Old(p).FileOffset
                       /\ Align(files[p].FileSize) <= Align(Old(p).FileSize)
  /\ size = 0 \/ \E p \in Placed : size = files[p].FileOffset + files[p].FileSize
  /\ FreeInv(Align(image.End))

PlaceInv ==
  /\ todo = {} /\ queue \subseteq DOMAIN files
  /\ FreeInv(start + size)

\* An offset, or the level that stands in its place.
Offsets == Int \cup Levels \cup {NotIgnored}

RemapInv ==
  /\ start \in Starts /\ size \in Nat
  /\ DOMAIN files \subseteq Paths
  /\ files \in [DOMAIN files -> [FileSize : Nat, FileOffset : Offsets]]
  /\ PlacedInv

IInv ==
  /\ rules \in [Paths -> Levels \cup {NotIgnored}]
  /\ phase \in {"choose", "push", "scan", "place"}
  /\ trimmed =>
       /\ GoodImage(image)
       /\ ok = TRUE
       /\ phase \in {"choose", "push"} => space = <<>>
       /\ phase \in {"scan", "place"} => RemapInv
       /\ phase = "scan" => ScanInv
       /\ phase = "place" => PlaceInv

-----------------------------------------------------------------------------
(* What the definitions give                                               *)

LEMMA StartFacts ==
  ASSUME NEW s \in Starts
  PROVE  s \in Nat /\ Aligned(s)
<1>1. s \in Nat /\ s % Alignment = 0
  BY RemapAssumption
<1>2. s \div Alignment \in Int /\ s = (s \div Alignment) * Alignment
  BY <1>1, UnitFacts
<1> QED
  BY <1>1, <1>2 DEF Aligned

\* An extent of whole units keeps a set of whole units one, added or taken away.
LEMMA WholeUnitsKept ==
  ASSUME NEW F, NEW o \in Int, NEW e \in Int, o <= e,
         Aligned(o), Aligned(e), WholeUnits(F)
  PROVE  WholeUnits(F \cup (o .. (e - 1))) /\ WholeUnits(F \ (o .. (e - 1)))
<1>1. ASSUME NEW u \in Int, ~(u \in F <=> (u - 1) \in F)
      PROVE  Aligned(u)
  BY <1>1 DEF WholeUnits
<1>2. ASSUME NEW u \in Int, ~(u \in o .. (e - 1) <=> (u - 1) \in o .. (e - 1))
      PROVE  Aligned(u)
  <2>1. u = o \/ u = e
    BY <1>2
  <2> QED
    BY <2>1
<1> QED
  BY <1>1, <1>2 DEF WholeUnits

LEMMA BufferTops ==
  ASSUME IsList(space), WholeUnits(Free), NEW i \in DOMAIN space
  PROVE  space[i].Top \in Nat /\ Aligned(space[i].Top)
<1>1. space \in Seq(SP!Buffer) /\ SP!Ordered(space)
  BY SameList DEF IsList
<1>2. \A j \in DOMAIN space :
        /\ space[j].Top \in Nat /\ space[j].Bottom \in Nat /\ space[j].Top < space[j].Bottom
        /\ j \in Nat
  BY <1>1, SP!ListType DEF SP!Ordered
<1> DEFINE t == space[i].Top
<1>3. t \in Free
  BY <1>2 DEF Free, Space!Units
<1>4. (t - 1) \notin Free
  <2> SUFFICES ASSUME NEW j \in DOMAIN space, space[j].Top <= t - 1, t - 1 <= space[j].Bottom - 1
               PROVE  FALSE
    BY <1>2 DEF Free, Space!Units
  <2>1. j # i
    BY <1>2
  <2>2. j < i => space[j].Bottom < t
    BY <1>1 DEF SP!Ordered
  <2>3. i < j => space[i].Bottom < space[j].Top
    BY <1>1 DEF SP!Ordered
  <2> QED
    BY <1>2, <2>1, <2>2, <2>3
<1>5. t \in Int
  BY <1>2
<1> QED
  BY <1>2, <1>3, <1>4, <1>5 DEF WholeUnits

\* The room of an entry ends on a whole unit.
LEMMA RoomEnd ==
  ASSUME NEW e \in Entries, Aligned(e.FileOffset)
  PROVE  /\ e.FileOffset \in Nat /\ e.FileSize \in Nat
         /\ Align(e.FileSize) \in Nat /\ Align(e.FileSize) >= e.FileSize
         /\ e.FileOffset + Align(e.FileSize) = Align(e.FileOffset + e.FileSize)
         /\ Aligned(e.FileOffset + Align(e.FileSize))
<1>1. e.FileOffset \in Nat /\ e.FileSize \in Nat
  BY DEF Entries
<1>2. Align(e.FileSize) \in Nat /\ Align(e.FileSize) >= e.FileSize
  BY <1>1, AlignProperties
<1>3. Align(e.FileOffset + e.FileSize) = e.FileOffset + Align(e.FileSize)
  BY <1>1, AlignSum
<1> DEFINE n == e.FileOffset + e.FileSize
<1>4. n \in Nat
  BY <1>1
<1> HIDE DEF n
<1>5. Aligned(Align(n))
  BY <1>4, AlignProperties
<1> QED
  BY <1>1, <1>2, <1>3, <1>5 DEF n

LEMMA LiesFurther ==
  ASSUME NEW e \in Entries, NEW begin \in Nat, NEW m \in Nat, NEW n \in Nat, m <= n,
         Lies(e, begin, begin + m)
  PROVE  Lies(e, begin, begin + n)
<1>1. e.FileOffset \in Nat /\ e.FileSize \in Nat
  BY DEF Entries
<1> QED
  BY <1>1 DEF Lies

LEMMA ClippedProperties ==
  ASSUME NEW e \in Entries, NEW begin \in Nat, Aligned(begin), Aligned(e.FileOffset)
  PROVE  /\ Clipped(e, begin) \in Entries
         /\ Aligned(Clipped(e, begin).FileOffset)
         /\ begin <= Clipped(e, begin).FileOffset
         /\ Room(Clipped(e, begin)) = {u \in Room(e) : u >= begin}
         /\ \/ /\ Clipped(e, begin).FileSize = 0
               /\ Clipped(e, begin).FileOffset = begin
            \/ Clipped(e, begin).FileOffset + Clipped(e, begin).FileSize
                 = e.FileOffset + e.FileSize
<1>1. e.FileOffset \in Nat /\ e.FileSize \in Nat
  BY DEF Entries
<1>2. CASE e.FileOffset >= begin
  <2>1. Clipped(e, begin) = e
    BY <1>2 DEF Clipped
  <2>2. Align(e.FileSize) \in Nat
    BY <1>1, AlignProperties
  <2>3. Room(e) = {u \in Room(e) : u >= begin}
    BY <1>1, <1>2, <2>2 DEF Room
  <2> QED
    BY <1>1, <1>2, <2>1, <2>3
<1>3. CASE e.FileOffset < begin
  <2> DEFINE rest == e.FileSize - (begin - e.FileOffset)
             left == IF rest < 0 THEN 0 ELSE rest
             c    == [FileOffset |-> begin, FileSize |-> left]
             head == begin - e.FileOffset
  <2>1. rest \in Int /\ left \in Nat /\ head \in Nat /\ e.FileSize = head + rest
    BY <1>1, <1>3
  <2>2. Clipped(e, begin) = c
    BY <1>1, <1>3 DEF Clipped
  <2>3. c \in Entries /\ c.FileOffset = begin /\ c.FileSize = left
    BY <2>1 DEF Entries
  <2>4. (left = 0 \/ left = rest) /\ (rest >= 0 => left = rest) /\ (rest < 0 => left = 0)
    BY <2>1
  <2>5. Aligned(head)
    <3> DEFINE off == e.FileOffset
    <3>1. off \in Int /\ Aligned(off)
      BY <1>1
    <3> HIDE DEF off
    <3>2. Aligned(begin - off)
      BY <3>1, AlignedSum
    <3> QED
      BY <3>2 DEF off
  <2>6. Room(c) = begin .. (begin + Align(left) - 1)
    BY <2>3 DEF Room
  <2> HIDE DEF c, left, rest
  <2>7. CASE rest < 0
    <3>1. left = 0 /\ Align(0) = 0
      BY <2>4, <2>7, AlignedZero, AlignedAlign
    <3>2. Room(c) = {}
      BY <2>6, <3>1
    <3>3. e.FileSize < head
      BY <1>1, <2>1, <2>7
    <3>4. head = begin - e.FileOffset
      OBVIOUS
    <3> HIDE DEF head
    <3>5. Align(e.FileSize) <= Align(head) /\ Align(head) = head /\ Align(e.FileSize) \in Nat
      BY <1>1, <2>1, <2>5, <3>3, AlignMonotone, AlignedAlign, AlignProperties
    <3>6. \A u \in Room(e) : ~(u >= begin)
      BY <1>1, <2>1, <3>4, <3>5 DEF Room
    <3> QED
      BY <2>2, <2>3, <3>1, <3>2, <3>6
  <2>8. CASE rest >= 0
    <3>1. left = rest /\ rest \in Nat
      BY <2>1, <2>4, <2>8
    <3> HIDE DEF head
    <3>2. Align(head + rest) = head + Align(rest) /\ Align(rest) \in Nat
      BY <2>1, <2>5, <3>1, AlignSum, AlignProperties
    <3>3. Align(e.FileSize) = head + Align(left)
      BY <2>1, <3>1, <3>2
    <3>4. head = begin - e.FileOffset
      BY DEF head
    <3>5. Room(c) = {u \in Room(e) : u >= begin}
      <4> DEFINE off == e.FileOffset
                 r   == Align(left)
      <4>1. Room(e) = off .. (off + (head + r) - 1)
        BY <3>3 DEF Room
      <4>2. off \in Nat /\ r \in Nat /\ off < begin /\ head = begin - off
        BY <1>1, <1>3, <3>1, <3>2, <3>4
      <4>3. Room(c) = begin .. (begin + r - 1)
        BY <2>6
      <4> HIDE DEF off, r
      <4> QED
        BY <4>1, <4>2, <4>3
    <3>6. c.FileOffset + c.FileSize = e.FileOffset + e.FileSize
      BY <1>1, <2>1, <2>3, <3>1, <3>4
    <3> QED
      BY <2>2, <2>3, <3>5, <3>6
  <2> QED
    BY <2>1, <2>7, <2>8
<1> QED
  BY <1>1, <1>2, <1>3

\* The places of the reference's files behind the new metadata.
LEMMA OldPlaces ==
  ASSUME NEW img, GoodImage(img), NEW begin \in Starts
  PROVE  /\ \A p \in DOMAIN img.File :
              /\ Clipped(img.File[p], begin) \in Entries
              /\ Aligned(Clipped(img.File[p], begin).FileOffset)
              /\ begin <= Clipped(img.File[p], begin).FileOffset
              /\ Room(Clipped(img.File[p], begin)) \subseteq begin .. (Align(img.End) - 1)
              /\ Room(Clipped(img.File[p], begin)) = {u \in Room(img.File[p]) : u >= begin}
              /\ \/ /\ Clipped(img.File[p], begin).FileSize = 0
                    /\ Clipped(img.File[p], begin).FileOffset = begin
                 \/ Clipped(img.File[p], begin).FileOffset
                      + Clipped(img.File[p], begin).FileSize <= img.End
         /\ \A p, q \in DOMAIN img.File :
              p # q => Room(Clipped(img.File[p], begin)) \cap Room(Clipped(img.File[q], begin)) = {}
<1>1. begin \in Nat /\ Aligned(begin)
  BY StartFacts
<1>2. ASSUME NEW p \in DOMAIN img.File
      PROVE  /\ Clipped(img.File[p], begin) \in Entries
             /\ Aligned(Clipped(img.File[p], begin).FileOffset)
             /\ begin <= Clipped(img.File[p], begin).FileOffset
             /\ Room(Clipped(img.File[p], begin)) \subseteq begin .. (Align(img.End) - 1)
             /\ Room(Clipped(img.File[p], begin)) = {u \in Room(img.File[p]) : u >= begin}
             /\ \/ /\ Clipped(img.File[p], begin).FileSize = 0
                   /\ Clipped(img.File[p], begin).FileOffset = begin
                \/ Clipped(img.File[p], begin).FileOffset
                     + Clipped(img.File[p], begin).FileSize <= img.End
  <2> DEFINE e == img.File[p]
             c == Clipped(e, begin)
  <2>1. e \in Entries /\ Aligned(e.FileOffset) /\ e.FileOffset + e.FileSize <= img.End
        /\ img.End \in Nat
    BY DEF GoodImage, Lies
  <2> HIDE DEF e
  <2>2. /\ c \in Entries /\ Aligned(c.FileOffset) /\ begin <= c.FileOffset
        /\ Room(c) = {u \in Room(e) : u >= begin}
        /\ \/ c.FileSize = 0 /\ c.FileOffset = begin
           \/ c.FileOffset + c.FileSize = e.FileOffset + e.FileSize
    BY <1>1, <2>1, ClippedProperties
  <2> HIDE DEF c
  <2>3. Room(c) \subseteq begin .. (Align(img.End) - 1)
    <3>1. /\ c.FileOffset \in Nat /\ c.FileSize \in Nat /\ Align(c.FileSize) \in Nat
          /\ c.FileOffset + Align(c.FileSize) = Align(c.FileOffset + c.FileSize)
      BY <2>2, RoomEnd
    <3>2. CASE c.FileSize = 0
      <4>1. Align(c.FileSize) = 0
        BY <3>2, AlignedZero, AlignedAlign
      <4> QED
        BY <3>1, <4>1 DEF Room
    <3>3. CASE c.FileOffset + c.FileSize = e.FileOffset + e.FileSize
      <4> DEFINE n == c.FileOffset + c.FileSize
      <4>1. n \in Nat /\ n <= img.End
        BY <2>1, <3>1, <3>3
      <4> HIDE DEF n
      <4>2. Align(n) <= Align(img.End) /\ Align(img.End) \in Nat
        BY <2>1, <4>1, AlignMonotone, AlignProperties
      <4>3. c.FileOffset + Align(c.FileSize) <= Align(img.End)
        BY <3>1, <4>2 DEF n
      <4> QED
        BY <1>1, <2>2, <3>1, <4>2, <4>3 DEF Room
    <3> QED
      BY <2>2, <3>2, <3>3
  <2>4. \/ c.FileSize = 0 /\ c.FileOffset = begin
        \/ c.FileOffset + c.FileSize <= img.End
    BY <2>1, <2>2
  <2> QED
    BY <2>2, <2>3, <2>4 DEF e, c
<1>3. ASSUME NEW p \in DOMAIN img.File, NEW q \in DOMAIN img.File, p # q
      PROVE  Room(Clipped(img.File[p], begin)) \cap Room(Clipped(img.File[q], begin)) = {}
  <2>1. Room(img.File[p]) \cap Room(img.File[q]) = {}
    BY <1>3 DEF GoodImage
  <2>2. /\ Room(Clipped(img.File[p], begin)) \subseteq Room(img.File[p])
        /\ Room(Clipped(img.File[q], begin)) \subseteq Room(img.File[q])
    BY <1>2
  <2> QED
    BY <2>1, <2>2
<1> QED
  BY <1>2, <1>3

-----------------------------------------------------------------------------
(* The first image                                                         *)

LEMMA InitGives == Init => IInv
<1> SUFFICES ASSUME Init PROVE IInv
  OBVIOUS
<1>1. GoodImage(image)
  BY AlignedZero DEF Init, GoodImage
<1> QED
  BY <1>1 DEF Init, Idle, IInv

LEMMA CreatePlainKeeps ==
  ASSUME IInv, CreatePlain
  PROVE  IInv'
<1>1. PICK begin \in Starts : image' = [Start |-> begin, End |-> begin, File |-> <<>>]
  BY DEF CreatePlain
<1>2. begin \in Nat /\ Aligned(begin)
  BY StartFacts
<1>3. GoodImage(image')
  BY <1>1, <1>2 DEF GoodImage
<1>4. GoodImage(image)'
  BY <1>3
<1> QED
  BY <1>4 DEF IInv, CreatePlain, spaceVars

LEMMA PushFileEntryKeeps ==
  ASSUME IInv, PushFileEntry
  PROVE  IInv'
<1> DEFINE Push(p, e) ==
      image' = [Start |-> image.Start,
                End   |-> e.FileOffset + e.FileSize,
                File  |-> [q \in DOMAIN image.File \cup {p} |->
                             IF q = p THEN e ELSE image.File[q]]]
<1>1. PICK p \in Paths \ DOMAIN image.File, fileSize \in Sizes :
        Push(p, [FileOffset |-> image.Start + Align(image.End - image.Start),
                 FileSize   |-> fileSize])
  BY DEF PushFileEntry
<1> DEFINE e == [FileOffset |-> image.Start + Align(image.End - image.Start),
                 FileSize   |-> fileSize]
<1>2. ASSUME trimmed
      PROVE  GoodImage(image')
  <2>1. GoodImage(image)
    BY <1>2 DEF IInv
  <2>2. /\ image.Start \in Nat /\ image.End \in Nat
        /\ image.Start <= image.End /\ Aligned(image.Start)
        /\ image.End - image.Start \in Nat /\ fileSize \in Nat
    BY <2>1, RemapAssumption DEF GoodImage
  <2>3. e.FileOffset = Align(image.End) /\ e.FileSize = fileSize
    <3> DEFINE n == image.End - image.Start
    <3>1. n \in Nat /\ image.Start + n = image.End
      BY <2>2
    <3> HIDE DEF n
    <3>2. image.Start + Align(n) = Align(image.Start + n)
      BY <2>2, <3>1, AlignSum
    <3> QED
      BY <3>1, <3>2 DEF n
  <2>4. Align(image.End) \in Nat /\ Align(image.End) >= image.End /\ Aligned(Align(image.End))
    BY <2>2, AlignProperties
  <2>5. e \in Entries
    BY <2>2, <2>3, <2>4 DEF Entries
  <2>6. Push(p, e)
    BY <1>1
  <2> HIDE DEF e
  <2>7. /\ image'.Start = image.Start /\ image'.End = e.FileOffset + e.FileSize
        /\ image'.File = [q \in DOMAIN image.File \cup {p} |->
                             IF q = p THEN e ELSE image.File[q]]
    BY <2>6
  <2> HIDE DEF Push
  <2>8. /\ DOMAIN image'.File = DOMAIN image.File \cup {p}
        /\ image'.File[p] = e
        /\ \A q \in DOMAIN image.File : image'.File[q] = image.File[q]
    BY <2>7
  <2>9. image'.End \in Nat /\ image.End <= image'.End
    BY <2>2, <2>3, <2>4, <2>7
  <2>10. ASSUME NEW q \in DOMAIN image.File
         PROVE  /\ Lies(image.File[q], image.Start, image.End)
                /\ image.File[q] \in Entries
                /\ Room(image.File[q]) \cap Room(e) = {}
    <3> DEFINE f == image.File[q]
    <3>1. f \in Entries /\ Lies(f, image.Start, image.End)
      BY <2>1 DEF GoodImage
    <3> HIDE DEF f
    <3>2. /\ f.FileOffset \in Nat /\ f.FileSize \in Nat /\ Align(f.FileSize) \in Nat
          /\ f.FileOffset + Align(f.FileSize) = Align(f.FileOffset + f.FileSize)
      BY <3>1, RoomEnd DEF Lies
    <3> DEFINE n == f.FileOffset + f.FileSize
    <3>3. n \in Nat /\ n <= image.End
      BY <3>1, <3>2 DEF Lies
    <3> HIDE DEF n
    <3>4. Align(n) <= Align(image.End)
      BY <2>2, <3>3, AlignMonotone
    <3>5. f.FileOffset + Align(f.FileSize) <= e.FileOffset
      BY <2>3, <3>2, <3>4 DEF n
    <3>6. Align(e.FileSize) \in Nat
      BY <2>2, <2>3, AlignProperties
    <3>7. Room(f) \cap Room(e) = {}
      BY <2>3, <2>4, <3>2, <3>5, <3>6 DEF Room
    <3> QED
      BY <3>1, <3>7 DEF f
  <2>11. Lies(e, image.Start, image'.End)
    BY <2>2, <2>3, <2>4, <2>7, <2>9 DEF Lies
  <2>12. /\ DOMAIN image'.File = DOMAIN image'.File
         /\ image'.File \in [DOMAIN image'.File -> Entries]
    BY <2>5, <2>7, <2>10
  <2>13. \A q \in DOMAIN image'.File : Lies(image'.File[q], image'.Start, image'.End)
    <3>1. ASSUME NEW q \in DOMAIN image.File
          PROVE  Lies(image.File[q], image.Start, image'.End)
      BY <2>2, <2>9, <2>10 DEF Lies, Entries
    <3> QED
      BY <2>7, <2>8, <2>11, <3>1
  <2>14. \A q, r \in DOMAIN image'.File :
           q # r => Room(image'.File[q]) \cap Room(image'.File[r]) = {}
    <3>1. \A q, r \in DOMAIN image.File :
            q # r => Room(image.File[q]) \cap Room(image.File[r]) = {}
      BY <2>1 DEF GoodImage
    <3>2. \A q \in DOMAIN image.File : Room(image.File[q]) \cap Room(e) = {}
      BY <2>10
    <3> QED
      BY <2>8, <3>1, <3>2
  <2>15. image'.Start \in Nat /\ image'.Start <= image'.End /\ Aligned(image'.Start)
    BY <2>2, <2>7, <2>9
  <2> QED
    BY <2>9, <2>12, <2>13, <2>14, <2>15 DEF GoodImage
<1>3. trimmed' => GoodImage(image)'
  BY <1>2 DEF PushFileEntry
<1> QED
  BY <1>3 DEF IInv, PushFileEntry, spaceVars

LEMMA FinishPlainKeeps ==
  ASSUME IInv, FinishPlain
  PROVE  IInv'
<1>1. trimmed' => GoodImage(image)'
  BY DEF IInv, FinishPlain
<1> QED
  BY <1>1 DEF IInv, FinishPlain, spaceVars

-----------------------------------------------------------------------------
(* The reference is read                                                   *)

LEMMA BeginRemapKeeps ==
  ASSUME IInv, BeginRemap
  PROVE  IInv'
<1> SUFFICES ASSUME trimmed
             PROVE  GoodImage(image)' /\ ok' = TRUE /\ RemapInv' /\ ScanInv'
  BY DEF IInv, BeginRemap
<1>1. GoodImage(image) /\ image' = image /\ ok' = TRUE /\ phase' = "scan"
  BY DEF IInv, BeginRemap
<1>2. start' \in Starts /\ start' \in Nat /\ Aligned(start')
  <2>1. start' \in Starts
    BY DEF BeginRemap
  <2> QED
    BY <2>1, StartFacts
<1>3. /\ image.Start \in Nat /\ image.End \in Nat
      /\ image.Start <= image.End /\ Aligned(image.Start)
  BY <1>1 DEF GoodImage
<1>4. /\ \A p \in DOMAIN image.File :
           /\ Clipped(image.File[p], start') \in Entries
           /\ Room(Clipped(image.File[p], start')) \subseteq Room(image.File[p])
  BY <1>1, <1>2, OldPlaces
<1>5. Free' = IF start' < image.Start THEN start' .. (image.Start - 1) ELSE {}
  <2>1. CASE start' < image.Start
    <3>1. space' = <<[Top |-> start', Bottom |-> image.Start]>>
      BY <2>1 DEF BeginRemap, Space!SBuffer
    <3>2. DOMAIN space' = {1} /\ space'[1].Top = start' /\ space'[1].Bottom = image.Start
      BY <3>1
    <3>3. Free' = space'[1].Top .. (space'[1].Bottom - 1)
      BY <3>2, Zenon DEF Free, Space!Units
    <3> QED
      BY <2>1, <3>2, <3>3
  <2>2. CASE ~(start' < image.Start)
    <3>1. space' = <<>>
      BY <2>2 DEF BeginRemap
    <3> QED
      BY <2>2, <3>1 DEF Free, Space!Units
  <2> QED
    BY <2>1, <2>2
<1>6. IsList(space')
  <2>1. CASE start' < image.Start
    <3>1. space' = <<[Top |-> start', Bottom |-> image.Start]>>
      BY <2>1 DEF BeginRemap, Space!SBuffer
    <3> QED
      BY <1>2, <1>3, <2>1, <3>1 DEF IsList, Space!Buffer, Space!Ordered
  <2>2. CASE ~(start' < image.Start)
    <3>1. space' = <<>>
      BY <2>2 DEF BeginRemap
    <3> QED
      BY <3>1 DEF IsList, Space!Ordered
  <2> QED
    BY <2>1, <2>2
<1>7. WholeUnits(Free')
  BY <1>2, <1>3, <1>5 DEF WholeUnits
<1>8. Align(image.End) \in Nat /\ Align(image.End) >= image.End
  BY <1>3, AlignProperties
<1>9. Free' \subseteq start' .. (Align(image.End) - 1)
  BY <1>2, <1>3, <1>5, <1>8
<1>10. FreeInv(Align(image.End))'
  BY <1>1, <1>6, <1>7, <1>9 DEF FreeInv
<1>11. ref' = [p \in DOMAIN image.File |-> Clipped(image.File[p], start')]
       /\ todo' = DOMAIN image.File /\ moved' = {} /\ size' = 0
  BY DEF BeginRemap
<1>12. Placed' = {}
  BY <1>1, <1>11 DEF Placed
<1>13. ASSUME NEW p \in DOMAIN image.File
       PROVE  Room(Clipped(image.File[p], start')) \cap Free' = {}
  <2>1. Lies(image.File[p], image.Start, image.End) /\ image.File[p] \in Entries
    BY <1>1 DEF GoodImage
  <2>2. Room(image.File[p]) \cap (start' .. (image.Start - 1)) = {}
    BY <1>2, <1>3, <2>1 DEF Room, Lies, Entries
  <2>3. Room(image.File[p]) \cap Free' = {}
    BY <1>5, <2>2
  <2> QED
    BY <1>4, <2>3
<1>14. ScanInv'
  <2>1. DOMAIN ref' = DOMAIN image'.File /\ ref' \in [DOMAIN ref' -> Entries]
    BY <1>1, <1>4, <1>11
  <2>2. \A p \in todo' : ref'[p] = Clipped(image'.File[p], start')
                         /\ Room(Clipped(image'.File[p], start')) \cap Free' = {}
    BY <1>1, <1>11, <1>13
  <2>3. /\ todo' \subseteq DOMAIN ref' /\ moved' \subseteq DOMAIN ref' \cap DOMAIN files'
        /\ moved' \cap todo' = {}
    BY <1>1, <1>11, <2>1
  <2> QED
    BY <1>10, <1>11, <1>12, <2>1, <2>2, <2>3 DEF ScanInv, Old
<1>15. RemapInv'
  <2>1. PICK S \in SUBSET Paths :
          \E sizes \in [S -> Sizes] :
            files' = [p \in S |-> [FileSize |-> sizes[p], FileOffset |-> rules[p]]]
    BY DEF BeginRemap
  <2>2. rules \in [Paths -> Levels \cup {NotIgnored}]
    BY DEF IInv
  <2>3. PICK sizes \in [S -> Sizes] :
          files' = [p \in S |-> [FileSize |-> sizes[p], FileOffset |-> rules[p]]]
    BY <2>1
  <2>4. ASSUME NEW p \in S
        PROVE  sizes[p] \in Nat /\ rules[p] \in Offsets
    BY <2>2, RemapAssumption DEF Offsets
  <2>5. DOMAIN files' = S
        /\ files' \in [S -> [FileSize : Nat, FileOffset : Offsets]]
    BY <2>3, <2>4
  <2> QED
    BY <1>2, <1>11, <1>12, <2>5 DEF RemapInv, PlacedInv
<1> QED
  BY <1>1, <1>14, <1>15

\* The place of the file visited is nobody else's.
LEMMA VisitedPlace ==
  ASSUME GoodImage(image), RemapInv, ScanInv, phase = "scan", NEW p \in todo
  PROVE  /\ p \in DOMAIN image.File /\ ref[p] = Old(p)
         /\ Old(p) \in Entries /\ Aligned(Old(p).FileOffset)
         /\ start <= Old(p).FileOffset
         /\ Room(Old(p)) \subseteq start .. (Align(image.End) - 1)
         /\ Room(Old(p)) \cap Free = {}
         /\ \A q \in todo \ {p} : Room(Old(q)) \cap Room(Old(p)) = {}
         /\ \A q \in Placed : Room(At(q)) \cap Room(Old(p)) = {}
<1>1. start \in Starts
  BY DEF RemapInv
<1>2. p \in DOMAIN image.File /\ todo \subseteq DOMAIN image.File
  BY DEF ScanInv
<1>3. /\ Old(p) \in Entries /\ Aligned(Old(p).FileOffset)
      /\ start <= Old(p).FileOffset
      /\ Room(Old(p)) \subseteq start .. (Align(image.End) - 1)
  BY <1>1, <1>2, OldPlaces DEF Old
<1>4. \A q, r \in DOMAIN image.File : q # r => Room(Old(q)) \cap Room(Old(r)) = {}
  BY <1>1, OldPlaces DEF Old
<1>5. ref[p] = Old(p) /\ Room(Old(p)) \cap Free = {}
  BY DEF ScanInv
<1>6. ASSUME NEW q \in Placed
      PROVE  Room(At(q)) \cap Room(Old(p)) = {}
  <2>1. q \in DOMAIN image.File /\ q # p
    BY DEF Placed, ScanInv
  <2>2. /\ At(q).FileOffset = Old(q).FileOffset
        /\ Align(files[q].FileSize) <= Align(Old(q).FileSize)
        /\ files[q].FileSize \in Nat
    BY DEF ScanInv, RemapInv, Placed
  <2>3. Old(q) \in Entries
    BY <1>1, <2>1, OldPlaces DEF Old
  <2>4. Old(q).FileOffset \in Nat /\ Old(q).FileSize \in Nat
    BY <2>3 DEF Entries
  <2>5. Align(files[q].FileSize) \in Nat /\ Align(Old(q).FileSize) \in Nat
    BY <2>2, <2>4, AlignProperties
  <2>6. At(q).FileSize = files[q].FileSize
    BY DEF At
  <2>7. Room(At(q)) \subseteq Room(Old(q))
    <3> DEFINE a == At(q)
               c == Old(q)
    <3>1. a.FileOffset = c.FileOffset /\ c.FileOffset \in Nat
          /\ Align(a.FileSize) \in Nat /\ Align(c.FileSize) \in Nat
          /\ Align(a.FileSize) <= Align(c.FileSize)
      BY <2>2, <2>4, <2>5, <2>6
    <3> HIDE DEF a, c
    <3>2. Room(a) \subseteq Room(c)
      BY <3>1 DEF Room
    <3> QED
      BY <3>2 DEF a, c
  <2> QED
    BY <1>2, <1>4, <2>1, <2>7
<1> QED
  BY <1>2, <1>3, <1>4, <1>5, <1>6

\* Units of that place are accepted as free and are no other file's.
LEMMA PlaceFreed ==
  ASSUME GoodImage(image), RemapInv, ScanInv, phase = "scan", NEW p \in todo,
         NEW o \in Nat, NEW s \in Nat, Aligned(o), Aligned(o + s),
         o .. (o + s - 1) \subseteq Room(Old(p)),
         Space!AddSpace(o, s), image' = image, start' = start
  PROVE  /\ ok' = TRUE
         /\ FreeInv(Align(image.End))'
         /\ Free' = Free \cup (o .. (o + s - 1))
         /\ \A q \in todo \ {p} : Room(Old(q)) \cap Free' = {}
         /\ \A q \in Placed : Room(At(q)) \cap Free' = {}
<1>1. /\ Room(Old(p)) \subseteq start .. (Align(image.End) - 1)
      /\ Room(Old(p)) \cap Free = {}
      /\ \A q \in todo \ {p} : Room(Old(q)) \cap Room(Old(p)) = {}
      /\ \A q \in Placed : Room(At(q)) \cap Room(Old(p)) = {}
  BY VisitedPlace
<1>2. IsList(space) /\ WholeUnits(Free) /\ Free \subseteq start .. (Align(image.End) - 1)
  BY DEF ScanInv, FreeInv
<1>3. (o .. (o + s - 1)) \cap Space!Units(space) = {}
  BY <1>1 DEF Free
<1>4. /\ IsList(space') /\ ok' = TRUE
      /\ Space!Units(space') = Space!Units(space) \cup (o .. (o + s - 1))
  BY <1>2, <1>3, AddedUnits
<1>5. Free' = Free \cup (o .. (o + s - 1))
  BY <1>4 DEF Free
<1>6. WholeUnits(Free')
  <2> DEFINE e == o + s
  <2>1. e \in Int /\ o <= e /\ Aligned(e) /\ o \in Int
    OBVIOUS
  <2>2. Free' = Free \cup (o .. (e - 1))
    BY <1>5
  <2> HIDE DEF e
  <2>3. WholeUnits(Free \cup (o .. (e - 1)))
    BY <1>2, <2>1, WholeUnitsKept
  <2> QED
    BY <2>2, <2>3
<1>7. Free' \subseteq start .. (Align(image.End) - 1)
  BY <1>1, <1>2, <1>5
<1>8. FreeInv(Align(image.End))'
  BY <1>4, <1>6, <1>7 DEF FreeInv
<1>9. \A q \in todo \ {p} : Room(Old(q)) \cap Free = {}
  BY DEF ScanInv
<1>10. \A q \in Placed : Room(At(q)) \cap Free = {}
  BY DEF RemapInv, PlacedInv
<1> QED
  BY <1>1, <1>4, <1>5, <1>8, <1>9, <1>10

\* The units of the place of p are free now, or p has them still; all others have
\* their place as before.
HandedOn(p) ==
  /\ Free \subseteq Free'
  /\ \A q \in Placed : q \in Placed' /\ At(q)' = At(q)
  /\ \A u \in Room(Old(p)) : u \in Free' \/ (p \in Placed' /\ u \in Room(At(p)'))

LEMMA ReleaseKeeps ==
  ASSUME GoodImage(image), RemapInv, ScanInv, phase = "scan", phase' = "scan",
         NEW p \in todo, MustMove(p), Release(p), todo' = todo \ {p},
         image' = image, start' = start
  PROVE  ok' = TRUE /\ RemapInv' /\ ScanInv' /\ HandedOn(p)
<1>1. /\ p \in DOMAIN image.File /\ ref[p] = Old(p)
      /\ Old(p) \in Entries /\ Aligned(Old(p).FileOffset)
  BY VisitedPlace
<1> DEFINE o == ref[p].FileOffset
           s == Align(ref[p].FileSize)
<1>2. /\ o \in Nat /\ s \in Nat /\ Aligned(o) /\ Aligned(o + s)
      /\ Room(Old(p)) = o .. (o + s - 1)
  BY <1>1, RoomEnd DEF Room
<1>3. Space!AddSpace(o, s)
  BY DEF Release
<1> HIDE DEF o, s
<1>4. /\ ok' = TRUE
      /\ FreeInv(Align(image.End))'
      /\ Free' = Free \cup (o .. (o + s - 1))
      /\ \A q \in todo \ {p} : Room(Old(q)) \cap Free' = {}
      /\ \A q \in Placed : Room(At(q)) \cap Free' = {}
  BY <1>2, <1>3, PlaceFreed
<1>5. /\ files' = files /\ size' = size /\ ref' = [ref EXCEPT ![p].FileSize = 0]
      /\ moved' = IF p \in DOMAIN files THEN moved \cup {p} ELSE moved
  BY DEF Release
<1>6. /\ DOMAIN ref = DOMAIN image.File /\ ref \in [DOMAIN ref -> Entries]
      /\ todo \subseteq DOMAIN ref /\ moved \subseteq DOMAIN ref \cap DOMAIN files
      /\ moved \cap todo = {}
  BY DEF ScanInv
<1>7. Placed' = Placed
  BY <1>5, <1>6 DEF Placed
<1>8. \A q : At(q)' = At(q)
  BY <1>5 DEF At
<1>9. \A q : Old(q)' = Old(q)
  BY DEF Old
<1>10. RemapInv'
  <2>1. \A q \in Placed' : /\ files'[q].FileOffset \in Nat
                           /\ Lies(At(q)', start', start' + size')
                           /\ Room(At(q)') \cap Free' = {}
    BY <1>4, <1>5, <1>7, <1>8 DEF RemapInv, PlacedInv
  <2>2. \A q, r \in Placed' : q # r => Room(At(q)') \cap Room(At(r)') = {}
    BY <1>7, <1>8 DEF RemapInv, PlacedInv
  <2> QED
    BY <1>5, <2>1, <2>2 DEF RemapInv, PlacedInv
<1>11. ScanInv'
  <2>1. DOMAIN ref' = DOMAIN image'.File /\ ref' \in [DOMAIN ref' -> Entries]
    BY <1>5, <1>6 DEF Entries
  <2>2. /\ todo' \subseteq DOMAIN ref' /\ moved' \subseteq DOMAIN ref' \cap DOMAIN files'
        /\ moved' \cap todo' = {}
    BY <1>5, <1>6, <2>1
  <2>3. \A q \in todo' : ref'[q] = Old(q)' /\ Room(Old(q)') \cap Free' = {}
    <3>1. ASSUME NEW q \in todo \ {p}
          PROVE  ref'[q] = Old(q)
      BY <1>5, <1>6 DEF ScanInv
    <3> QED
      BY <1>4, <1>9, <3>1
  <2>4. \A q \in Placed' : /\ At(q)'.FileOffset = Old(q)'.FileOffset
                           /\ Align(files'[q].FileSize) <= Align(Old(q)'.FileSize)
    BY <1>5, <1>7, <1>8, <1>9 DEF ScanInv
  <2>5. size' = 0 \/ \E q \in Placed' : size' = files'[q].FileOffset + files'[q].FileSize
    BY <1>5, <1>7 DEF ScanInv
  <2> QED
    BY <1>4, <2>1, <2>2, <2>3, <2>4, <2>5 DEF ScanInv
<1>12. HandedOn(p)
  BY <1>2, <1>4, <1>7, <1>8 DEF HandedOn
<1> QED
  BY <1>4, <1>10, <1>11, <1>12

LEMMA KeepKeeps ==
  ASSUME GoodImage(image), RemapInv, ScanInv, phase = "scan", phase' = "scan",
         NEW p \in todo, ~MustMove(p), Keep(p), todo' = todo \ {p},
         image' = image, start' = start
  PROVE  ok' = TRUE /\ RemapInv' /\ ScanInv' /\ HandedOn(p)
<1> DEFINE old   == ref[p].FileOffset
           was   == Align(ref[p].FileSize)
           fsize == files[p].FileSize
           now   == Align(fsize)
           keep  == old .. (old + now - 1)
<1>1. /\ p \in DOMAIN image.File /\ ref[p] = Old(p)
      /\ Old(p) \in Entries /\ Aligned(Old(p).FileOffset) /\ start <= Old(p).FileOffset
      /\ Room(Old(p)) \cap Free = {}
      /\ \A q \in Placed : Room(At(q)) \cap Room(Old(p)) = {}
  BY VisitedPlace
<1>2. p \in DOMAIN files /\ now <= was
  <2>1. p \in DOMAIN files /\ ~(now > was)
    BY DEF MustMove
  <2>2. fsize \in Nat /\ ref[p].FileSize \in Nat
    BY <1>1, <2>1 DEF RemapInv, Entries
  <2>3. now \in Nat /\ was \in Nat
    BY <2>2, AlignProperties
  <2> QED
    BY <2>1, <2>3
<1>3. /\ fsize \in Nat /\ old \in Nat /\ was \in Nat /\ now \in Nat /\ fsize <= now
      /\ start \in Nat /\ Aligned(start) /\ size \in Nat /\ start <= old
      /\ Aligned(old) /\ Aligned(old + was) /\ Room(Old(p)) = old .. (old + was - 1)
  <2>1. fsize \in Nat /\ start \in Starts /\ size \in Nat
    BY <1>2 DEF RemapInv
  <2>2. start \in Nat /\ Aligned(start) /\ now \in Nat /\ fsize <= now
    BY <2>1, StartFacts, AlignProperties
  <2>3. /\ old \in Nat /\ was \in Nat /\ Aligned(old) /\ Aligned(old + was)
        /\ Room(Old(p)) = old .. (old + was - 1)
    BY <1>1, RoomEnd DEF Room
  <2> QED
    BY <1>1, <2>1, <2>2, <2>3
<1>4. Align(old + fsize) = old + now /\ Aligned(old + now)
  <2>1. Align(old + fsize) = old + now
    <3> HIDE DEF old, fsize
    <3> QED
      BY <1>3, AlignSum DEF now
  <2> DEFINE n == old + fsize
  <2>2. n \in Nat
    BY <1>3
  <2> HIDE DEF n
  <2>3. Aligned(Align(n))
    BY <2>2, AlignProperties
  <2> QED
    BY <2>1, <2>3 DEF n
<1>5. /\ files' = [files EXCEPT ![p].FileOffset = old - start]
      /\ size' = IF old - start + fsize > size THEN old - start + fsize ELSE size
      /\ ref' = ref /\ moved' = moved
      /\ Space!AddSpace(old + now, was - now)
  BY <1>4 DEF Keep
<1> HIDE DEF old, was, fsize, now
<1> DEFINE o == old + now
           s == was - now
<1>6. /\ o \in Nat /\ s \in Nat /\ Aligned(o) /\ Aligned(o + s)
      /\ o .. (o + s - 1) \subseteq Room(Old(p))
  BY <1>2, <1>3, <1>4
<1>7. Space!AddSpace(o, s)
  BY <1>5
<1> HIDE DEF o, s
<1>8. /\ ok' = TRUE
      /\ FreeInv(Align(image.End))'
      /\ Free' = Free \cup (o .. (o + s - 1))
      /\ \A q \in todo \ {p} : Room(Old(q)) \cap Free' = {}
      /\ \A q \in Placed : Room(At(q)) \cap Free' = {}
  BY <1>6, <1>7, PlaceFreed
<1>9. /\ DOMAIN ref = DOMAIN image.File /\ ref \in [DOMAIN ref -> Entries]
      /\ todo \subseteq DOMAIN ref /\ moved \subseteq DOMAIN ref \cap DOMAIN files
      /\ moved \cap todo = {}
      /\ files \in [DOMAIN files -> [FileSize : Nat, FileOffset : Offsets]]
  BY DEF ScanInv, RemapInv
<1>10. /\ DOMAIN files' = DOMAIN files
       /\ files'[p].FileOffset = old - start /\ files'[p].FileSize = fsize
       /\ \A q \in DOMAIN files \ {p} : files'[q] = files[q]
       /\ files' \in [DOMAIN files' -> [FileSize : Nat, FileOffset : Offsets]]
  <2>1. old - start \in Offsets
    BY <1>3 DEF Offsets
  <2> QED
    BY <1>2, <1>5, <1>9, <2>1 DEF fsize
<1>11. Placed' = Placed \cup {p} /\ p \notin Placed /\ Placed \subseteq DOMAIN files
  BY <1>2, <1>5, <1>9, <1>10 DEF Placed
<1>12. \A q \in Placed : At(q)' = At(q) /\ files'[q] = files[q]
  BY <1>10, <1>11 DEF At
<1>13. At(p)'.FileOffset = old /\ At(p)'.FileSize = fsize
  BY <1>3, <1>10 DEF At
<1>14. \A q : Old(q)' = Old(q)
  BY DEF Old
<1>15. size' \in Nat /\ size <= size' /\ old - start + fsize <= size'
  BY <1>3, <1>5
<1>16. Room(At(p)') = keep /\ keep \subseteq Room(Old(p)) /\ keep \cap Free' = {}
  <2>1. Room(At(p)') = keep
    BY <1>13 DEF Room, now
  <2>2. keep \subseteq Room(Old(p))
    BY <1>2, <1>3
  <2>3. keep \cap (o .. (o + s - 1)) = {}
    BY <1>2, <1>3 DEF o, s
  <2> QED
    BY <1>1, <1>8, <2>1, <2>2, <2>3
<1>17. RemapInv'
  <2>1. ASSUME NEW q \in Placed
        PROVE  /\ files'[q].FileOffset \in Nat
               /\ Lies(At(q)', start', start' + size')
               /\ Room(At(q)') \cap Free' = {}
    <3>1. files[q].FileOffset \in Nat /\ Lies(At(q), start, start + size)
      BY DEF RemapInv, PlacedInv
    <3>2. files[q].FileSize \in Nat
      BY <1>9, <1>11
    <3>3. start \in Nat /\ size \in Nat /\ size' \in Nat /\ size <= size'
      BY <1>3, <1>15
    <3>4. At(q) \in Entries
      BY <3>1, <3>2, <3>3 DEF At, Entries
    <3>5. Lies(At(q), start, start + size')
      BY <3>1, <3>3, <3>4, LiesFurther
    <3> QED
      BY <1>8, <1>12, <3>1, <3>5
  <2>2. /\ files'[p].FileOffset \in Nat
        /\ Lies(At(p)', start', start' + size')
        /\ Room(At(p)') \cap Free' = {}
    <3>1. files'[p].FileOffset \in Nat
      BY <1>3, <1>10
    <3>2. old + fsize <= start + size'
      <4>1. /\ old \in Nat /\ fsize \in Nat /\ start \in Nat /\ size' \in Nat
            /\ old - start + fsize <= size'
        BY <1>3, <1>15
      <4>2. \A a, b, c, d \in Nat : a - c + b <= d => a + b <= c + d
        OBVIOUS
      <4> HIDE DEF keep
      <4> QED
        BY <4>1, <4>2
    <3>3. Lies(At(p)', start', start' + size')
      BY <1>3, <1>13, <3>2 DEF Lies
    <3> QED
      BY <1>16, <3>1, <3>3
  <2>3. ASSUME NEW q \in Placed
        PROVE  Room(At(q)') \cap Room(At(p)') = {}
    BY <1>1, <1>12, <1>16
  <2>4. \A q, r \in Placed : q # r => Room(At(q)') \cap Room(At(r)') = {}
    BY <1>12 DEF RemapInv, PlacedInv
  <2>5. \A q, r \in Placed' : q # r => Room(At(q)') \cap Room(At(r)') = {}
    BY <1>11, <2>3, <2>4
  <2>6. PlacedInv'
    BY <1>11, <2>1, <2>2, <2>5 DEF PlacedInv
  <2>7. start' \in Starts /\ DOMAIN files' \subseteq Paths
    BY <1>10 DEF RemapInv
  <2> QED
    BY <1>10, <1>15, <2>6, <2>7 DEF RemapInv
<1>18. ScanInv'
  <2>1. DOMAIN ref' = DOMAIN image'.File /\ ref' \in [DOMAIN ref' -> Entries]
    BY <1>5, <1>9
  <2>2. /\ todo' \subseteq DOMAIN ref' /\ moved' \subseteq DOMAIN ref' \cap DOMAIN files'
        /\ moved' \cap todo' = {}
    BY <1>5, <1>9, <1>10
  <2>3. \A q \in todo' : ref'[q] = Old(q)' /\ Room(Old(q)') \cap Free' = {}
    BY <1>5, <1>8, <1>14 DEF ScanInv
  <2>4. ASSUME NEW q \in Placed'
        PROVE  /\ At(q)'.FileOffset = Old(q)'.FileOffset
               /\ Align(files'[q].FileSize) <= Align(Old(q)'.FileSize)
    <3>1. CASE q \in Placed
      BY <1>12, <1>14, <3>1 DEF ScanInv
    <3>2. CASE q = p
      BY <1>1, <1>2, <1>10, <1>13, <1>14, <3>2 DEF old, was, now
    <3> QED
      BY <1>11, <3>1, <3>2
  <2>5. size' = 0 \/ \E q \in Placed' : size' = files'[q].FileOffset + files'[q].FileSize
    <3>1. CASE size' = size
      <4>1. size = 0 \/ \E q \in Placed : size = files[q].FileOffset + files[q].FileSize
        BY DEF ScanInv
      <4> QED
        BY <1>11, <1>12, <3>1, <4>1
    <3>2. CASE size' = old - start + fsize
      BY <1>10, <1>11, <3>2
    <3> QED
      BY <1>5, <3>1, <3>2
  <2> QED
    BY <1>8, <2>1, <2>2, <2>3, <2>4, <2>5 DEF ScanInv
<1>19. HandedOn(p)
  <2>1. \A u \in Room(Old(p)) : u \in keep \/ u \in o .. (o + s - 1)
    BY <1>2, <1>3 DEF o, s
  <2> QED
    BY <1>8, <1>11, <1>12, <1>16, <2>1 DEF HandedOn
<1> QED
  BY <1>8, <1>17, <1>18, <1>19

LEMMA ScanReferenceKeeps ==
  ASSUME IInv, ScanReference, trimmed
  PROVE  ok' = TRUE /\ IInv'
<1>1. GoodImage(image) /\ RemapInv /\ ScanInv /\ phase = "scan"
  BY DEF IInv, ScanReference
<1>2. PICK p \in todo : /\ IF MustMove(p) THEN Release(p) ELSE Keep(p)
                        /\ todo' = todo \ {p}
  BY DEF ScanReference
<1>3. phase' = "scan" /\ image' = image /\ start' = start /\ rules' = rules
  BY <1>1 DEF ScanReference
<1>4. ok' = TRUE /\ RemapInv' /\ ScanInv'
  <2>1. CASE MustMove(p)
    BY <1>1, <1>2, <1>3, <2>1, ReleaseKeeps
  <2>2. CASE ~MustMove(p)
    BY <1>1, <1>2, <1>3, <2>2, KeepKeeps
  <2> QED
    BY <2>1, <2>2
<1>5. GoodImage(image)'
  BY <1>1, <1>3
<1> QED
  BY <1>3, <1>4, <1>5 DEF IInv

\* The last file that kept its place ends where its old place did, or before.
LEMMA LastKept ==
  ASSUME GoodImage(image), RemapInv, ScanInv, phase = "scan", size # 0
  PROVE  /\ \E p \in Placed : Room(At(p)) = At(p).FileOffset .. (Align(start + size) - 1)
                              /\ At(p).FileOffset <= start + size
         /\ start + size \in Nat
         /\ Align(start + size) \in Nat /\ Align(start + size) >= start + size
         /\ Aligned(Align(start + size))
         /\ Align(start + size) <= Align(image.End)
<1>1. PICK p \in Placed : size = files[p].FileOffset + files[p].FileSize
  BY DEF ScanInv
<1>2. start \in Starts /\ start \in Nat /\ size \in Nat /\ Aligned(start)
  <2>1. start \in Starts /\ size \in Nat
    BY DEF RemapInv
  <2> QED
    BY <2>1, StartFacts
<1> DEFINE a == At(p)
           c == Old(p)
<1>3. /\ files[p].FileOffset \in Nat /\ Lies(a, start, start + size)
      /\ files[p].FileSize \in Nat
  BY DEF RemapInv, PlacedInv, Placed
<1>4. /\ a \in Entries /\ Aligned(a.FileOffset)
      /\ a.FileOffset = start + files[p].FileOffset /\ a.FileSize = files[p].FileSize
  BY <1>2, <1>3 DEF At, Entries, Lies
<1>5. a.FileOffset + a.FileSize = start + size
  BY <1>1, <1>2, <1>3, <1>4
<1>6. a.FileOffset = c.FileOffset /\ Align(a.FileSize) <= Align(c.FileSize)
  BY <1>4 DEF ScanInv
<1>7. /\ c \in Entries /\ Aligned(c.FileOffset)
      /\ \/ c.FileSize = 0 /\ c.FileOffset = start
         \/ c.FileOffset + c.FileSize <= image.End
  <2>1. p \in DOMAIN image.File
    BY DEF Placed, ScanInv, PlaceInv, RemapInv
  <2> QED
    BY <1>2, <2>1, OldPlaces DEF Old
<1>8. image.End \in Nat
  BY DEF GoodImage
<1> HIDE DEF a, c
<1>9. /\ a.FileOffset \in Nat /\ a.FileSize \in Nat
      /\ Align(a.FileSize) \in Nat /\ Align(a.FileSize) >= a.FileSize
      /\ a.FileOffset + Align(a.FileSize) = Align(a.FileOffset + a.FileSize)
  BY <1>4, RoomEnd
<1>10. /\ c.FileOffset \in Nat /\ c.FileSize \in Nat /\ Align(c.FileSize) \in Nat
       /\ c.FileOffset + Align(c.FileSize) = Align(c.FileOffset + c.FileSize)
  BY <1>7, RoomEnd
<1>11. a.FileOffset + Align(a.FileSize) = Align(start + size)
  BY <1>5, <1>9
<1>12. Align(start + size) <= Align(image.End)
  <2>1. CASE c.FileSize = 0 /\ c.FileOffset = start
    <3>1. Align(0) = 0
      BY AlignedZero, AlignedAlign
    <3>2. Align(a.FileSize) = 0
      BY <1>6, <1>9, <2>1, <3>1
    <3>3. size = 0
      BY <1>2, <1>5, <1>6, <1>9, <2>1, <3>2
    <3> QED
      BY <3>3
  <2>2. CASE c.FileOffset + c.FileSize <= image.End
    <3> DEFINE n == c.FileOffset + c.FileSize
    <3>1. n \in Nat /\ n <= image.End
      BY <1>10, <2>2
    <3> HIDE DEF n
    <3>2. Align(n) <= Align(image.End)
      BY <1>8, <3>1, AlignMonotone
    <3>3. c.FileOffset + Align(c.FileSize) <= Align(image.End)
      BY <1>10, <3>2 DEF n
    <3>4. Align(image.End) \in Nat
      BY <1>8, AlignProperties
    <3> QED
      BY <1>6, <1>9, <1>10, <1>11, <3>3, <3>4
  <2> QED
    BY <1>7, <2>1, <2>2
<1>13. /\ start + size \in Nat
       /\ Align(start + size) \in Nat /\ Align(start + size) >= start + size
       /\ Aligned(Align(start + size))
  <2> DEFINE n == start + size
  <2>1. n \in Nat
    BY <1>2
  <2> HIDE DEF n
  <2>2. Align(n) \in Nat /\ Align(n) >= n /\ Aligned(Align(n))
    BY <2>1, AlignProperties
  <2> QED
    BY <2>1, <2>2 DEF n
<1>14. Room(a) = a.FileOffset .. (Align(start + size) - 1) /\ a.FileOffset <= start + size
  BY <1>5, <1>9, <1>11, <1>13 DEF Room
<1> QED
  BY <1>12, <1>13, <1>14 DEF a

LEMMA TrimTailKeeps ==
  ASSUME IInv, TrimTail
  PROVE  IInv'
<1> SUFFICES ASSUME trimmed'
             PROVE  GoodImage(image)' /\ ok' = TRUE /\ RemapInv' /\ PlaceInv'
  BY DEF IInv, TrimTail
<1>1. trimmed
  BY DEF TrimTail
<1>2. GoodImage(image) /\ RemapInv /\ ScanInv /\ phase = "scan" /\ ok = TRUE
  BY <1>1 DEF IInv, TrimTail
<1>3. /\ phase' = "place" /\ image' = image /\ start' = start /\ files' = files
      /\ size' = size /\ todo' = todo /\ todo = {}
      /\ queue' = moved \cup (DOMAIN files \ DOMAIN ref)
  BY DEF TrimTail
<1>4. start \in Nat /\ size \in Nat
  BY <1>2, StartFacts DEF RemapInv
<1>5. IsList(space) /\ WholeUnits(Free) /\ Free \subseteq start .. (Align(image.End) - 1)
  BY <1>2 DEF ScanInv, FreeInv
<1>6. /\ ok' = TRUE /\ IsList(space') /\ WholeUnits(Free')
      /\ Free' \subseteq Free /\ Free' \subseteq start .. (start + size - 1)
  <2>1. CASE size = 0 /\ Space!Clear
    <3>1. space' = <<>> /\ ok' = ok
      BY <2>1 DEF Space!Clear
    <3>2. IsList(space') /\ Free' = {}
      BY <3>1 DEF IsList, Free, Space!Units, Space!Ordered
    <3> QED
      BY <1>2, <3>1, <3>2 DEF WholeUnits
  <2>2. CASE /\ size # 0
             /\ Space!SubSpace(Align(start + size), Align(image.End) - Align(start + size))
             /\ trimmed' = (trimmed /\ ok')
    <3> DEFINE t == Align(start + size)
               e == Align(image.End)
               s == e - t
    <3>1. PICK p \in Placed : Room(At(p)) = At(p).FileOffset .. (t - 1)
                              /\ At(p).FileOffset <= start + size
      BY <1>2, <2>2, LastKept
    <3>2. t \in Nat /\ t >= start + size /\ Aligned(t) /\ t <= e
      BY <1>2, <2>2, LastKept
    <3>3. e \in Nat /\ Aligned(e)
      BY <1>2, AlignProperties DEF GoodImage
    <3>4. s \in Nat /\ t + s - 1 = e - 1
      BY <3>2, <3>3
    <3>5. Space!SubSpace(t, s) /\ ok'
      BY <2>2
    <3>6. Free \subseteq start .. (e - 1)
      BY <1>5
    <3> HIDE DEF t, s, e
    <3>7. IsList(space') /\ ok' \in BOOLEAN
          /\ Space!Units(space') = Space!Units(space) \ (t .. (t + s - 1))
      BY <1>5, <3>2, <3>4, <3>5, SubtractedUnits
    <3>8. Free' = Free \ (t .. (e - 1))
      BY <3>4, <3>7 DEF Free
    <3>9. WholeUnits(Free')
      <4>1. t \in Int /\ e \in Int
        BY <3>2, <3>3
      <4>2. WholeUnits(Free \ (t .. (e - 1)))
        BY <1>5, <3>2, <3>3, <4>1, WholeUnitsKept
      <4> QED
        BY <3>8, <4>2
    <3>10. Room(At(p)) \cap Free = {}
      BY <1>2 DEF RemapInv, PlacedInv
    <3>11. At(p).FileOffset \in Nat
      BY <1>2, <1>4, <3>1 DEF RemapInv, PlacedInv, At
    <3>12. Free' \subseteq start .. (start + size - 1)
      <4> SUFFICES ASSUME NEW u \in Free, u \notin t .. (e - 1)
                   PROVE  u \in start .. (start + size - 1)
        BY <3>8
      <4>1. u \in Int /\ start <= u /\ u <= e - 1
        BY <1>4, <3>3, <3>6
      <4>2. u < t
        BY <3>2, <3>3, <4>1
      <4>3. u \notin At(p).FileOffset .. (t - 1)
        BY <3>1, <3>10
      <4>4. u < At(p).FileOffset
        BY <3>2, <3>11, <4>1, <4>2, <4>3
      <4>5. u < start + size
        BY <1>4, <3>1, <3>11, <4>1, <4>4
      <4> QED
        BY <1>4, <4>1, <4>5
    <3>13. ok' = TRUE
      BY <3>5, <3>7
    <3> QED
      BY <3>7, <3>8, <3>9, <3>12, <3>13
  <2> QED
    BY <2>1, <2>2 DEF TrimTail
<1>7. Placed' = Placed
  <2>1. moved \subseteq DOMAIN ref \cap DOMAIN files
    BY <1>2 DEF ScanInv
  <2> QED
    BY <1>2, <1>3, <2>1 DEF Placed
<1>8. \A q : At(q)' = At(q)
  BY <1>3 DEF At
<1>9. RemapInv'
  <2>1. PlacedInv'
    BY <1>2, <1>3, <1>6, <1>7, <1>8 DEF RemapInv, PlacedInv
  <2> QED
    BY <1>2, <1>3, <2>1 DEF RemapInv
<1>10. PlaceInv'
  <2>1. queue' \subseteq DOMAIN files'
    BY <1>2, <1>3 DEF ScanInv
  <2>2. FreeInv(start + size)'
    <3> DEFINE e == start + size
    <3>1. e' = e /\ start' = start
      BY <1>3
    <3>2. Free' \subseteq start .. (e - 1)
      BY <1>4, <1>6
    <3> HIDE DEF e
    <3>3. FreeInv(e)'
      BY <1>6, <3>1, <3>2 DEF FreeInv
    <3> QED
      BY <3>3 DEF e
  <2> QED
    BY <1>3, <2>1, <2>2 DEF PlaceInv
<1>11. GoodImage(image)'
  BY <1>2, <1>3
<1> QED
  BY <1>6, <1>9, <1>10, <1>11

-----------------------------------------------------------------------------
(* The files that move                                                     *)

LEMMA FirstFitType ==
  ASSUME IsList(space), NEW s \in Nat
  PROVE  Space!FirstFit(s) \in Int
<1>1. CASE Space!Roomy(s) = {}
  BY <1>1 DEF Space!FirstFit
<1>2. CASE Space!Roomy(s) # {}
  <2>1. space \in Seq(SP!Buffer) /\ SP!Ordered(space)
    BY SameList DEF IsList
  <2>2. Space!Roomy(s) \subseteq Nat
    BY <2>1, SP!ListType DEF Space!Roomy
  <2>3. SP!First(Space!Roomy(s)) \in Space!Roomy(s)
    BY <1>2, <2>2, SP!FirstProperties
  <2>4. SP!First(Space!Roomy(s)) \in DOMAIN space
    BY <2>3 DEF Space!Roomy
  <2>5. space[SP!First(Space!Roomy(s))].Top \in Nat
    BY <2>1, <2>4, SP!ListType
  <2> QED
    BY <1>2, <2>5 DEF Space!FirstFit, SP!First, Space!First
<1> QED
  BY <1>1, <1>2

\* What both ways to place a file have in common: it gets units that no other
\* file has and that are not free afterwards.
LEMMA PlacedOneMore ==
  ASSUME GoodImage(image), RemapInv, PlaceInv, phase = "place", phase' = "place",
         NEW p \in queue, queue' = queue \ {p}, NEW offset \in Nat, NEW fsize \in Nat,
         fsize = files[p].FileSize,
         files' = [files EXCEPT ![p].FileOffset = offset],
         start' = start, todo' = todo, size' \in Nat, size <= size',
         Aligned(start + offset), offset + fsize <= size',
         IsList(space'), WholeUnits(Free'), Free' \subseteq Free,
         \A q \in Placed :
           Room(At(q)) \cap ((start + offset) .. (start + offset + Align(fsize) - 1)) = {},
         Free' \cap ((start + offset) .. (start + offset + Align(fsize) - 1)) = {}
  PROVE  RemapInv' /\ PlaceInv'
<1>1. start \in Nat /\ size \in Nat /\ start \in Starts
  BY StartFacts DEF RemapInv
<1>2. /\ queue \subseteq DOMAIN files /\ DOMAIN files \subseteq Paths
      /\ files \in [DOMAIN files -> [FileSize : Nat, FileOffset : Offsets]]
      /\ todo = {} /\ Free \subseteq start .. (start + size - 1)
  BY <1>1 DEF RemapInv, PlaceInv, FreeInv
<1>3. /\ DOMAIN files' = DOMAIN files
      /\ files'[p].FileOffset = offset /\ files'[p].FileSize = fsize
      /\ \A q \in DOMAIN files \ {p} : files'[q] = files[q]
      /\ files' \in [DOMAIN files' -> [FileSize : Nat, FileOffset : Offsets]]
  <2>1. offset \in Offsets
    BY DEF Offsets
  <2> QED
    BY <1>2, <2>1
<1>4. Placed' = Placed \cup {p} /\ p \notin Placed /\ Placed \subseteq DOMAIN files
  BY <1>2, <1>3 DEF Placed
<1>5. \A q \in Placed : At(q)' = At(q) /\ files'[q] = files[q]
  BY <1>3, <1>4 DEF At
<1>6. At(p)'.FileOffset = start + offset /\ At(p)'.FileSize = fsize
  BY <1>3 DEF At
<1>7. Room(At(p)') = (start + offset) .. (start + offset + Align(fsize) - 1)
  BY <1>6 DEF Room
<1>8. ASSUME NEW q \in Placed
      PROVE  /\ files'[q].FileOffset \in Nat
             /\ Lies(At(q)', start', start' + size')
             /\ Room(At(q)') \cap Free' = {}
  <2>1. /\ files[q].FileOffset \in Nat /\ Lies(At(q), start, start + size)
        /\ Room(At(q)) \cap Free = {}
    BY DEF RemapInv, PlacedInv
  <2>2. files[q].FileSize \in Nat
    BY <1>2, <1>4
  <2>3. At(q) \in Entries
    BY <1>1, <2>1, <2>2 DEF At, Entries
  <2>4. Lies(At(q), start, start + size')
    BY <1>1, <2>1, <2>3, LiesFurther
  <2> QED
    BY <1>5, <2>1, <2>4
<1>9. /\ files'[p].FileOffset \in Nat
      /\ Lies(At(p)', start', start' + size')
      /\ Room(At(p)') \cap Free' = {}
  <2>1. start + offset + fsize <= start + size' /\ start <= start + offset
    BY <1>1
  <2>2. Lies(At(p)', start', start' + size')
    BY <1>6, <2>1 DEF Lies
  <2> QED
    BY <1>3, <1>7, <2>2
<1>10. \A q \in Placed : Room(At(q)') \cap Room(At(p)') = {}
  BY <1>5, <1>7
<1>11. \A q, r \in Placed : q # r => Room(At(q)') \cap Room(At(r)') = {}
  BY <1>5 DEF RemapInv, PlacedInv
<1>12. \A q, r \in Placed' : q # r => Room(At(q)') \cap Room(At(r)') = {}
  BY <1>4, <1>10, <1>11
<1>13. PlacedInv'
  BY <1>4, <1>8, <1>9, <1>12 DEF PlacedInv
<1>14. RemapInv'
  BY <1>1, <1>2, <1>3, <1>13 DEF RemapInv
<1>15. FreeInv(start + size)'
  <2> DEFINE e == start + size
  <2>1. Free' \subseteq start' .. (e' - 1)
    <3>1. start + size' \in Nat /\ start + size <= start + size'
      BY <1>1
    <3>2. e' = start + size'
      OBVIOUS
    <3> QED
      BY <1>1, <1>2, <3>1, <3>2
  <2> HIDE DEF e
  <2>2. FreeInv(e)'
    BY <2>1 DEF FreeInv
  <2> QED
    BY <2>2 DEF e
<1>16. PlaceInv'
  BY <1>2, <1>3, <1>15 DEF PlaceInv
<1> QED
  BY <1>14, <1>16

LEMMA PlaceKeeps ==
  ASSUME IInv, Place, trimmed
  PROVE  ok' = TRUE /\ IInv'
<1>1. GoodImage(image) /\ RemapInv /\ PlaceInv /\ phase = "place" /\ ok = TRUE
  BY DEF IInv, Place
<1>2. PICK p \in queue :
        LET room == Align(files[p].FileSize)
            hole == Space!FirstFit(room)
        IN /\ \/ /\ hole < 0
                 /\ files' = [files EXCEPT ![p].FileOffset = Align(size)]
                 /\ size' = Align(size) + files[p].FileSize
                 /\ UNCHANGED spaceVars
              \/ /\ hole >= 0
                 /\ files' = [files EXCEPT ![p].FileOffset = hole - start]
                 /\ Space!SubSpace(hole, room)
                 /\ UNCHANGED size
           /\ queue' = queue \ {p}
  BY DEF Place
<1>3. /\ phase' = "place" /\ image' = image /\ start' = start /\ rules' = rules
      /\ todo' = todo /\ trimmed'
  BY <1>1 DEF Place
<1> DEFINE fsize == files[p].FileSize
           room  == Align(fsize)
           hole  == Space!FirstFit(room)
<1>4. fsize \in Nat /\ size \in Nat /\ start \in Nat /\ Aligned(start)
  BY <1>1, StartFacts DEF RemapInv, PlaceInv
<1>5. room \in Nat /\ room >= fsize
  BY <1>4, AlignProperties
<1>6. IsList(space) /\ WholeUnits(Free) /\ Free \subseteq start .. (start + size - 1)
  BY <1>1, <1>4 DEF PlaceInv, FreeInv
<1>7. \A q \in Placed : /\ files[q].FileOffset \in Nat /\ files[q].FileSize \in Nat
                        /\ Lies(At(q), start, start + size)
                        /\ Room(At(q)) \cap Free = {}
  BY <1>1 DEF RemapInv, PlacedInv, Placed
<1>8. hole \in Int
  <2> HIDE DEF room
  <2> QED
    BY <1>5, <1>6, FirstFitType
<1>9. \/ /\ hole < 0
         /\ files' = [files EXCEPT ![p].FileOffset = Align(size)]
         /\ size' = Align(size) + fsize
         /\ UNCHANGED spaceVars
      \/ /\ hole >= 0
         /\ files' = [files EXCEPT ![p].FileOffset = hole - start]
         /\ Space!SubSpace(hole, room)
         /\ UNCHANGED size
  BY <1>2
<1>10. queue' = queue \ {p}
  BY <1>2
<1> HIDE DEF fsize, hole, room
<1>11. CASE /\ hole < 0
            /\ files' = [files EXCEPT ![p].FileOffset = Align(size)]
            /\ size' = Align(size) + fsize
            /\ UNCHANGED spaceVars
  <2> DEFINE a == Align(size)
  <2>1. a \in Nat /\ a >= size /\ Aligned(a)
    BY <1>4, AlignProperties
  <2>2. space' = space /\ ok' = ok
    BY <1>11 DEF spaceVars
  <2>3. Free' = Free /\ IsList(space')
    BY <1>6, <2>2 DEF Free
  <2>4. files' = [files EXCEPT ![p].FileOffset = a] /\ size' = a + fsize
    BY <1>11
  <2>5. Align(start + size) = start + a
    BY <1>4, AlignSum
  <2> HIDE DEF a
  <2>6. Aligned(start + a)
    BY <1>4, <2>1, AlignedSum
  <2>7. size' \in Nat /\ size <= size' /\ a + fsize <= size'
    BY <1>4, <2>1, <2>4
  <2>8. ASSUME NEW q \in Placed
        PROVE  Room(At(q)) \cap ((start + a) .. (start + a + Align(fsize) - 1)) = {}
    <3> DEFINE f == At(q)
               n == f.FileOffset + f.FileSize
    <3>1. f \in Entries /\ Aligned(f.FileOffset) /\ n <= start + size
      <4>1. f \in Entries
        <5>1. files[q].FileOffset \in Nat /\ files[q].FileSize \in Nat
          BY <1>7
        <5> QED
          BY <1>4, <5>1 DEF At, Entries
      <4>2. Lies(f, start, start + size)
        BY <1>7
      <4> HIDE DEF f
      <4> QED
        BY <4>1, <4>2 DEF Lies
    <3> HIDE DEF f
    <3>2. /\ f.FileOffset \in Nat /\ f.FileSize \in Nat /\ Align(f.FileSize) \in Nat
          /\ f.FileOffset + Align(f.FileSize) = Align(n)
      BY <3>1, RoomEnd
    <3> DEFINE e == start + size
    <3>3. n \in Nat /\ e \in Nat /\ n <= e
      BY <1>4, <3>1, <3>2
    <3> HIDE DEF n, e
    <3>4. Align(n) <= Align(e)
      BY <3>3, AlignMonotone
    <3>5. f.FileOffset + Align(f.FileSize) <= start + a
      BY <2>5, <3>2, <3>4 DEF e
    <3>6. Room(f) \cap ((start + a) .. (start + a + Align(fsize) - 1)) = {}
      BY <1>4, <1>5, <2>1, <3>2, <3>5 DEF Room, room
    <3> QED
      BY <3>6 DEF f
  <2>9. Free' \cap ((start + a) .. (start + a + Align(fsize) - 1)) = {}
    <3>1. start + size <= start + a /\ start + size \in Nat /\ start + a \in Nat
      BY <1>4, <2>1
    <3> QED
      BY <1>4, <1>5, <1>6, <2>3, <3>1 DEF room
  <2>10. WholeUnits(Free') /\ Free' \subseteq Free
    BY <1>6, <2>3
  <2>11. RemapInv' /\ PlaceInv'
    BY <1>1, <1>3, <1>4, <1>10, <2>1, <2>3, <2>4, <2>6, <2>7, <2>8, <2>9, <2>10,
       PlacedOneMore DEF fsize
  <2>12. GoodImage(image)'
    BY <1>1, <1>3
  <2> QED
    BY <1>1, <1>3, <2>2, <2>11, <2>12 DEF IInv
<1>12. CASE /\ hole >= 0
            /\ files' = [files EXCEPT ![p].FileOffset = hole - start]
            /\ Space!SubSpace(hole, room)
            /\ UNCHANGED size
  <2>1. /\ hole \in Free
        /\ \E i \in DOMAIN space : hole = space[i].Top
        /\ hole .. (hole + room - 1) \subseteq Free
    <3>1. ~(hole < 0)
      BY <1>8, <1>12
    <3> HIDE DEF room
    <3> QED
      BY <1>5, <1>6, <3>1, FirstFitProperties DEF hole, Free
  <2>2. hole \in Nat /\ Aligned(hole)
    BY <1>6, <2>1, BufferTops
  <2>3. hole - start \in Nat /\ start <= hole /\ hole < start + size
    BY <1>4, <1>6, <2>1, <2>2
  <2>4. /\ IsList(space') /\ ok' = TRUE
        /\ Free' = Free \ (hole .. (hole + room - 1))
    BY <1>5, <1>6, <1>12, <2>1, <2>2, SubtractedUnits DEF Free
  <2>5. Aligned(hole + room)
    BY <1>4, <1>5, <2>2, AlignProperties, AlignedSum DEF room
  <2>6. WholeUnits(Free') /\ Free' \subseteq Free
    <3> DEFINE e == hole + room
    <3>1. e \in Int /\ hole <= e /\ Aligned(e) /\ hole \in Int
      BY <1>5, <2>2, <2>5
    <3>2. Free' = Free \ (hole .. (e - 1))
      BY <1>5, <2>2, <2>4
    <3> HIDE DEF e
    <3>3. WholeUnits(Free \ (hole .. (e - 1)))
      BY <1>6, <2>2, <3>1, WholeUnitsKept
    <3> QED
      BY <3>2, <3>3
  <2> DEFINE h == hole - start
  <2>7. /\ h \in Nat /\ start + h = hole
        /\ files' = [files EXCEPT ![p].FileOffset = h] /\ size' = size
    BY <1>4, <1>12, <2>2, <2>3
  <2>8. h + fsize <= size'
    <3>1. CASE room = 0
      BY <1>4, <1>5, <2>3, <2>7, <3>1
    <3>2. CASE room # 0
      <4>1. hole + room - 1 \in Free
        BY <1>5, <2>1, <2>2, <3>2
      <4>2. hole + room - 1 <= start + size - 1
        <5> DEFINE u == hole + room - 1
        <5>1. u \in start .. (start + size - 1)
          BY <1>6, <4>1
        <5> HIDE DEF u
        <5>2. u <= start + size - 1
          BY <1>4, <5>1
        <5> QED
          BY <5>2 DEF u
      <4> QED
        BY <1>4, <1>5, <2>2, <2>7, <4>2
    <3> QED
      BY <3>1, <3>2
  <2> HIDE DEF h
  <2>9. Free' \cap ((start + h) .. (start + h + Align(fsize) - 1)) = {}
    <3>1. Free' \cap (hole .. (hole + Align(fsize) - 1)) = {}
      BY <2>4 DEF room
    <3> QED
      BY <2>7, <3>1
  <2>10. \A q \in Placed :
           Room(At(q)) \cap ((start + h) .. (start + h + Align(fsize) - 1)) = {}
    <3>1. \A q \in Placed : Room(At(q)) \cap (hole .. (hole + Align(fsize) - 1)) = {}
      BY <1>7, <2>1 DEF room
    <3> QED
      BY <2>7, <3>1
  <2>11. Aligned(start + h)
    BY <2>2, <2>7
  <2>12. RemapInv' /\ PlaceInv'
    <3>1. size' \in Nat /\ size <= size' /\ fsize = files[p].FileSize
      BY <1>4, <2>7 DEF fsize
    <3> QED
      BY <1>1, <1>3, <1>4, <1>10, <2>4, <2>6, <2>7, <2>8, <2>9, <2>10, <2>11, <3>1,
         PlacedOneMore
  <2>13. GoodImage(image)'
    BY <1>1, <1>3
  <2> QED
    BY <1>1, <1>3, <2>4, <2>12, <2>13 DEF IInv
<1> QED
  BY <1>9, <1>11, <1>12

LEMMA FinishKeeps ==
  ASSUME IInv, Finish
  PROVE  IInv'
<1> SUFFICES ASSUME trimmed
             PROVE  GoodImage(image)'
  BY DEF IInv, Finish, Forget
<1>1. RemapInv /\ PlaceInv /\ phase = "place" /\ queue = {}
  BY DEF IInv, Finish
<1>2. /\ image'.Start = start /\ image'.End = start + size
      /\ image'.File = [p \in DOMAIN files |-> At(p)]
  BY DEF Finish, At
<1>3. Placed = DOMAIN files
  BY <1>1 DEF Placed
<1>4. start \in Nat /\ Aligned(start) /\ size \in Nat
  BY <1>1, StartFacts DEF RemapInv
<1>5. \A p \in DOMAIN files : /\ At(p) \in Entries
                              /\ Lies(At(p), start, start + size)
  BY <1>1, <1>3, <1>4 DEF RemapInv, PlacedInv, At, Entries
<1>6. \A p, q \in DOMAIN files : p # q => Room(At(p)) \cap Room(At(q)) = {}
  BY <1>1, <1>3 DEF RemapInv, PlacedInv
<1>7. /\ image'.File \in [DOMAIN image'.File -> Entries]
      /\ \A p \in DOMAIN image'.File : Lies(image'.File[p], image'.Start, image'.End)
      /\ \A p, q \in DOMAIN image'.File :
           p # q => Room(image'.File[p]) \cap Room(image'.File[q]) = {}
  BY <1>2, <1>5, <1>6
<1>8. /\ image'.Start \in Nat /\ image'.End \in Nat
      /\ image'.Start <= image'.End /\ Aligned(image'.Start)
  BY <1>2, <1>4
<1>9. GoodImage(image')
  BY <1>7, <1>8 DEF GoodImage
<1> QED
  BY <1>9

-----------------------------------------------------------------------------
(* The theorems                                                            *)

LEMMA NextKeeps ==
  ASSUME IInv, [Next]_vars
  PROVE  IInv'
<1>1. CASE CreatePlain
  BY <1>1, CreatePlainKeeps
<1>2. CASE PushFileEntry
  BY <1>2, PushFileEntryKeeps
<1>3. CASE FinishPlain
  BY <1>3, FinishPlainKeeps
<1>4. CASE BeginRemap
  BY <1>4, BeginRemapKeeps
<1>5. CASE ScanReference
  <2>1. CASE trimmed
    BY <1>5, <2>1, ScanReferenceKeeps
  <2>2. CASE ~trimmed
    BY <1>5, <2>2 DEF IInv, ScanReference
  <2> QED
    BY <2>1, <2>2
<1>6. CASE TrimTail
  BY <1>6, TrimTailKeeps
<1>7. CASE Place
  <2>1. CASE trimmed
    BY <1>7, <2>1, PlaceKeeps
  <2>2. CASE ~trimmed
    BY <1>7, <2>2 DEF IInv, Place
  <2> QED
    BY <2>1, <2>2
<1>8. CASE Finish
  BY <1>8, FinishKeeps
<1>9. CASE UNCHANGED vars
  <2>1. /\ rules' = rules /\ phase' = phase /\ image' = image /\ trimmed' = trimmed
        /\ start' = start /\ files' = files /\ ref' = ref /\ todo' = todo
        /\ moved' = moved /\ queue' = queue /\ size' = size
        /\ space' = space /\ ok' = ok
    BY <1>9 DEF vars, buildVars, spaceVars
  <2>2. Placed' = Placed /\ Free' = Free
    BY <2>1 DEF Placed, Free
  <2>3. \A p : At(p)' = At(p) /\ Old(p)' = Old(p)
    BY <2>1 DEF At, Old
  <2>4. RemapInv => RemapInv'
    BY <2>1, <2>2, <2>3 DEF RemapInv, PlacedInv
  <2>5. ScanInv => ScanInv'
    BY <2>1, <2>2, <2>3 DEF ScanInv, FreeInv
  <2>6. PlaceInv => PlaceInv'
    BY <2>1, <2>2 DEF PlaceInv, FreeInv
  <2>7. GoodImage(image) => GoodImage(image)'
    BY <2>1
  <2> QED
    BY <2>1, <2>4, <2>5, <2>6, <2>7 DEF IInv
<1> QED
  BY <1>1, <1>2, <1>3, <1>4, <1>5, <1>6, <1>7, <1>8, <1>9 DEF Next

\* What is free is used by no file: in every state of every chain of builds whose
\* tails could be cut, the free list of remap() is coalesced, lies behind the
\* metadata and covers no byte of a file that has its place and no room of a
\* reference file still to be visited.
THEOREM FreeIsAlwaysUnused == Spec => []FreeIsUnused
<1>1. IInv => FreeIsUnused
  <2> SUFFICES ASSUME IInv, trimmed
               PROVE  /\ Space!Coalesced
                      /\ \A i \in DOMAIN space :
                           /\ space[i].Top >= start
                           /\ \A p \in Placed : \A b \in Bytes(files[p]) :
                                start + b \notin space[i].Top .. (space[i].Bottom - 1)
                           /\ \A p \in todo :
                                Room(ref[p]) \cap (space[i].Top .. (space[i].Bottom - 1)) = {}
    BY DEF FreeIsUnused
  <2>1. CASE phase \in {"choose", "push"}
    <3>1. space = <<>>
      BY <2>1 DEF IInv
    <3> QED
      BY <3>1 DEF Space!Coalesced, Space!Ordered
  <2>2. CASE phase \in {"scan", "place"}
    <3>1. RemapInv
      BY <2>2 DEF IInv
    <3>2. start \in Nat /\ size \in Nat
      BY <3>1, StartFacts DEF RemapInv
    <3>3. IsList(space) /\ \A u \in Free : u >= start
      <4>1. CASE phase = "scan"
        <5>1. FreeInv(Align(image.End))
          BY <4>1 DEF IInv, ScanInv
        <5>2. Align(image.End) \in Nat
          BY AlignProperties DEF IInv, GoodImage
        <5> QED
          BY <3>2, <5>1, <5>2 DEF FreeInv
      <4>2. CASE phase = "place"
        <5>1. FreeInv(start + size)
          BY <4>2 DEF IInv, PlaceInv
        <5> QED
          BY <3>2, <5>1 DEF FreeInv
      <4> QED
        BY <2>2, <4>1, <4>2
    <3>4. Space!Coalesced
      BY <3>3 DEF IsList, Space!Coalesced
    <3>5. ASSUME NEW i \in DOMAIN space
          PROVE  /\ space[i].Top >= start
                 /\ \A p \in Placed : \A b \in Bytes(files[p]) :
                      start + b \notin space[i].Top .. (space[i].Bottom - 1)
                 /\ \A p \in todo :
                      Room(ref[p]) \cap (space[i].Top .. (space[i].Bottom - 1)) = {}
      <4>1. /\ space[i].Top \in Nat /\ space[i].Bottom \in Nat
            /\ space[i].Top < space[i].Bottom
        BY <3>3, SameList, SP!ListType DEF IsList, SP!Ordered
      <4>2. space[i].Top .. (space[i].Bottom - 1) \subseteq Free
        BY DEF Free, Space!Units
      <4>3. space[i].Top >= start
        BY <3>3, <4>1, <4>2
      <4>4. ASSUME NEW p \in Placed, NEW b \in Bytes(files[p])
            PROVE  start + b \notin Free
        <5>1. /\ files[p].FileOffset \in Nat /\ files[p].FileSize \in Nat
              /\ Room(At(p)) \cap Free = {}
          BY <3>1 DEF RemapInv, PlacedInv, Placed
        <5> DEFINE off == files[p].FileOffset
                   n   == files[p].FileSize
        <5>2. /\ Room(At(p)) = (start + off) .. (start + off + Align(n) - 1)
              /\ b \in off .. (off + n - 1)
          BY DEF Room, Bytes, At
        <5> HIDE DEF off, n
        <5>3. off \in Nat /\ n \in Nat /\ Align(n) \in Nat /\ Align(n) >= n
          BY <5>1, AlignProperties DEF off, n
        <5>4. start + b \in Room(At(p))
          BY <3>2, <5>2, <5>3
        <5> QED
          BY <5>1, <5>4
      <4>5. ASSUME NEW p \in todo
            PROVE  Room(ref[p]) \cap Free = {}
        <5>1. CASE phase = "scan"
          BY <5>1 DEF IInv, ScanInv
        <5>2. CASE phase = "place"
          BY <5>2 DEF IInv, PlaceInv
        <5> QED
          BY <2>2, <5>1, <5>2
      <4> QED
        BY <4>2, <4>3, <4>4, <4>5
    <3> QED
      BY <3>4, <3>5
  <2> QED
    BY <2>1, <2>2 DEF IInv
<1> QED
  BY <1>1, InitGives, NextKeeps, PTL DEF Spec

\* Every image of a chain whose tails could be cut is well formed: no two files
\* share a byte, none lies in the metadata and none ends behind the size that the
\* header gives for level 3.
THEOREM TrimmedImagesStayWellFormed == Spec => []TrimmedImagesWellFormed
<1>1. IInv => TrimmedImagesWellFormed
  <2> SUFFICES ASSUME GoodImage(image)
               PROVE  WellFormed(image)
    BY DEF IInv, TrimmedImagesWellFormed
  <2>1. ASSUME NEW p \in DOMAIN image.File
        PROVE  /\ image.File[p].FileOffset >= image.Start
               /\ image.File[p].FileOffset + image.File[p].FileSize <= image.End
               /\ Bytes(image.File[p]) \subseteq Room(image.File[p])
    <3>1. image.File[p] \in Entries /\ Lies(image.File[p], image.Start, image.End)
      BY DEF GoodImage
    <3>2. /\ image.File[p].FileOffset \in Nat /\ image.File[p].FileSize \in Nat
          /\ image.Start \in Nat
      BY <3>1 DEF Entries, GoodImage
    <3>3. /\ image.File[p].FileOffset >= image.Start
          /\ image.File[p].FileOffset + image.File[p].FileSize <= image.End
      BY <3>1, <3>2 DEF Lies
    <3>4. Align(image.File[p].FileSize) \in Nat
          /\ Align(image.File[p].FileSize) >= image.File[p].FileSize
      BY <3>2, AlignProperties
    <3>5. Bytes(image.File[p]) \subseteq Room(image.File[p])
      BY <3>2, <3>4 DEF Bytes, Room
    <3> QED
      BY <3>3, <3>5
  <2>2. \A p, q \in DOMAIN image.File :
          p # q => Room(image.File[p]) \cap Room(image.File[q]) = {}
    BY DEF GoodImage
  <2>3. \A p, q \in DOMAIN image.File :
          p # q => Bytes(image.File[p]) \cap Bytes(image.File[q]) = {}
    BY <2>1, <2>2
  <2> QED
    BY <2>1, <2>3 DEF WellFormed
<1> QED
  BY <1>1, InitGives, NextKeeps, PTL DEF Spec

\* In such a chain CSpace never refuses what remap() asks of it for a file, so
\* that the results it ignores are true.
THEOREM CallsAreNeverRefused == Spec => NoCallRefused
<1>1. ASSUME IInv, [Next]_vars
      PROVE  [trimmed /\ ((phase = "scan" /\ todo # {}) \/ phase = "place") => ok']_vars
  <2> SUFFICES ASSUME Next, trimmed, (phase = "scan" /\ todo # {}) \/ phase = "place"
               PROVE  ok'
    BY <1>1
  <2>1. CASE ScanReference
    BY <1>1, <2>1, ScanReferenceKeeps
  <2>2. CASE Place
    BY <1>1, <2>2, PlaceKeeps
  <2>3. CASE Finish
    BY <2>3 DEF Finish, Forget
  <2>4. ~CreatePlain /\ ~PushFileEntry /\ ~FinishPlain /\ ~BeginRemap /\ ~TrimTail
    BY DEF CreatePlain, PushFileEntry, FinishPlain, BeginRemap, TrimTail
  <2> QED
    BY <2>1, <2>2, <2>3, <2>4 DEF Next
<1> QED
  BY <1>1, InitGives, NextKeeps, PTL DEF Spec, NoCallRefused

-----------------------------------------------------------------------------
(* The tail.  From a reference without holes every unit behind the metadata *)
(* is somebody's while the reference is visited.                           *)

Covered ==
  \A u \in start .. (Align(image.End) - 1) :
    \/ u \in Free
    \/ \E p \in todo : u \in Room(Old(p))
    \/ \E p \in Placed : u \in Room(At(p))

CoverInv == trimmed /\ phase = "scan" /\ Gapless(image) => Covered

LEMMA BeginRemapCovers ==
  ASSUME IInv, BeginRemap, trimmed, Gapless(image)
  PROVE  Covered'
<1>1. GoodImage(image) /\ image' = image
  BY DEF IInv, BeginRemap
<1>2. start' \in Starts /\ start' \in Nat
  <2>1. start' \in Starts
    BY DEF BeginRemap
  <2> QED
    BY <2>1, StartFacts
<1>3. image.Start \in Nat /\ image.End \in Nat
  BY <1>1 DEF GoodImage
<1>4. Align(image.End) \in Nat
  BY <1>3, AlignProperties
<1>5. todo' = DOMAIN image.File
  BY DEF BeginRemap
<1>6. \A p \in DOMAIN image.File :
        Room(Clipped(image.File[p], start')) = {u \in Room(image.File[p]) : u >= start'}
  BY <1>1, <1>2, OldPlaces
<1>7. ASSUME NEW u \in start' .. (Align(image.End) - 1), u < image.Start
      PROVE  u \in Free'
  <2>1. start' < image.Start
    BY <1>2, <1>3, <1>4, <1>7
  <2>2. space' = <<[Top |-> start', Bottom |-> image.Start]>>
    BY <2>1 DEF BeginRemap, Space!SBuffer
  <2>3. DOMAIN space' = {1} /\ space'[1].Top = start' /\ space'[1].Bottom = image.Start
    BY <2>2
  <2>4. Free' = space'[1].Top .. (space'[1].Bottom - 1)
    BY <2>3, Zenon DEF Free, Space!Units
  <2> QED
    BY <1>2, <1>3, <1>4, <1>7, <2>3, <2>4
<1>8. ASSUME NEW u \in start' .. (Align(image.End) - 1), ~(u < image.Start)
      PROVE  \E p \in DOMAIN image.File : u \in Room(Clipped(image.File[p], start'))
  <2>1. u \in image.Start .. (Align(image.End) - 1) /\ u >= start'
    BY <1>2, <1>3, <1>4, <1>8
  <2>2. PICK p \in DOMAIN image.File : u \in Room(image.File[p])
    BY <2>1 DEF Gapless
  <2> QED
    BY <1>6, <2>1, <2>2
<1> QED
  BY <1>1, <1>5, <1>7, <1>8 DEF Covered, Old

LEMMA ScanReferenceCovers ==
  ASSUME IInv, ScanReference, trimmed, Covered
  PROVE  Covered'
<1>1. GoodImage(image) /\ RemapInv /\ ScanInv /\ phase = "scan"
  BY DEF IInv, ScanReference
<1>2. PICK p \in todo : /\ IF MustMove(p) THEN Release(p) ELSE Keep(p)
                        /\ todo' = todo \ {p}
  BY DEF ScanReference
<1>3. phase' = "scan" /\ image' = image /\ start' = start
  BY <1>1 DEF ScanReference
<1>4. HandedOn(p)
  <2>1. CASE MustMove(p)
    BY <1>1, <1>2, <1>3, <2>1, ReleaseKeeps
  <2>2. CASE ~MustMove(p)
    BY <1>1, <1>2, <1>3, <2>2, KeepKeeps
  <2> QED
    BY <2>1, <2>2
<1>5. \A q : Old(q)' = Old(q)
  BY <1>3 DEF Old
<1>6. ASSUME NEW u \in start .. (Align(image.End) - 1)
      PROVE  \/ u \in Free'
             \/ \E q \in todo' : u \in Room(Old(q)')
             \/ \E q \in Placed' : u \in Room(At(q)')
  <2>1. CASE u \in Free
    BY <1>4, <2>1 DEF HandedOn
  <2>2. CASE \E q \in todo : u \in Room(Old(q))
    <3>1. PICK q \in todo : u \in Room(Old(q))
      BY <2>2
    <3>2. CASE q = p
      BY <1>4, <3>1, <3>2 DEF HandedOn
    <3>3. CASE q # p
      BY <1>2, <1>5, <3>1, <3>3
    <3> QED
      BY <3>2, <3>3
  <2>3. CASE \E q \in Placed : u \in Room(At(q))
    BY <1>4, <2>3 DEF HandedOn
  <2> QED
    BY <2>1, <2>2, <2>3 DEF Covered
<1> QED
  BY <1>3, <1>6 DEF Covered

LEMMA NextCovers ==
  ASSUME IInv, CoverInv, [Next]_vars
  PROVE  CoverInv'
<1> SUFFICES ASSUME trimmed', phase' = "scan", Gapless(image)'
             PROVE  Covered'
  BY DEF CoverInv
<1>1. CASE BeginRemap
  <2>1. trimmed /\ Gapless(image)
    BY <1>1 DEF BeginRemap
  <2> QED
    BY <1>1, <2>1, BeginRemapCovers
<1>2. CASE ScanReference
  <2>1. trimmed /\ Gapless(image) /\ phase = "scan"
    BY <1>2 DEF ScanReference
  <2> QED
    BY <1>2, <2>1, ScanReferenceCovers DEF CoverInv
<1>3. CASE UNCHANGED vars
  <2>1. /\ phase' = phase /\ image' = image /\ trimmed' = trimmed
        /\ start' = start /\ files' = files /\ ref' = ref /\ todo' = todo
        /\ moved' = moved /\ queue' = queue /\ space' = space
    BY <1>3 DEF vars, buildVars, spaceVars
  <2>2. Placed' = Placed /\ Free' = Free
    BY <2>1 DEF Placed, Free
  <2>3. \A p : At(p)' = At(p) /\ Old(p)' = Old(p)
    BY <2>1 DEF At, Old
  <2>4. Covered
    BY <2>1 DEF CoverInv
  <2> QED
    BY <2>1, <2>2, <2>3, <2>4 DEF Covered
<1>4. ~CreatePlain /\ ~PushFileEntry /\ ~FinishPlain /\ ~TrimTail /\ ~Place /\ ~Finish
  BY DEF CreatePlain, PushFileEntry, FinishPlain, TrimTail, Place, Finish
<1> QED
  BY <1>1, <1>2, <1>3, <1>4 DEF Next

\* From a reference without holes the tail is free when all files were visited, so
\* that the SubSpace whose result remap() ignores cuts it.
THEOREM GaplessTailIsAlwaysCut == Spec => GaplessTailIsCut
<1>1. ASSUME IInv, CoverInv, [Next]_vars
      PROVE  [trimmed /\ phase = "scan" /\ todo = {} /\ Gapless(image) => ok']_vars
  <2> SUFFICES ASSUME Next, trimmed, phase = "scan", todo = {}, Gapless(image)
               PROVE  ok'
    BY <1>1
  <2>1. GoodImage(image) /\ RemapInv /\ ScanInv /\ ok = TRUE /\ Covered
    BY <1>1 DEF IInv, CoverInv
  <2>2. TrimTail
    BY DEF Next, CreatePlain, PushFileEntry, FinishPlain, BeginRemap, ScanReference,
       Place, Finish
  <2>3. CASE size = 0 /\ Space!Clear
    BY <2>1, <2>3 DEF Space!Clear
  <2>4. CASE /\ size # 0
             /\ Space!SubSpace(Align(start + size), Align(image.End) - Align(start + size))
    <3> DEFINE t == Align(start + size)
               e == Align(image.End)
               s == e - t
    <3>1. t \in Nat /\ t >= start + size /\ t <= e
      BY <2>1, <2>4, LastKept
    <3>2. start \in Nat /\ size \in Nat /\ image.End \in Nat
      BY <2>1, StartFacts DEF RemapInv, GoodImage
    <3>3. e \in Nat
      BY <3>2, AlignProperties
    <3>4. s \in Nat /\ t + s - 1 = e - 1
      BY <3>1, <3>3
    <3>5. Space!SubSpace(t, s)
      BY <2>4
    <3>6. ASSUME NEW p \in Placed
          PROVE  \A u \in Room(At(p)) : u < t
      <4> DEFINE f == At(p)
                 n == f.FileOffset + f.FileSize
                 m == start + size
      <4>1. f \in Entries /\ Lies(f, start, m)
        BY <2>1, <3>2 DEF RemapInv, PlacedInv, Placed, At, Entries
      <4> HIDE DEF f
      <4>2. /\ f.FileOffset \in Nat /\ f.FileSize \in Nat /\ Align(f.FileSize) \in Nat
            /\ f.FileOffset + Align(f.FileSize) = Align(n)
        BY <4>1, RoomEnd DEF Lies
      <4>3. n \in Nat /\ m \in Nat /\ n <= m
        BY <3>2, <4>1, <4>2 DEF Lies
      <4>4. t = Align(m)
        OBVIOUS
      <4> HIDE DEF n, m, t
      <4>5. Align(n) <= Align(m)
        BY <4>3, AlignMonotone
      <4>6. \A u \in Room(f) : u < t
        BY <3>1, <4>2, <4>4, <4>5 DEF Room
      <4> QED
        BY <4>6 DEF f
    <3>7. Free = Space!Units(space) /\ IsList(space)
      BY <2>1 DEF Free, ScanInv, FreeInv
    <3>8. \A u \in start .. (e - 1) :
            u \in Free \/ (\E p \in Placed : u \in Room(At(p)))
      BY <2>1 DEF Covered
    <3> HIDE DEF t, s, e
    <3>9. t .. (e - 1) \subseteq Free
      <4> SUFFICES ASSUME NEW u \in t .. (e - 1)
                   PROVE  u \in Free
        OBVIOUS
      <4>1. u \in start .. (e - 1) /\ ~(u < t)
        BY <3>1, <3>2, <3>3
      <4> QED
        BY <3>6, <3>8, <4>1
    <3> QED
      BY <3>1, <3>4, <3>5, <3>7, <3>9, SubtractedUnits
  <2> QED
    BY <2>2, <2>3, <2>4 DEF TrimTail
<1>2. ASSUME IInv, CoverInv, [Next]_vars
      PROVE  IInv' /\ CoverInv'
  BY <1>2, NextKeeps, NextCovers
<1>3. Init => IInv /\ CoverInv
  BY InitGives DEF Init, CoverInv
<1> QED
  BY <1>1, <1>2, <1>3, PTL DEF Spec, GaplessTailIsCut

-----------------------------------------------------------------------------
(* Files that stay.  What a remap is for holds in every chain, cut or not, *)
(* so the invariant here knows little of the list and nothing of rooms.    *)

Extents == [Top : Int, Bottom : Int]

\* The file p fits its old place, which the metadata has not reached, and no rule
\* wants it moved.
MayStay(p) ==
  /\ Align(files[p].FileSize) <= Align(image.File[p].FileSize)
  /\ rules[p] = NotIgnored
  /\ image.File[p].FileOffset >= start

StayTypes ==
  /\ rules \in [Paths -> Levels \cup {NotIgnored}]
  /\ phase \in {"choose", "push", "scan", "place"}
  /\ generation \in 0 .. MaxGeneration
  /\ phase \in {"scan", "place"} => generation < MaxGeneration
  /\ image.Start \in Int /\ image.End \in Int
  /\ DOMAIN image.File \subseteq Paths /\ DOMAIN files \subseteq Paths
  /\ image.File \in [DOMAIN image.File -> Entry]
  /\ space \in Seq(Extents) /\ ok \in BOOLEAN /\ trimmed \in BOOLEAN
  /\ start \in Int /\ size \in Int
  /\ files \in [DOMAIN files -> [FileSize : Nat, FileOffset : Offsets]]
  /\ ref \in [DOMAIN ref -> Entry]
  /\ todo \subseteq DOMAIN ref /\ moved \subseteq DOMAIN ref \cap DOMAIN files
  /\ \A p \in Placed : files[p].FileOffset \in Int

\* Such a file has not been visited, or it has its old place.
Stayed ==
  \A p \in DOMAIN image.File \cap DOMAIN files :
    MayStay(p) /\ p \notin todo =>
      p \in Placed /\ start + files[p].FileOffset = image.File[p].FileOffset

\* While the reference is visited, a file without a place has its level.
StayScan ==
  /\ DOMAIN ref = DOMAIN image.File /\ moved \cap todo = {}
  /\ \A p \in todo : ref[p] = Old(p)
  /\ \A p \in DOMAIN files \ Placed : RemapIgnoreLevel(p) = rules[p]

StayInv ==
  /\ StayTypes
  /\ phase \in {"scan", "place"} => Stayed
  /\ phase = "scan" => StayScan
  /\ phase = "place" => todo = {} /\ queue \subseteq DOMAIN files
  /\ phase \in {"choose", "push"} => size = 0 /\ DOMAIN files = {}

LEMMA AlignInt ==
  ASSUME NEW n \in Int
  PROVE  Align(n) \in Int
<1> DEFINE a == Alignment
<1>1. a \in Nat /\ a > 0 /\ n + a - 1 \in Int
  BY UnitFacts
<1>2. (n + a - 1) \div a \in Int
  BY <1>1
<1> QED
  BY <1>1, <1>2 DEF Align

\* The edits of the list keep its type.
LEMMA EditsKeepType ==
  ASSUME NEW b \in Seq(Extents)
  PROVE  /\ Len(b) \in Nat /\ DOMAIN b = 1 .. Len(b)
         /\ \A i \in DOMAIN b : b[i].Top \in Int /\ b[i].Bottom \in Int
         /\ \A i \in 1 .. (Len(b) + 1) : \A e \in Extents :
              Space!Insert(b, i, e) \in Seq(Extents)
         /\ \A i \in DOMAIN b : Space!Erase(b, i) \in Seq(Extents)
<1>1. Len(b) \in Nat /\ DOMAIN b = 1 .. Len(b) /\ b \in [1 .. Len(b) -> Extents]
  OBVIOUS
<1>2. \A i \in DOMAIN b : b[i] \in Extents /\ b[i].Top \in Int /\ b[i].Bottom \in Int
  BY <1>1 DEF Extents
<1>3. ASSUME NEW i \in 1 .. (Len(b) + 1), NEW e \in Extents
      PROVE  Space!Insert(b, i, e) \in Seq(Extents)
  <2>1. Space!Insert(b, i, e) \in [1 .. (Len(b) + 1) -> Extents]
    BY <1>1 DEF Space!Insert
  <2> QED
    BY <1>1, <2>1
<1>4. ASSUME NEW i \in DOMAIN b
      PROVE  Space!Erase(b, i) \in Seq(Extents)
  <2>1. Space!Erase(b, i) \in [1 .. (Len(b) - 1) -> Extents]
    BY <1>1 DEF Space!Erase
  <2>2. Len(b) - 1 \in Nat
    BY <1>1
  <2> QED
    BY <2>1, <2>2
<1> QED
  BY <1>1, <1>2, <1>3, <1>4

LEMMA EndsMoved ==
  ASSUME NEW b \in Seq(Extents), NEW i \in DOMAIN b, NEW x \in Int
  PROVE  /\ [b EXCEPT ![i].Top = x] \in Seq(Extents)
         /\ [b EXCEPT ![i].Bottom = x] \in Seq(Extents)
<1>1. Len(b) \in Nat /\ b \in [1 .. Len(b) -> Extents]
  OBVIOUS
<1>2. /\ [b[i] EXCEPT !.Top = x] \in Extents
      /\ [b[i] EXCEPT !.Bottom = x] \in Extents
  BY <1>1 DEF Extents
<1>3. /\ [b EXCEPT ![i].Top = x] \in [1 .. Len(b) -> Extents]
      /\ [b EXCEPT ![i].Bottom = x] \in [1 .. Len(b) -> Extents]
  BY <1>1, <1>2
<1> QED
  BY <1>1, <1>3

LEMMA FirstStop ==
  ASSUME NEW b \in Seq(Extents), NEW S, S \subseteq DOMAIN b, S # {}
  PROVE  Space!First(S) \in DOMAIN b
<1>1. S \subseteq Nat
  BY EditsKeepType
<1>2. SP!First(S) \in S
  BY <1>1, SP!FirstProperties
<1> QED
  BY <1>2 DEF SP!First, Space!First

LEMMA CallsKeepType ==
  ASSUME space \in Seq(Extents), NEW o \in Int, NEW s \in Int,
         Space!AddSpace(o, s) \/ Space!SubSpace(o, s)
  PROVE  space' \in Seq(Extents) /\ ok' \in BOOLEAN
<1>1. o + s \in Int
  OBVIOUS
<1> SUFFICES space' \in Seq(Extents)
  <2>1. ok' \in BOOLEAN
    BY DEF Space!AddSpace, Space!SubSpace, Space!Overlap
  <2> QED
    BY <2>1
<1>2. ASSUME NEW x \in Int, NEW y \in Int
      PROVE  Space!SBuffer(x, y) \in Extents
  BY DEF Space!SBuffer, Extents
<1>3. CASE Space!AddSpace(o, s)
  <2> DEFINE stops == Space!AddStops(space, o, o + s)
             i     == Space!First(stops)
  <2>1. CASE space' = Space!Insert(space, Len(space) + 1, Space!SBuffer(o, o + s))
    <3>1. Len(space) + 1 \in 1 .. (Len(space) + 1)
      BY EditsKeepType
    <3> QED
      BY <1>1, <1>2, <2>1, <3>1, EditsKeepType
  <2>2. CASE stops # {} /\ space' = Space!AddedAt(space, i, o, o + s)
    <3>1. i \in DOMAIN space
      <4>1. stops \subseteq DOMAIN space
        BY DEF Space!AddStops
      <4> HIDE DEF stops
      <4> QED
        BY <2>2, <4>1, FirstStop
    <3> HIDE DEF i
    <3> DEFINE c == [space EXCEPT ![i].Bottom = space[i + 1].Bottom]
    <3>2. i \in 1 .. (Len(space) + 1)
      BY <3>1, EditsKeepType
    <3>3. \/ space' = space
          \/ space' = Space!Insert(space, i, Space!SBuffer(o, o + s))
          \/ space' = [space EXCEPT ![i].Top = o]
          \/ space' = [space EXCEPT ![i].Bottom = o + s]
          \/ i # Len(space) /\ space' = Space!Erase(c, i + 1)
      BY <2>2 DEF Space!AddedAt
    <3>4. CASE i # Len(space) /\ space' = Space!Erase(c, i + 1)
      <4>1. i + 1 \in DOMAIN space
        BY <3>1, <3>4, EditsKeepType
      <4>2. space[i + 1].Bottom \in Int
        BY <4>1, EditsKeepType
      <4>3. c \in Seq(Extents)
        <5> DEFINE e == space[i + 1].Bottom
        <5>1. e \in Int
          BY <4>2
        <5> HIDE DEF e
        <5>2. [space EXCEPT ![i].Bottom = e] \in Seq(Extents)
          BY <3>1, <5>1, EndsMoved
        <5> QED
          BY <5>2 DEF c, e
      <4>4. DOMAIN c = DOMAIN space
        OBVIOUS
      <4> HIDE DEF c
      <4>5. Space!Erase(c, i + 1) \in Seq(Extents)
        BY <4>1, <4>3, <4>4, EditsKeepType
      <4> QED
        BY <3>4, <4>5
    <3>5. Space!SBuffer(o, o + s) \in Extents
      BY <1>1, <1>2
    <3> HIDE DEF c
    <3>6. /\ [space EXCEPT ![i].Top = o] \in Seq(Extents)
          /\ [space EXCEPT ![i].Bottom = o + s] \in Seq(Extents)
      <4> DEFINE e == o + s
      <4>1. e \in Int
        OBVIOUS
      <4> HIDE DEF e
      <4>2. [space EXCEPT ![i].Top = o] \in Seq(Extents)
        BY <3>1, EndsMoved
      <4>3. [space EXCEPT ![i].Bottom = e] \in Seq(Extents)
        BY <3>1, <4>1, EndsMoved
      <4> QED
        BY <4>2, <4>3 DEF e
    <3>7. Space!Insert(space, i, Space!SBuffer(o, o + s)) \in Seq(Extents)
      BY <3>2, <3>5, EditsKeepType
    <3> QED
      BY <3>3, <3>4, <3>6, <3>7
  <2>3. CASE space' = space
    BY <2>3
  <2> QED
    BY <1>3, <2>1, <2>2, <2>3 DEF Space!AddSpace
<1>4. CASE Space!SubSpace(o, s)
  <2> DEFINE stops == Space!SubStops(space, o, o + s)
             i     == Space!First(stops)
  <2>1. CASE stops # {} /\ space' = Space!SubtractedAt(space, i, o, o + s)
    <3>1. i \in DOMAIN space
      <4>1. stops \subseteq DOMAIN space
        BY DEF Space!SubStops
      <4> HIDE DEF stops
      <4> QED
        BY <2>1, <4>1, FirstStop
    <3> HIDE DEF i
    <3> DEFINE c == [space EXCEPT ![i].Bottom = o]
    <3>2. \/ space' = Space!Erase(space, i)
          \/ space' = [space EXCEPT ![i].Top = o + s]
          \/ space' = c
          \/ space' = Space!Insert(c, i + 1, Space!SBuffer(o + s, space[i].Bottom))
      BY <2>1 DEF Space!SubtractedAt
    <3>3. c \in Seq(Extents) /\ Len(c) = Len(space)
      <4>1. c \in Seq(Extents)
        BY <3>1, EndsMoved
      <4>2. Len(c) = Len(space)
        OBVIOUS
      <4> QED
        BY <4>1, <4>2
    <3>4. i + 1 \in 1 .. (Len(c) + 1)
      BY <3>1, <3>3, EditsKeepType
    <3>5. Space!SBuffer(o + s, space[i].Bottom) \in Extents
      BY <1>1, <1>2, <3>1, EditsKeepType
    <3> HIDE DEF c
    <3>6. Space!Insert(c, i + 1, Space!SBuffer(o + s, space[i].Bottom)) \in Seq(Extents)
      BY <3>3, <3>4, <3>5, EditsKeepType
    <3>7. [space EXCEPT ![i].Top = o + s] \in Seq(Extents)
      <4> DEFINE e == o + s
      <4>1. e \in Int
        OBVIOUS
      <4> HIDE DEF e
      <4>2. [space EXCEPT ![i].Top = e] \in Seq(Extents)
        BY <3>1, <4>1, EndsMoved
      <4> QED
        BY <4>2 DEF e
    <3>8. Space!Erase(space, i) \in Seq(Extents)
      BY <3>1, EditsKeepType
    <3> QED
      BY <3>2, <3>3, <3>6, <3>7, <3>8
  <2>2. CASE space' = space
    BY <2>2
  <2> QED
    BY <1>4, <2>1, <2>2 DEF Space!SubSpace
<1> QED
  BY <1>3, <1>4

LEMMA FirstFitInt ==
  ASSUME space \in Seq(Extents), NEW s
  PROVE  Space!FirstFit(s) \in Int
<1>1. CASE Space!Roomy(s) = {}
  BY <1>1 DEF Space!FirstFit
<1>2. CASE Space!Roomy(s) # {}
  <2>1. Space!Roomy(s) \subseteq DOMAIN space
    BY DEF Space!Roomy
  <2> DEFINE i == Space!First(Space!Roomy(s))
  <2>2. i \in DOMAIN space
    BY <1>2, <2>1, FirstStop
  <2>3. Space!FirstFit(s) = space[i].Top
    BY <1>2 DEF Space!FirstFit
  <2> HIDE DEF i
  <2> QED
    BY <2>2, <2>3, EditsKeepType
<1> QED
  BY <1>1, <1>2

LEMMA ClippedType ==
  ASSUME NEW e \in Entry, NEW begin \in Int
  PROVE  /\ Clipped(e, begin) \in Entry
         /\ e.FileOffset >= begin => Clipped(e, begin) = e
<1>1. e.FileOffset \in Int /\ e.FileSize \in Nat
  BY DEF Entry
<1> DEFINE rest == e.FileSize - (begin - e.FileOffset)
           left == IF rest < 0 THEN 0 ELSE rest
<1>2. rest \in Int /\ left \in Nat
  BY <1>1
<1>3. Clipped(e, begin) = IF e.FileOffset >= begin THEN e
                          ELSE [FileOffset |-> begin, FileSize |-> left]
  BY DEF Clipped
<1> HIDE DEF rest, left
<1> QED
  BY <1>2, <1>3 DEF Entry

LEMMA InitStays == Init => StayInv
<1> SUFFICES ASSUME Init PROVE StayInv
  OBVIOUS
<1>1. /\ image = [Start |-> 0, End |-> 0, File |-> <<>>] /\ phase = "choose"
      /\ rules \in [Paths -> Levels \cup {NotIgnored}]
      /\ files = <<>> /\ space = <<>> /\ start = 0 /\ size = 0
      /\ ref = <<>> /\ todo = {} /\ moved = {} /\ ok = TRUE /\ trimmed = TRUE
      /\ generation = 0 /\ generation \in 0 .. MaxGeneration
  BY RemapAssumption DEF Init, Idle
<1>2. image.File \in [DOMAIN image.File -> Entry]
  BY <1>1
<1>3. /\ files \in [DOMAIN files -> [FileSize : Nat, FileOffset : Offsets]]
      /\ ref \in [DOMAIN ref -> Entry]
      /\ DOMAIN files = {} /\ DOMAIN image.File = {}
  BY <1>1
<1>4. Placed = {}
  BY <1>1 DEF Placed
<1>5. StayTypes
  BY <1>1, <1>2, <1>3, <1>4 DEF StayTypes
<1> QED
  BY <1>1, <1>5 DEF StayInv

LEMMA PlainStays ==
  ASSUME StayInv, CreatePlain \/ PushFileEntry \/ FinishPlain
  PROVE  StayInv'
<1>1. StayTypes
  BY DEF StayInv
<1>2. /\ rules' = rules /\ start' = start /\ files' = files /\ ref' = ref /\ todo' = todo
      /\ moved' = moved /\ queue' = queue /\ size' = size /\ space' = space
      /\ phase \notin {"scan", "place"} /\ phase' \in {"choose", "push"}
      /\ ok' = ok /\ trimmed' = trimmed /\ generation' \in {generation, 1}
      /\ generation' \in 0 .. MaxGeneration
  BY <1>1, RemapAssumption DEF StayTypes, CreatePlain, PushFileEntry, FinishPlain, buildVars, spaceVars
<1>3. Placed' = Placed
  BY <1>2 DEF Placed
<1>4. /\ image'.Start \in Int /\ image'.End \in Int
      /\ DOMAIN image'.File \subseteq Paths
      /\ image'.File \in [DOMAIN image'.File -> Entry]
  <2>1. CASE CreatePlain
    <3>1. PICK begin \in Starts : image' = [Start |-> begin, End |-> begin, File |-> <<>>]
      BY <2>1 DEF CreatePlain
    <3>2. begin \in Int
      BY StartFacts
    <3> QED
      BY <3>1, <3>2
  <2>2. CASE PushFileEntry
    <3>1. PICK p \in Paths \ DOMAIN image.File, fileSize \in Sizes :
            LET offset == image.Start + Align(image.End - image.Start)
                entry  == [FileOffset |-> offset, FileSize |-> fileSize]
            IN image' = [Start |-> image.Start,
                         End   |-> offset + fileSize,
                         File  |-> [q \in DOMAIN image.File \cup {p} |->
                                      IF q = p THEN entry ELSE image.File[q]]]
      BY <2>2 DEF PushFileEntry
    <3> DEFINE offset == image.Start + Align(image.End - image.Start)
               entry  == [FileOffset |-> offset, FileSize |-> fileSize]
    <3>2. offset \in Int
      <4> DEFINE n == image.End - image.Start
      <4>1. n \in Int /\ image.Start \in Int
        BY <1>1 DEF StayTypes
      <4> HIDE DEF n
      <4>2. Align(n) \in Int
        BY <4>1, AlignInt
      <4> QED
        BY <4>1, <4>2 DEF n
    <3> HIDE DEF offset
    <3>3. fileSize \in Nat /\ entry \in Entry
      BY <3>2, RemapAssumption DEF Entry
    <3>4. image' = [Start |-> image.Start,
                    End   |-> offset + fileSize,
                    File  |-> [q \in DOMAIN image.File \cup {p} |->
                                 IF q = p THEN entry ELSE image.File[q]]]
      BY <3>1 DEF offset
    <3> HIDE DEF entry
    <3>5. image.File \in [DOMAIN image.File -> Entry] /\ image.Start \in Int
          /\ DOMAIN image.File \subseteq Paths
      BY <1>1 DEF StayTypes
    <3> QED
      BY <3>2, <3>3, <3>4, <3>5
  <2>3. CASE FinishPlain
    BY <1>1, <2>3 DEF FinishPlain, StayTypes
  <2> QED
    BY <2>1, <2>2, <2>3
<1>5. StayTypes'
  BY <1>1, <1>2, <1>3, <1>4 DEF StayTypes
<1>6. size' = 0 /\ DOMAIN files' = {}
  <2>1. phase \in {"choose", "push"}
    BY <1>1, <1>2 DEF StayTypes
  <2> QED
    BY <1>2, <2>1 DEF StayInv
<1> QED
  BY <1>2, <1>5, <1>6 DEF StayInv

LEMMA BeginRemapStays ==
  ASSUME StayInv, BeginRemap
  PROVE  StayInv'
<1>1. StayTypes
  BY DEF StayInv
<1>2. /\ rules' = rules /\ image' = image /\ phase' = "scan" /\ start' \in Starts
      /\ ref' = [p \in DOMAIN image.File |-> Clipped(image.File[p], start')]
      /\ todo' = DOMAIN image.File /\ moved' = {} /\ size' = 0
      /\ ok' = ok /\ trimmed' = trimmed
      /\ generation' = generation /\ generation < MaxGeneration
  BY RemapAssumption DEF BeginRemap
<1>3. start' \in Int
  BY <1>2, StartFacts
<1>4. Placed' = {}
  BY <1>2 DEF Placed
<1>5. PICK S \in SUBSET Paths :
        \E sizes \in [S -> Sizes] :
          files' = [p \in S |-> [FileSize |-> sizes[p], FileOffset |-> rules[p]]]
  BY DEF BeginRemap
<1>6. PICK sizes \in [S -> Sizes] :
        files' = [p \in S |-> [FileSize |-> sizes[p], FileOffset |-> rules[p]]]
  BY <1>5
<1>7. ASSUME NEW p \in S
      PROVE  sizes[p] \in Nat /\ rules[p] \in Offsets
  BY <1>1, RemapAssumption DEF StayTypes, Offsets
<1>8. /\ DOMAIN files' = S /\ files' \in [S -> [FileSize : Nat, FileOffset : Offsets]]
      /\ \A p \in S : files'[p].FileOffset = rules[p]
  BY <1>6, <1>7
<1>9. space' \in Seq(Extents)
  <2>1. Space!SBuffer(start', image.Start) \in Extents
    BY <1>1, <1>3 DEF StayTypes, Space!SBuffer, Extents
  <2>2. space' = <<Space!SBuffer(start', image.Start)>> \/ space' = <<>>
    BY DEF BeginRemap
  <2>3. \A e \in Extents : <<e>> \in Seq(Extents)
    OBVIOUS
  <2>4. <<>> \in Seq(Extents)
    OBVIOUS
  <2> QED
    BY <2>1, <2>2, <2>3, <2>4
<1>10. DOMAIN ref' = DOMAIN image'.File /\ ref' \in [DOMAIN ref' -> Entry]
  <2>1. \A p \in DOMAIN image.File : Clipped(image.File[p], start') \in Entry
    BY <1>1, <1>3, ClippedType DEF StayTypes
  <2> QED
    BY <1>2, <2>1
<1>11. StayScan'
  <2>3. \A p \in todo' : ref'[p] = Clipped(image'.File[p], start')
    BY <1>2
  <2> QED
    BY <1>2, <1>8, <1>10, <2>3 DEF StayScan, Old, RemapIgnoreLevel
<1>12. Stayed'
  BY <1>2 DEF Stayed
<1>13. StayTypes'
  <2>1. todo' \subseteq DOMAIN ref' /\ moved' \subseteq DOMAIN ref' \cap DOMAIN files'
    BY <1>2, <1>10
  <2> QED
    BY <1>1, <1>2, <1>3, <1>4, <1>8, <1>9, <1>10, <2>1 DEF StayTypes
<1> QED
  BY <1>2, <1>11, <1>12, <1>13 DEF StayInv

LEMMA ReleaseStays ==
  ASSUME StayTypes, Stayed, StayScan, phase = "scan", phase' = "scan",
         NEW p \in todo, MustMove(p), Release(p), todo' = todo \ {p},
         image' = image, start' = start, rules' = rules,
         generation' = generation, trimmed' = trimmed
  PROVE  StayTypes' /\ Stayed' /\ StayScan'
<1>1. /\ p \in DOMAIN image.File /\ p \notin Placed /\ ref[p] = Old(p)
      /\ ref[p] \in Entry
  BY DEF StayTypes, StayScan, Placed
<1>2. ref[p].FileOffset \in Int /\ ref[p].FileSize \in Nat
  BY <1>1 DEF Entry
<1>3. /\ files' = files /\ size' = size /\ ref' = [ref EXCEPT ![p].FileSize = 0]
      /\ moved' = IF p \in DOMAIN files THEN moved \cup {p} ELSE moved
      /\ Space!AddSpace(ref[p].FileOffset, Align(ref[p].FileSize))
  BY DEF Release
<1>4. space' \in Seq(Extents) /\ ok' \in BOOLEAN
  <2> DEFINE o == ref[p].FileOffset
             n == ref[p].FileSize
             s == Align(n)
  <2>1. o \in Int /\ n \in Int
    BY <1>2
  <2>2. s \in Int
    <3> HIDE DEF n
    <3> QED
      BY <2>1, AlignInt
  <2>3. Space!AddSpace(o, s) /\ space \in Seq(Extents)
    BY <1>3 DEF StayTypes
  <2> HIDE DEF o, s
  <2> QED
    BY <2>1, <2>2, <2>3, CallsKeepType
<1>5. /\ DOMAIN ref = DOMAIN image.File /\ ref \in [DOMAIN ref -> Entry]
      /\ todo \subseteq DOMAIN ref /\ moved \subseteq DOMAIN ref \cap DOMAIN files
      /\ moved \cap todo = {}
  BY DEF StayTypes, StayScan
<1>6. Placed' = Placed
  BY <1>3, <1>5 DEF Placed
<1>7. \A q : Old(q)' = Old(q) /\ (MayStay(q)' <=> MayStay(q))
             /\ RemapIgnoreLevel(q)' = RemapIgnoreLevel(q)
  BY <1>3 DEF Old, MayStay, RemapIgnoreLevel
<1>8. StayTypes'
  <2>1. DOMAIN ref' = DOMAIN ref /\ ref' \in [DOMAIN ref' -> Entry]
    BY <1>3, <1>5 DEF Entry
  <2>2. todo' \subseteq DOMAIN ref' /\ moved' \subseteq DOMAIN ref' \cap DOMAIN files'
    BY <1>3, <1>5, <2>1
  <2> QED
    BY <1>3, <1>4, <1>6, <2>1, <2>2 DEF StayTypes
<1>9. Stayed'
  <2>1. ~(p \in DOMAIN files /\ MayStay(p))
    <3> SUFFICES ASSUME p \in DOMAIN files, MayStay(p)
                 PROVE  FALSE
      OBVIOUS
    <3>1. RemapIgnoreLevel(p) = NotIgnored
      BY <1>1 DEF StayScan, MayStay
    <3>2. image.File[p] \in Entry /\ start \in Int
      BY <1>1 DEF StayTypes
    <3>3. ref[p] = image.File[p]
      BY <1>1, <3>2, ClippedType DEF Old, MayStay
    <3> DEFINE m == files[p].FileSize
               n == ref[p].FileSize
    <3>4. m \in Int /\ n \in Int
      BY <1>2 DEF StayTypes
    <3>5. Align(m) <= Align(n)
      BY <3>3 DEF MayStay
    <3>6. Align(m) > Align(n)
      BY <3>1 DEF MustMove
    <3> HIDE DEF m, n
    <3>7. Align(m) \in Int /\ Align(n) \in Int
      BY <3>4, AlignInt
    <3> QED
      BY <3>5, <3>6, <3>7
  <2> QED
    BY <1>3, <1>6, <1>7, <2>1 DEF Stayed
<1>10. StayScan'
  <2>1. DOMAIN ref' = DOMAIN image'.File
    BY <1>3, <1>5
  <2>2. moved' \cap todo' = {}
    BY <1>3, <1>5
  <2>3. \A q \in todo' : ref'[q] = Old(q)'
    <3>1. ASSUME NEW q \in todo \ {p}
          PROVE  ref'[q] = Old(q)
      BY <1>3, <1>5 DEF StayScan
    <3> QED
      BY <1>7, <3>1
  <2>4. \A q \in DOMAIN files' \ Placed' : RemapIgnoreLevel(q)' = rules'[q]
    BY <1>3, <1>6, <1>7 DEF StayScan
  <2> QED
    BY <2>1, <2>2, <2>3, <2>4 DEF StayScan
<1> QED
  BY <1>8, <1>9, <1>10

LEMMA KeepStays ==
  ASSUME StayTypes, Stayed, StayScan, phase = "scan", phase' = "scan",
         NEW p \in todo, ~MustMove(p), Keep(p), todo' = todo \ {p},
         image' = image, start' = start, rules' = rules,
         generation' = generation, trimmed' = trimmed
  PROVE  StayTypes' /\ Stayed' /\ StayScan'
<1> DEFINE old   == ref[p].FileOffset
           was   == ref[p].FileSize
           fsize == files[p].FileSize
<1>1. /\ p \in DOMAIN image.File /\ p \notin Placed /\ ref[p] = Old(p)
      /\ ref[p] \in Entry
  BY DEF StayTypes, StayScan, Placed
<1>2. p \in DOMAIN files
  BY DEF MustMove
<1>3. old \in Int /\ was \in Int /\ fsize \in Int /\ start \in Int /\ size \in Int
  BY <1>1, <1>2 DEF StayTypes, Entry
<1>4. /\ files' = [files EXCEPT ![p].FileOffset = old - start]
      /\ size' = IF old - start + fsize > size THEN old - start + fsize ELSE size
      /\ ref' = ref /\ moved' = moved
      /\ Space!AddSpace(Align(old + fsize), Align(was) - Align(fsize))
  BY DEF Keep
<1> HIDE DEF old, was, fsize
<1>5. space' \in Seq(Extents) /\ ok' \in BOOLEAN
  <2> DEFINE n == old + fsize
             o == Align(n)
             s == Align(was) - Align(fsize)
  <2>1. n \in Int
    BY <1>3
  <2>2. o \in Int
    <3> HIDE DEF n
    <3> QED
      BY <2>1, AlignInt
  <2>3. s \in Int
    BY <1>3, AlignInt
  <2>4. Space!AddSpace(o, s) /\ space \in Seq(Extents)
    BY <1>4 DEF StayTypes
  <2> HIDE DEF o, s
  <2> QED
    BY <2>2, <2>3, <2>4, CallsKeepType
<1>6. /\ DOMAIN ref = DOMAIN image.File /\ ref \in [DOMAIN ref -> Entry]
      /\ todo \subseteq DOMAIN ref /\ moved \subseteq DOMAIN ref \cap DOMAIN files
      /\ moved \cap todo = {}
      /\ files \in [DOMAIN files -> [FileSize : Nat, FileOffset : Offsets]]
  BY DEF StayTypes, StayScan
<1>7. /\ DOMAIN files' = DOMAIN files
      /\ files'[p].FileOffset = old - start
      /\ \A q \in DOMAIN files \ {p} : files'[q] = files[q]
      /\ \A q \in DOMAIN files : files'[q].FileSize = files[q].FileSize
      /\ files' \in [DOMAIN files' -> [FileSize : Nat, FileOffset : Offsets]]
  <2>1. old - start \in Offsets
    BY <1>3 DEF Offsets
  <2> QED
    BY <1>2, <1>4, <1>6, <2>1
<1>8. Placed' = Placed \cup {p} /\ Placed \subseteq DOMAIN files
  BY <1>2, <1>4, <1>6, <1>7 DEF Placed
<1>9. \A q : Old(q)' = Old(q)
  BY DEF Old
<1>10. \A q \in DOMAIN files : MayStay(q)' <=> MayStay(q)
  BY <1>7 DEF MayStay
<1>11. StayTypes'
  <2>1. size' \in Int
    BY <1>3, <1>4
  <2>2. \A q \in Placed' : files'[q].FileOffset \in Int
    BY <1>1, <1>3, <1>7, <1>8 DEF StayTypes
  <2>3. /\ ref' \in [DOMAIN ref' -> Entry] /\ todo' \subseteq DOMAIN ref'
        /\ moved' \subseteq DOMAIN ref' \cap DOMAIN files'
    BY <1>4, <1>6, <1>7
  <2> QED
    BY <1>5, <1>7, <2>1, <2>2, <2>3 DEF StayTypes
<1>12. Stayed'
  <2>1. ASSUME MayStay(p)
        PROVE  start + files'[p].FileOffset = image.File[p].FileOffset
    <3>1. image.File[p] \in Entry
      BY <1>1 DEF StayTypes
    <3>2. old = image.File[p].FileOffset
      BY <1>1, <1>3, <2>1, <3>1, ClippedType DEF Old, MayStay, old
    <3> QED
      BY <1>3, <1>7, <3>2
  <2>2. ASSUME NEW q \in (DOMAIN image.File \cap DOMAIN files) \ {p},
               MayStay(q), q \notin todo
        PROVE  q \in Placed /\ start + files'[q].FileOffset = image.File[q].FileOffset
    BY <1>7, <2>2 DEF Stayed
  <2> QED
    BY <1>7, <1>8, <1>10, <2>1, <2>2 DEF Stayed
<1>13. StayScan'
  <2>1. \A q \in todo' : ref'[q] = Old(q)'
    BY <1>4, <1>9 DEF StayScan
  <2>2. \A q \in DOMAIN files' \ Placed' : RemapIgnoreLevel(q)' = rules'[q]
    BY <1>7, <1>8 DEF StayScan, RemapIgnoreLevel
  <2>3. DOMAIN ref' = DOMAIN image'.File /\ moved' \cap todo' = {}
    BY <1>4, <1>6
  <2> QED
    BY <2>1, <2>2, <2>3 DEF StayScan
<1> QED
  BY <1>11, <1>12, <1>13

LEMMA ScanReferenceStays ==
  ASSUME StayInv, ScanReference
  PROVE  StayInv'
<1>1. StayTypes /\ Stayed /\ StayScan /\ phase = "scan"
  BY DEF StayInv, ScanReference
<1>2. PICK p \in todo : /\ IF MustMove(p) THEN Release(p) ELSE Keep(p)
                        /\ todo' = todo \ {p}
  BY DEF ScanReference
<1>3. /\ phase' = "scan" /\ image' = image /\ start' = start /\ rules' = rules
      /\ generation' = generation /\ trimmed' = trimmed
  BY <1>1 DEF ScanReference
<1>4. StayTypes' /\ Stayed' /\ StayScan'
  <2>1. CASE MustMove(p)
    BY <1>1, <1>2, <1>3, <2>1, ReleaseStays
  <2>2. CASE ~MustMove(p)
    BY <1>1, <1>2, <1>3, <2>2, KeepStays
  <2> QED
    BY <2>1, <2>2
<1> QED
  BY <1>3, <1>4 DEF StayInv

LEMMA TrimTailStays ==
  ASSUME StayInv, TrimTail
  PROVE  StayInv'
<1>1. StayTypes /\ Stayed /\ StayScan /\ phase = "scan"
  BY DEF StayInv, TrimTail
<1>2. /\ phase' = "place" /\ image' = image /\ start' = start /\ files' = files
      /\ size' = size /\ todo' = todo /\ todo = {} /\ rules' = rules
      /\ ref' = ref /\ moved' = moved /\ generation' = generation
      /\ queue' = moved \cup (DOMAIN files \ DOMAIN ref)
  BY DEF TrimTail
<1>3. space' \in Seq(Extents) /\ ok' \in BOOLEAN
  <2>1. CASE Space!Clear
    <3>1. space' = <<>> /\ ok' = ok
      BY <2>1 DEF Space!Clear
    <3> QED
      BY <1>1, <3>1 DEF StayTypes
  <2>2. CASE Space!SubSpace(Align(start + size), Align(image.End) - Align(start + size))
    <3> DEFINE n == start + size
               o == Align(n)
               s == Align(image.End) - o
    <3>1. n \in Int /\ image.End \in Int
      BY <1>1 DEF StayTypes
    <3>2. o \in Int
      <4> HIDE DEF n
      <4> QED
        BY <3>1, AlignInt
    <3>3. s \in Int
      BY <3>1, <3>2, AlignInt
    <3>4. Space!SubSpace(o, s) /\ space \in Seq(Extents)
      BY <1>1, <2>2 DEF StayTypes
    <3> HIDE DEF o, s
    <3> QED
      BY <3>2, <3>3, <3>4, CallsKeepType
  <2> QED
    BY <2>1, <2>2 DEF TrimTail
<1>4. Placed' = Placed
  <2>1. moved \subseteq DOMAIN ref \cap DOMAIN files
    BY <1>1 DEF StayTypes
  <2> QED
    BY <1>1, <1>2, <2>1 DEF Placed
<1>5. StayTypes'
  <2>1. trimmed' \in BOOLEAN
    BY <1>1 DEF StayTypes, TrimTail
  <2> QED
    BY <1>1, <1>2, <1>3, <1>4, <2>1 DEF StayTypes
<1>6. Stayed'
  BY <1>1, <1>2, <1>4 DEF Stayed, MayStay
<1>7. queue' \subseteq DOMAIN files'
  BY <1>1, <1>2 DEF StayTypes
<1> QED
  BY <1>2, <1>5, <1>6, <1>7 DEF StayInv

LEMMA PlaceStays ==
  ASSUME StayInv, Place
  PROVE  StayInv'
<1>1. /\ StayTypes /\ Stayed /\ phase = "place"
      /\ todo = {} /\ queue \subseteq DOMAIN files
  BY DEF StayInv, Place
<1>2. PICK p \in queue :
        LET room == Align(files[p].FileSize)
            hole == Space!FirstFit(room)
        IN /\ \/ /\ hole < 0
                 /\ files' = [files EXCEPT ![p].FileOffset = Align(size)]
                 /\ size' = Align(size) + files[p].FileSize
                 /\ UNCHANGED spaceVars
              \/ /\ hole >= 0
                 /\ files' = [files EXCEPT ![p].FileOffset = hole - start]
                 /\ Space!SubSpace(hole, room)
                 /\ UNCHANGED size
           /\ queue' = queue \ {p}
  BY DEF Place
<1>3. /\ phase' = "place" /\ image' = image /\ start' = start /\ rules' = rules
      /\ todo' = todo /\ ref' = ref /\ moved' = moved
      /\ generation' = generation /\ trimmed' = trimmed
  BY <1>1 DEF Place
<1> DEFINE fsize == files[p].FileSize
           room  == Align(fsize)
           hole  == Space!FirstFit(room)
<1>4. /\ p \in DOMAIN files /\ p \notin Placed
      /\ fsize \in Nat /\ size \in Int /\ start \in Int
      /\ space \in Seq(Extents) /\ ok \in BOOLEAN
      /\ files \in [DOMAIN files -> [FileSize : Nat, FileOffset : Offsets]]
  BY <1>1 DEF StayTypes, Placed
<1>5. hole \in Int /\ room \in Int /\ Align(size) \in Int
  <2>1. room \in Int /\ Align(size) \in Int
    BY <1>4, AlignInt
  <2> HIDE DEF room
  <2>2. hole \in Int
    BY <1>4, FirstFitInt
  <2> QED
    BY <2>1, <2>2
<1>6. PICK offset \in Int :
        /\ files' = [files EXCEPT ![p].FileOffset = offset]
        /\ size' \in Int
        /\ space' \in Seq(Extents) /\ ok' \in BOOLEAN
  <2>1. CASE /\ hole < 0
             /\ files' = [files EXCEPT ![p].FileOffset = Align(size)]
             /\ size' = Align(size) + fsize
             /\ UNCHANGED spaceVars
    <3> DEFINE a == Align(size)
    <3>1. a \in Int /\ files' = [files EXCEPT ![p].FileOffset = a]
      BY <1>5, <2>1
    <3>2. size' = a + fsize /\ space' = space /\ ok' = ok
      BY <2>1 DEF spaceVars
    <3> HIDE DEF a, fsize
    <3>3. size' \in Int /\ space' \in Seq(Extents) /\ ok' \in BOOLEAN
      BY <1>4, <3>1, <3>2
    <3> QED
      BY <3>1, <3>3
  <2>2. CASE /\ hole >= 0
             /\ files' = [files EXCEPT ![p].FileOffset = hole - start]
             /\ Space!SubSpace(hole, room)
             /\ UNCHANGED size
    <3> HIDE DEF hole, room
    <3>1. space' \in Seq(Extents) /\ ok' \in BOOLEAN
      BY <1>4, <1>5, <2>2, CallsKeepType
    <3>2. hole - start \in Int /\ size' \in Int
      BY <1>4, <1>5, <2>2
    <3> QED
      BY <2>2, <3>1, <3>2
  <2> QED
    BY <1>2, <2>1, <2>2
<1>7. queue' = queue \ {p}
  BY <1>2
<1> HIDE DEF fsize, room, hole
<1>8. /\ DOMAIN files' = DOMAIN files
      /\ files'[p].FileOffset = offset
      /\ \A q \in DOMAIN files \ {p} : files'[q] = files[q]
      /\ \A q \in DOMAIN files : files'[q].FileSize = files[q].FileSize
      /\ files' \in [DOMAIN files' -> [FileSize : Nat, FileOffset : Offsets]]
  <2>1. offset \in Offsets
    BY DEF Offsets
  <2> QED
    BY <1>4, <1>6, <2>1
<1>9. Placed' = Placed \cup {p}
  BY <1>1, <1>3, <1>4, <1>7, <1>8 DEF Placed
<1>10. StayTypes'
  <2>1. \A q \in Placed' : files'[q].FileOffset \in Int
    BY <1>1, <1>4, <1>8, <1>9 DEF StayTypes, Placed
  <2> QED
    BY <1>1, <1>3, <1>6, <1>8, <2>1 DEF StayTypes
<1>11. Stayed'
  <2>1. \A q \in DOMAIN files : MayStay(q)' <=> MayStay(q)
    BY <1>3, <1>8 DEF MayStay
  <2>2. ~(p \in DOMAIN image.File /\ MayStay(p))
    BY <1>1, <1>4 DEF Stayed
  <2>3. ASSUME NEW q \in (DOMAIN image.File \cap DOMAIN files) \ {p}, MayStay(q)
        PROVE  q \in Placed /\ start + files'[q].FileOffset = image.File[q].FileOffset
    BY <1>1, <1>8, <2>3 DEF Stayed
  <2> QED
    BY <1>3, <1>8, <1>9, <2>1, <2>2, <2>3 DEF Stayed
<1> QED
  BY <1>1, <1>3, <1>7, <1>8, <1>10, <1>11 DEF StayInv

LEMMA FinishStays ==
  ASSUME StayInv, Finish
  PROVE  StayInv'
<1>1. StayTypes /\ phase = "place" /\ queue = {}
  BY DEF StayInv, Finish
<1>2. /\ image'.Start = start /\ image'.End = start + size
      /\ image'.File = [p \in DOMAIN files |-> [FileOffset |-> start + files[p].FileOffset,
                                                FileSize   |-> files[p].FileSize]]
      /\ rules' = rules /\ phase' = "choose"
      /\ files' = <<>> /\ space' = <<>> /\ start' = 0 /\ size' = 0
      /\ ref' = <<>> /\ todo' = {} /\ moved' = {} /\ ok' = TRUE
      /\ trimmed' = trimmed /\ generation' = generation + 1
  BY DEF Finish, Forget
<1>3. Placed = DOMAIN files
  BY <1>1 DEF Placed
<1>4. ASSUME NEW p \in DOMAIN files
      PROVE  start + files[p].FileOffset \in Int /\ files[p].FileSize \in Nat
  BY <1>1, <1>3 DEF StayTypes
<1>5. image'.File \in [DOMAIN image'.File -> Entry]
  BY <1>2, <1>4 DEF Entry
<1>6. Placed' = {}
  BY <1>2 DEF Placed
<1>7. /\ files' \in [DOMAIN files' -> [FileSize : Nat, FileOffset : Offsets]]
      /\ ref' \in [DOMAIN ref' -> Entry] /\ DOMAIN files' = {}
  BY <1>2
<1>8. /\ start + size \in Int /\ start \in Int
      /\ generation + 1 \in 0 .. MaxGeneration /\ DOMAIN files \subseteq Paths
  BY <1>1, RemapAssumption DEF StayTypes
<1>9. DOMAIN image'.File \subseteq Paths
  BY <1>2, <1>8
<1>10. StayTypes'
  BY <1>1, <1>2, <1>5, <1>6, <1>7, <1>8, <1>9 DEF StayTypes
<1> QED
  BY <1>2, <1>10 DEF StayInv

LEMMA NextStays ==
  ASSUME StayInv, [Next]_vars
  PROVE  StayInv'
<1>1. CASE CreatePlain \/ PushFileEntry \/ FinishPlain
  BY <1>1, PlainStays
<1>2. CASE BeginRemap
  BY <1>2, BeginRemapStays
<1>3. CASE ScanReference
  BY <1>3, ScanReferenceStays
<1>4. CASE TrimTail
  BY <1>4, TrimTailStays
<1>5. CASE Place
  BY <1>5, PlaceStays
<1>6. CASE Finish
  BY <1>6, FinishStays
<1>7. CASE UNCHANGED vars
  <2>1. /\ rules' = rules /\ phase' = phase /\ image' = image
        /\ start' = start /\ files' = files /\ ref' = ref /\ todo' = todo
        /\ moved' = moved /\ queue' = queue /\ size' = size /\ space' = space
        /\ ok' = ok /\ trimmed' = trimmed /\ generation' = generation
    BY <1>7 DEF vars, buildVars, spaceVars
  <2>2. Placed' = Placed
    BY <2>1 DEF Placed
  <2>3. StayTypes'
    BY <2>1, <2>2 DEF StayInv, StayTypes
  <2>4. Stayed => Stayed'
    BY <2>1, <2>2 DEF Stayed, MayStay
  <2>5. StayScan => StayScan'
    BY <2>1, <2>2 DEF StayScan, Old, RemapIgnoreLevel
  <2> QED
    BY <2>1, <2>3, <2>4, <2>5 DEF StayInv
<1> QED
  BY <1>1, <1>2, <1>3, <1>4, <1>5, <1>6, <1>7 DEF Next

\* A file that fits its old place, that no rule wants moved and whose place the
\* metadata has not reached is at its old offset in the new image, in every chain of
\* builds and whatever the reference looks like.
THEOREM FilesAlwaysStay == Spec => FilesStay
<1>1. ASSUME StayInv, [Next]_vars
      PROVE  [phase = "place" /\ queue = {} =>
                \A p \in DOMAIN image.File \cap DOMAIN files :
                  /\ Align(files[p].FileSize) <= Align(image.File[p].FileSize)
                  /\ rules[p] = NotIgnored
                  /\ image.File[p].FileOffset >= start
                  => image'.File[p].FileOffset = image.File[p].FileOffset]_vars
  <2> SUFFICES ASSUME Next, phase = "place", queue = {},
                      NEW p \in DOMAIN image.File \cap DOMAIN files, MayStay(p)
               PROVE  image'.File[p].FileOffset = image.File[p].FileOffset
    BY <1>1 DEF MayStay
  <2>1. Finish
    BY DEF Next, CreatePlain, PushFileEntry, FinishPlain, BeginRemap, ScanReference,
       TrimTail, Place
  <2>2. start + files[p].FileOffset = image.File[p].FileOffset
    BY <1>1 DEF StayInv, Stayed
  <2>3. image'.File[p].FileOffset = start + files[p].FileOffset
    BY <2>1 DEF Finish
  <2> QED
    BY <2>2, <2>3
<1> QED
  BY <1>1, InitStays, NextStays, PTL DEF Spec, FilesStay

\* In every state of every chain the sizes are natural numbers, and so are the
\* offsets and the sizes of the images as long as every tail could be cut.
THEOREM TypeCorrect == Spec => []TypeOK
<1>1. ASSUME IInv, StayInv
      PROVE  TypeOK
  <2>1. /\ StayTypes
        /\ \A p \in DOMAIN image.File : image.File[p] \in Entry
        /\ \A p \in DOMAIN files : files[p].FileSize \in Nat
        /\ \A p \in DOMAIN ref : ref[p] \in Entry
    BY <1>1 DEF StayInv, StayTypes
  <2>2. ASSUME trimmed
        PROVE  /\ image.Start <= image.End
               /\ size \in Nat
               /\ \A p \in DOMAIN image.File : image.File[p].FileOffset \in Nat
               /\ \A p \in Placed : files[p].FileOffset \in Nat
    <3>1. /\ image.Start <= image.End
          /\ \A p \in DOMAIN image.File : image.File[p].FileOffset \in Nat
      BY <1>1, <2>2 DEF IInv, GoodImage, Entries
    <3>2. CASE phase \in {"choose", "push"}
      BY <1>1, <3>1, <3>2 DEF StayInv, Placed
    <3>3. CASE phase \in {"scan", "place"}
      BY <1>1, <2>2, <3>1, <3>3 DEF IInv, RemapInv, PlacedInv
    <3> QED
      BY <1>1, <3>2, <3>3 DEF IInv
  <2> QED
    BY <2>1, <2>2 DEF StayTypes, TypeOK
<1>2. ASSUME IInv, StayInv, [Next]_vars
      PROVE  IInv' /\ StayInv'
  BY <1>2, NextKeeps, NextStays
<1> QED
  BY <1>1, <1>2, InitGives, InitStays, PTL DEF Spec
=============================================================================
