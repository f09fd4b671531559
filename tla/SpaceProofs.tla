----------------------------- MODULE SpaceProofs -----------------------------
(***************************************************************************)
(* The free list of Space for every MaxOffset: its type, its order, and    *)
(* that it implements the set of free units FreeSet.  The argument has     *)
(* three layers: what the two list edits do position by position; what an  *)
(* edit at the buffer where a loop stops does to the order of the list and *)
(* to the units it stands for; the actions.                                *)
(***************************************************************************)
EXTENDS Space, TLAPS, WellFoundedInduction

-----------------------------------------------------------------------------
(* The first element of a set of positions *)

Less == {ss \in Nat \X Nat : ss[1] < ss[2]}

LEMMA LessWellFounded == IsWellFoundedOn(Less, Nat)
  BY NatLessThanWellFounded DEF OpToRel, Less

LEMMA FirstProperties ==
  ASSUME NEW S, S \subseteq Nat, S # {}
  PROVE  First(S) \in S /\ \A j \in S : First(S) <= j
<1>1. PICK x \in S : \A y \in S : <<y, x>> \notin Less
  BY LessWellFounded, WFMin, Zenon
<1>2. ASSUME NEW y \in S
      PROVE  x <= y
  <2>1. x \in Nat /\ y \in Nat
    OBVIOUS
  <2>2. y < x => <<y, x>> \in Less
    BY <2>1 DEF Less
  <2> QED
    BY <1>1, <2>1, <2>2
<1> QED
  BY <1>2 DEF First

-----------------------------------------------------------------------------
(* The two list edits *)

LEMMA ListType ==
  ASSUME NEW b \in Seq(Buffer)
  PROVE  /\ Len(b) \in Nat
         /\ DOMAIN b = 1 .. Len(b)
         /\ \A j \in DOMAIN b : /\ b[j] \in Buffer
                                /\ b[j].Top \in Nat
                                /\ b[j].Bottom \in Nat
                                /\ b[j] = SBuffer(b[j].Top, b[j].Bottom)
<1>1. Len(b) \in Nat /\ DOMAIN b = 1 .. Len(b)
  OBVIOUS
<1>2. \A j \in DOMAIN b : b[j] \in Buffer
  OBVIOUS
<1>3. \A e \in Buffer : /\ e.Top \in Nat
                        /\ e.Bottom \in Nat
                        /\ e = SBuffer(e.Top, e.Bottom)
  BY DEF Buffer, SBuffer
<1> QED
  BY <1>1, <1>2, <1>3

LEMMA InsertProperties ==
  ASSUME NEW b \in Seq(Buffer), NEW i \in 1 .. (Len(b) + 1), NEW e \in Buffer
  PROVE  /\ Insert(b, i, e) \in Seq(Buffer)
         /\ DOMAIN Insert(b, i, e) = 1 .. (Len(b) + 1)
         /\ \A j \in 1 .. (i - 1) : Insert(b, i, e)[j] = b[j]
         /\ Insert(b, i, e)[i] = e
         /\ \A j \in (i + 1) .. (Len(b) + 1) : Insert(b, i, e)[j] = b[j - 1]
<1> DEFINE f == Insert(b, i, e)
<1>1. Len(b) \in Nat /\ DOMAIN b = 1 .. Len(b)
  OBVIOUS
<1>2. f \in [1 .. (Len(b) + 1) -> Buffer]
  BY <1>1 DEF Insert
<1>3. f \in Seq(Buffer)
  BY <1>1, <1>2
<1> QED
  BY <1>1, <1>3 DEF Insert

LEMMA SameEnd ==
  ASSUME NEW m \in Nat, NEW n \in Nat, 1 .. m = 1 .. n
  PROVE  m = n
<1>1. m > 0 => m \in 1 .. n
  OBVIOUS
<1>2. n > 0 => n \in 1 .. m
  OBVIOUS
<1> QED
  BY <1>1, <1>2

LEMMA EraseProperties ==
  ASSUME NEW b \in Seq(Buffer), NEW i \in 1 .. Len(b)
  PROVE  /\ Erase(b, i) \in Seq(Buffer)
         /\ DOMAIN Erase(b, i) = 1 .. (Len(b) - 1)
         /\ Len(Erase(b, i)) = Len(b) - 1
         /\ \A j \in 1 .. (i - 1) : Erase(b, i)[j] = b[j]
         /\ \A j \in i .. (Len(b) - 1) : Erase(b, i)[j] = b[j + 1]
<1> DEFINE f == Erase(b, i)
<1>1. Len(b) \in Nat /\ DOMAIN b = 1 .. Len(b) /\ Len(b) - 1 \in Nat
  OBVIOUS
<1>2. f \in [1 .. (Len(b) - 1) -> Buffer]
  BY <1>1 DEF Erase
<1>3. f \in Seq(Buffer)
  BY <1>1, <1>2
<1>4. Len(f) = Len(b) - 1
  <2>1. DOMAIN f = 1 .. (Len(b) - 1)
    BY DEF Erase
  <2> HIDE DEF f
  <2>2. Len(f) \in Nat /\ DOMAIN f = 1 .. Len(f)
    BY <1>3
  <2> QED
    BY <2>1, <2>2, <1>1, SameEnd
<1> QED
  BY <1>1, <1>3, <1>4 DEF Erase

\* The list with e in place of buffer i.
Replace(b, i, e) == [b EXCEPT ![i] = e]

LEMMA ReplaceProperties ==
  ASSUME NEW b \in Seq(Buffer), NEW i \in 1 .. Len(b), NEW e \in Buffer
  PROVE  /\ Replace(b, i, e) \in Seq(Buffer)
         /\ DOMAIN Replace(b, i, e) = DOMAIN b
         /\ Len(Replace(b, i, e)) = Len(b)
         /\ Replace(b, i, e)[i] = e
         /\ \A j \in DOMAIN b \ {i} : Replace(b, i, e)[j] = b[j]
  BY DEF Replace

\* Moving one end of buffer i replaces it.
LEMMA TopMoved ==
  ASSUME NEW b \in Seq(Buffer), NEW i \in DOMAIN b, NEW x
  PROVE  [b EXCEPT ![i].Top = x] = Replace(b, i, SBuffer(x, b[i].Bottom))
<1>1. b[i] \in [Top : Nat, Bottom : Nat]
  BY ListType DEF Buffer
<1>2. [b[i] EXCEPT !.Top = x] = SBuffer(x, b[i].Bottom)
  BY <1>1 DEF SBuffer
<1> QED
  BY <1>2 DEF Replace

LEMMA BottomMoved ==
  ASSUME NEW b \in Seq(Buffer), NEW i \in DOMAIN b, NEW x
  PROVE  [b EXCEPT ![i].Bottom = x] = Replace(b, i, SBuffer(b[i].Top, x))
<1>1. b[i] \in [Top : Nat, Bottom : Nat]
  BY ListType DEF Buffer
<1>2. [b[i] EXCEPT !.Bottom = x] = SBuffer(b[i].Top, x)
  BY <1>1 DEF SBuffer
<1> QED
  BY <1>2 DEF Replace

-----------------------------------------------------------------------------
(* What an edit does to the order of the list and to its units *)

\* The units of [top, bottom).
Extent(top, bottom) == top .. (bottom - 1)

\* The units of a list, one by one.
LEMMA UnitsProperties ==
  ASSUME NEW b \in Seq(Buffer)
  PROVE  /\ Units(b) \subseteq Nat
         /\ \A x : x \in Units(b)
                   <=> x \in Nat /\ \E j \in DOMAIN b : b[j].Top <= x /\ x < b[j].Bottom
<1>1. \A j \in DOMAIN b : b[j].Top \in Nat /\ b[j].Bottom \in Nat
  BY ListType
<1>2. ASSUME NEW x \in Units(b)
      PROVE  x \in Nat /\ \E j \in DOMAIN b : b[j].Top <= x /\ x < b[j].Bottom
  <2>1. PICK j \in DOMAIN b : x \in b[j].Top .. (b[j].Bottom - 1)
    BY DEF Units
  <2> QED
    BY <1>1, <2>1
<1>3. ASSUME NEW x \in Nat, NEW j \in DOMAIN b, b[j].Top <= x, x < b[j].Bottom
      PROVE  x \in Units(b)
  <2>1. x \in b[j].Top .. (b[j].Bottom - 1)
    BY <1>1, <1>3
  <2> QED
    BY <2>1 DEF Units
<1> QED
  BY <1>2, <1>3

LEMMA BufferUnits ==
  ASSUME NEW b \in Seq(Buffer), NEW j \in DOMAIN b
  PROVE  Extent(b[j].Top, b[j].Bottom) \subseteq Units(b)
<1>1. b[j].Top \in Nat /\ b[j].Bottom \in Nat
  BY ListType
<1> QED
  BY <1>1, UnitsProperties DEF Extent

\* A new extent that touches neither neighbour.
LEMMA InsertOrdered ==
  ASSUME NEW b \in Seq(Buffer), Ordered(b), NEW i \in 1 .. (Len(b) + 1),
         NEW top \in Nat, NEW bottom \in Nat, top < bottom,
         \A j \in 1 .. (i - 1) : b[j].Bottom < top,
         \A j \in i .. Len(b) : bottom < b[j].Top
  PROVE  LET f == Insert(b, i, SBuffer(top, bottom)) IN
         /\ f \in Seq(Buffer)
         /\ Ordered(f)
         /\ Units(f) = Units(b) \cup Extent(top, bottom)
<1> DEFINE e == SBuffer(top, bottom)
           f == Insert(b, i, e)
<1>1. e \in Buffer /\ e.Top = top /\ e.Bottom = bottom
  BY DEF SBuffer, Buffer
<1>2. /\ f \in Seq(Buffer)
      /\ DOMAIN f = 1 .. (Len(b) + 1)
      /\ \A j \in 1 .. (i - 1) : f[j] = b[j]
      /\ f[i] = e
      /\ \A j \in (i + 1) .. (Len(b) + 1) : f[j] = b[j - 1]
  BY <1>1, InsertProperties
<1>3. /\ Len(b) \in Nat /\ DOMAIN b = 1 .. Len(b)
      /\ \A j \in DOMAIN b : b[j].Top \in Nat /\ b[j].Bottom \in Nat
  BY ListType
<1> HIDE DEF e, f
<1>4. ASSUME NEW j \in 1 .. (Len(b) + 1)
      PROVE  f[j].Top < f[j].Bottom
  <2>1. CASE j < i
    BY <2>1, <1>2, <1>3 DEF Ordered
  <2>2. CASE j = i
    BY <2>2, <1>1, <1>2
  <2>3. CASE i < j
    <3>1. f[j] = b[j - 1] /\ j - 1 \in DOMAIN b
      BY <2>3, <1>2, <1>3
    <3> QED
      BY <3>1 DEF Ordered
  <2> QED
    BY <2>1, <2>2, <2>3
<1>5. ASSUME NEW j \in 1 .. (Len(b) + 1), NEW k \in 1 .. (Len(b) + 1), j < k
      PROVE  f[j].Bottom < f[k].Top
  <2>1. CASE k < i
    BY <2>1, <1>2, <1>3, <1>5 DEF Ordered
  <2>2. CASE k = i
    BY <2>2, <1>1, <1>2, <1>3, <1>5
  <2>3. CASE j < i /\ i < k
    <3>1. f[j] = b[j] /\ f[k] = b[k - 1] /\ k - 1 \in i .. Len(b) /\ j \in 1 .. (i - 1)
      BY <2>3, <1>2, <1>3
    <3>2. b[j].Bottom < top /\ bottom < b[k - 1].Top
      BY <3>1
    <3>3. b[j].Bottom \in Int /\ b[k - 1].Top \in Int
      BY <3>1, <1>3
    <3> QED
      BY <3>1, <3>2, <3>3
  <2>4. CASE j = i
    <3>1. f[j] = e /\ f[k] = b[k - 1] /\ k - 1 \in i .. Len(b)
      BY <2>4, <1>2, <1>3, <1>5
    <3> QED
      BY <3>1, <1>1
  <2>5. CASE i < j
    <3>1. f[j] = b[j - 1] /\ f[k] = b[k - 1] /\ j - 1 \in DOMAIN b /\ k - 1 \in DOMAIN b
      BY <2>5, <1>2, <1>3, <1>5
    <3> QED
      BY <3>1, <1>5 DEF Ordered
  <2> QED
    BY <2>1, <2>2, <2>3, <2>4, <2>5
<1>6. Ordered(f)
  BY <1>2, <1>4, <1>5 DEF Ordered
<1>7. ASSUME NEW x \in Units(b) \cup Extent(top, bottom)
      PROVE  x \in Units(f)
  <2>1. x \in Nat
    BY UnitsProperties DEF Extent
  <2>2. CASE x \in Extent(top, bottom)
    <3>1. i \in DOMAIN f /\ f[i].Top <= x /\ x < f[i].Bottom
      BY <2>1, <2>2, <1>1, <1>2 DEF Extent
    <3> QED
      BY <1>2, <2>1, <3>1, UnitsProperties
  <2>3. CASE x \in Units(b)
    <3>1. PICK j \in DOMAIN b : b[j].Top <= x /\ x < b[j].Bottom
      BY <2>3, UnitsProperties
    <3>2. f[j] = b[j] \/ f[j + 1] = b[j]
      BY <1>2, <1>3
    <3>3. j \in DOMAIN f /\ j + 1 \in DOMAIN f
      BY <1>2, <1>3
    <3> QED
      BY <1>2, <2>1, <3>1, <3>2, <3>3, UnitsProperties
  <2> QED
    BY <2>2, <2>3
<1>8. ASSUME NEW x \in Units(f)
      PROVE  x \in Units(b) \cup Extent(top, bottom)
  <2>1. PICK j \in DOMAIN f : f[j].Top <= x /\ x < f[j].Bottom
    BY <1>2, UnitsProperties
  <2>2. x \in Nat
    BY <1>2, UnitsProperties
  <2>3. CASE j = i
    BY <2>1, <2>2, <2>3, <1>1, <1>2 DEF Extent
  <2>4. CASE j # i
    <3>1. \/ j \in DOMAIN b /\ f[j] = b[j]
          \/ j - 1 \in DOMAIN b /\ f[j] = b[j - 1]
      BY <2>4, <1>2, <1>3
    <3>2. PICK k \in DOMAIN b : f[j] = b[k]
      BY <3>1
    <3>3. b[k].Top <= x /\ x < b[k].Bottom
      BY <2>1, <3>2
    <3> QED
      BY <2>2, <3>3, UnitsProperties
  <2> QED
    BY <2>3, <2>4
<1> QED
  BY <1>2, <1>6, <1>7, <1>8 DEF e, f

\* The extent of buffer i becomes [top, bottom), apart from both neighbours.
LEMMA ReplaceOrdered ==
  ASSUME NEW b \in Seq(Buffer), Ordered(b), NEW i \in 1 .. Len(b),
         NEW top \in Nat, NEW bottom \in Nat, top < bottom,
         \A j \in 1 .. (i - 1) : b[j].Bottom < top,
         \A j \in (i + 1) .. Len(b) : bottom < b[j].Top
  PROVE  LET f == Replace(b, i, SBuffer(top, bottom)) IN
         /\ f \in Seq(Buffer)
         /\ Ordered(f)
         /\ Units(f) = (Units(b) \ Extent(b[i].Top, b[i].Bottom)) \cup Extent(top, bottom)
<1> DEFINE e == SBuffer(top, bottom)
           f == Replace(b, i, e)
<1>1. e \in Buffer /\ e.Top = top /\ e.Bottom = bottom
  BY DEF SBuffer, Buffer
<1>2. /\ f \in Seq(Buffer)
      /\ DOMAIN f = DOMAIN b
      /\ f[i] = e
      /\ \A j \in DOMAIN b \ {i} : f[j] = b[j]
  BY <1>1, ReplaceProperties
<1>3. /\ Len(b) \in Nat /\ DOMAIN b = 1 .. Len(b)
      /\ \A j \in DOMAIN b : b[j].Top \in Nat /\ b[j].Bottom \in Nat
  BY ListType
<1> HIDE DEF e, f
<1>4. ASSUME NEW j \in DOMAIN b
      PROVE  f[j].Top < f[j].Bottom
  BY <1>1, <1>2 DEF Ordered
<1>5. ASSUME NEW j \in DOMAIN b, NEW k \in DOMAIN b, j < k
      PROVE  f[j].Bottom < f[k].Top
  <2>1. CASE k = i
    <3>1. j \in 1 .. (i - 1) /\ f[j] = b[j] /\ f[k] = e
      BY <2>1, <1>2, <1>3, <1>5
    <3> QED
      BY <3>1, <1>1
  <2>2. CASE j = i
    <3>1. k \in (i + 1) .. Len(b) /\ f[k] = b[k] /\ f[j] = e
      BY <2>2, <1>2, <1>3, <1>5
    <3> QED
      BY <3>1, <1>1
  <2>3. CASE j # i /\ k # i
    BY <2>3, <1>2, <1>5 DEF Ordered
  <2> QED
    BY <2>1, <2>2, <2>3
<1>6. Ordered(f)
  BY <1>2, <1>4, <1>5 DEF Ordered
<1>7. ASSUME NEW x \in Nat, NEW j \in DOMAIN b, j # i,
             b[j].Top <= x, x < b[j].Bottom
      PROVE  x \notin Extent(b[i].Top, b[i].Bottom)
  <2>1. b[j].Bottom < b[i].Top \/ b[i].Bottom < b[j].Top
    BY <1>3, <1>7 DEF Ordered
  <2>2. b[j].Bottom \in Int /\ b[i].Top \in Int /\ b[i].Bottom \in Int /\ b[j].Top \in Int
    BY <1>3
  <2> QED
    BY <2>1, <2>2, <1>7 DEF Extent
<1>8. ASSUME NEW x \in Units(f)
      PROVE  x \in (Units(b) \ Extent(b[i].Top, b[i].Bottom)) \cup Extent(top, bottom)
  <2>1. PICK j \in DOMAIN b : f[j].Top <= x /\ x < f[j].Bottom
    BY <1>2, UnitsProperties
  <2>2. x \in Nat
    BY <1>2, UnitsProperties
  <2>3. CASE j = i
    BY <2>1, <2>2, <2>3, <1>1, <1>2 DEF Extent
  <2>4. CASE j # i
    <3>1. b[j].Top <= x /\ x < b[j].Bottom
      BY <2>1, <2>4, <1>2
    <3>2. x \in Units(b)
      BY <2>2, <3>1, UnitsProperties
    <3> QED
      BY <2>2, <2>4, <3>1, <3>2, <1>7
  <2> QED
    BY <2>3, <2>4
<1>9. ASSUME NEW x \in (Units(b) \ Extent(b[i].Top, b[i].Bottom)) \cup Extent(top, bottom)
      PROVE  x \in Units(f)
  <2>1. x \in Nat
    BY UnitsProperties DEF Extent
  <2>2. CASE x \in Extent(top, bottom)
    BY <2>1, <2>2, <1>1, <1>2, <1>3, UnitsProperties DEF Extent
  <2>3. CASE x \in Units(b) \ Extent(b[i].Top, b[i].Bottom)
    <3>1. PICK j \in DOMAIN b : b[j].Top <= x /\ x < b[j].Bottom
      BY <2>3, UnitsProperties
    <3>2. j # i
      BY <2>1, <2>3, <3>1, <1>3 DEF Extent
    <3> QED
      BY <2>1, <3>1, <3>2, <1>2, UnitsProperties
  <2> QED
    BY <2>2, <2>3
<1> QED
  BY <1>2, <1>6, <1>8, <1>9 DEF e, f

\* Buffer i goes.
LEMMA EraseOrdered ==
  ASSUME NEW b \in Seq(Buffer), Ordered(b), NEW i \in 1 .. Len(b)
  PROVE  /\ Erase(b, i) \in Seq(Buffer)
         /\ Ordered(Erase(b, i))
         /\ Units(Erase(b, i)) = Units(b) \ Extent(b[i].Top, b[i].Bottom)
<1> DEFINE f == Erase(b, i)
<1>1. /\ f \in Seq(Buffer)
      /\ DOMAIN f = 1 .. (Len(b) - 1)
      /\ \A j \in 1 .. (i - 1) : f[j] = b[j]
      /\ \A j \in i .. (Len(b) - 1) : f[j] = b[j + 1]
  BY EraseProperties
<1>2. /\ Len(b) \in Nat /\ DOMAIN b = 1 .. Len(b)
      /\ \A j \in DOMAIN b : b[j].Top \in Nat /\ b[j].Bottom \in Nat
  BY ListType
<1> HIDE DEF f
\* The old position of what is at position j now.
<1> DEFINE old(j) == IF j < i THEN j ELSE j + 1
<1>3. ASSUME NEW j \in DOMAIN f
      PROVE  old(j) \in DOMAIN b /\ old(j) # i /\ f[j] = b[old(j)]
  BY <1>1, <1>2
<1>4. ASSUME NEW j \in DOMAIN f, NEW k \in DOMAIN f, j < k
      PROVE  old(j) < old(k)
  BY <1>1, <1>2, <1>4
<1> HIDE DEF old
<1>5. Ordered(f)
  BY <1>3, <1>4 DEF Ordered
<1>6. ASSUME NEW j \in DOMAIN b, j # i, NEW x \in Int, b[j].Top <= x, x < b[j].Bottom
      PROVE  x \notin Extent(b[i].Top, b[i].Bottom)
  <2>1. b[j].Bottom < b[i].Top \/ b[i].Bottom < b[j].Top
    BY <1>2, <1>6 DEF Ordered
  <2>2. b[j].Bottom \in Int /\ b[i].Top \in Int /\ b[i].Bottom \in Int /\ b[j].Top \in Int
    BY <1>2
  <2> QED
    BY <2>1, <2>2, <1>6 DEF Extent
<1>7. ASSUME NEW x \in Units(f)
      PROVE  x \in Units(b) \ Extent(b[i].Top, b[i].Bottom)
  <2>1. PICK j \in DOMAIN f : f[j].Top <= x /\ x < f[j].Bottom
    BY <1>1, UnitsProperties
  <2>2. x \in Nat
    BY <1>1, UnitsProperties
  <2>3. old(j) \in DOMAIN b /\ old(j) # i /\ b[old(j)].Top <= x /\ x < b[old(j)].Bottom
    BY <2>1, <1>3
  <2> QED
    BY <2>2, <2>3, <1>6, UnitsProperties
<1>8. ASSUME NEW x \in Units(b) \ Extent(b[i].Top, b[i].Bottom)
      PROVE  x \in Units(f)
  <2>1. PICK j \in DOMAIN b : b[j].Top <= x /\ x < b[j].Bottom
    BY UnitsProperties
  <2>2. x \in Nat
    BY UnitsProperties
  <2>3. j # i
    BY <2>1, <2>2, <1>2 DEF Extent
  <2>4. CASE j < i
    <3>1. j \in DOMAIN f /\ f[j] = b[j]
      BY <2>4, <1>1, <1>2
    <3> QED
      BY <1>1, <2>1, <2>2, <3>1, UnitsProperties
  <2>5. CASE i < j
    <3>1. j - 1 \in DOMAIN f /\ f[j - 1] = b[j]
      BY <2>5, <1>1, <1>2
    <3> QED
      BY <1>1, <2>1, <2>2, <3>1, UnitsProperties
  <2> QED
    BY <2>3, <2>4, <2>5, <1>2
<1> QED
  BY <1>1, <1>5, <1>7, <1>8 DEF f

\* No buffer ends behind m if all units lie below it.
LEMMA BoundProperties ==
  ASSUME NEW b \in Seq(Buffer), Ordered(b), NEW m \in Nat
  PROVE  (\A j \in DOMAIN b : b[j].Bottom <= m) <=> Units(b) \subseteq 0 .. (m - 1)
<1>1. ASSUME NEW j \in DOMAIN b
      PROVE  b[j].Top \in Nat /\ b[j].Bottom \in Nat /\ b[j].Top < b[j].Bottom
  BY ListType DEF Ordered
<1>2. ASSUME \A j \in DOMAIN b : b[j].Bottom <= m, NEW x \in Units(b)
      PROVE  x \in 0 .. (m - 1)
  <2>1. PICK j \in DOMAIN b : x \in b[j].Top .. (b[j].Bottom - 1)
    BY DEF Units
  <2> QED
    BY <1>1, <1>2, <2>1
<1>3. ASSUME Units(b) \subseteq 0 .. (m - 1), NEW j \in DOMAIN b
      PROVE  b[j].Bottom <= m
  <2>1. b[j].Bottom - 1 \in Units(b)
    BY <1>1 DEF Units
  <2> QED
    BY <1>1, <1>3, <2>1
<1> QED
  BY <1>2, <1>3

-----------------------------------------------------------------------------
(* AddSpace *)

\* Up to a buffer where the loop does not stop, the list ends before top.
LEMMA PassedBuffers ==
  ASSUME NEW b \in Seq(Buffer), Ordered(b), NEW n \in 0 .. Len(b),
         NEW top \in Nat, NEW bottom \in Nat, top < bottom,
         \A j \in 1 .. n : j \notin AddStops(b, top, bottom),
         \A j \in DOMAIN b : ~(top < b[j].Top /\ b[j].Bottom < bottom)
  PROVE  /\ \A j \in 1 .. n : b[j].Bottom <= top
         /\ \A j \in 1 .. (n - 1) : b[j].Bottom < top
         /\ n > 0 /\ b[n].Bottom = top => n < Len(b) /\ bottom > b[n + 1].Top
<1>1. /\ Len(b) \in Nat /\ DOMAIN b = 1 .. Len(b)
      /\ \A j \in DOMAIN b : b[j].Top \in Nat /\ b[j].Bottom \in Nat
  BY ListType
<1>2. ASSUME NEW j \in 1 .. n
      PROVE  /\ b[j].Bottom <= top
             /\ b[j].Bottom = top => j < Len(b) /\ bottom > b[j + 1].Top
  <2>1. j \in DOMAIN b
    BY <1>1
  <2>2. ~Overlap(b[j], top, bottom) /\ ~(bottom <= b[j].Top) /\ ~Extends(b, j, top, bottom)
    BY <2>1 DEF AddStops
  <2>3. b[j].Top < b[j].Bottom
    BY <2>1 DEF Ordered
  <2>4. b[j].Bottom <= top
    BY <1>1, <2>1, <2>2, <2>3 DEF Overlap
  <2>5. ASSUME b[j].Bottom = top
        PROVE  j < Len(b) /\ bottom > b[j + 1].Top
    <3>1. j # Len(b) /\ ~(bottom <= b[j + 1].Top)
      BY <2>2, <2>5 DEF Extends
    <3>2. j \in 1 .. Len(b) /\ Len(b) \in Nat
      BY <1>1, <2>1
    <3>3. j < Len(b)
      BY <3>1, <3>2
    <3>4. j + 1 \in DOMAIN b
      BY <1>1, <3>2, <3>3
    <3> QED
      <4>1. b[j + 1].Top \in Int /\ bottom \in Int
        BY <1>1, <3>4
      <4> QED
        BY <3>1, <3>3, <4>1
  <2> QED
    BY <2>4, <2>5
<1>3. ASSUME NEW j \in 1 .. (n - 1)
      PROVE  b[j].Bottom < top
  <2>1. j \in 1 .. n /\ j + 1 \in 1 .. n /\ j \in DOMAIN b /\ j + 1 \in DOMAIN b
    BY <1>1
  <2>2. b[j].Bottom < b[j + 1].Top /\ b[j + 1].Top < b[j + 1].Bottom
    BY <2>1 DEF Ordered
  <2>3. b[j + 1].Bottom <= top
    BY <2>1, <1>2
  <2> QED
    BY <1>1, <2>1, <2>2, <2>3
<1>4. n > 0 => n \in 1 .. n
  OBVIOUS
<1> QED
  BY <1>2, <1>3, <1>4

\* What AddSpace makes of a list: the state functions behind the action.
Added(b, top, bottom) ==
  IF AddStops(b, top, bottom) = {} THEN Insert(b, Len(b) + 1, SBuffer(top, bottom))
  ELSE AddedAt(b, First(AddStops(b, top, bottom)), top, bottom)

Accepted(b, top, bottom) ==
  \/ AddStops(b, top, bottom) = {}
  \/ ~Overlap(b[First(AddStops(b, top, bottom))], top, bottom)

\* A refused extent has a unit that is free already.
LEMMA RefusedOverlaps ==
  ASSUME NEW b \in Seq(Buffer), Ordered(b), NEW i \in DOMAIN b,
         NEW top \in Nat, NEW bottom \in Nat, top < bottom,
         Overlap(b[i], top, bottom)
  PROVE  Extent(top, bottom) \cap Units(b) # {}
<1>1. b[i].Top \in Nat /\ b[i].Bottom \in Nat /\ b[i].Top < b[i].Bottom
  BY ListType DEF Ordered
<1>2. CASE b[i].Top <= top /\ top < b[i].Bottom
  <2>1. top \in Extent(top, bottom) /\ top \in Nat
    BY <1>1, <1>2 DEF Extent
  <2> QED
    BY <1>2, <2>1, UnitsProperties
<1>3. CASE b[i].Top < bottom /\ bottom <= b[i].Bottom
  <2>1. bottom - 1 \in Extent(top, bottom) /\ bottom - 1 \in Nat
    BY <1>1, <1>3 DEF Extent
  <2>2. b[i].Top <= bottom - 1 /\ bottom - 1 < b[i].Bottom
    BY <1>1, <1>3
  <2> QED
    BY <2>1, <2>2, UnitsProperties
<1> QED
  BY <1>2, <1>3 DEF Overlap

\* An extent between two neighbours has no unit that is free.
LEMMA GapIsUnused ==
  ASSUME NEW b \in Seq(Buffer), NEW top \in Nat, NEW bottom \in Nat,
         \A j \in DOMAIN b : b[j].Bottom <= top \/ bottom <= b[j].Top
  PROVE  Extent(top, bottom) \cap Units(b) = {}
<1> SUFFICES ASSUME NEW x \in Extent(top, bottom), x \in Units(b)
             PROVE  FALSE
  OBVIOUS
<1>1. PICK j \in DOMAIN b : b[j].Top <= x /\ x < b[j].Bottom
  BY UnitsProperties
<1>2. b[j].Top \in Int /\ b[j].Bottom \in Int
  BY ListType
<1> QED
  BY <1>1, <1>2 DEF Extent

\* What has to be shown of the list f that AddSpace leaves when it accepts.
IsUnionOf(f, b, top, bottom) ==
  /\ f \in Seq(Buffer)
  /\ Ordered(f)
  /\ Extent(top, bottom) \cap Units(b) = {}
  /\ Units(f) = Units(b) \cup Extent(top, bottom)

\* The extent is kept as a buffer of its own before buffer i, or at the end.
LEMMA AddedApart ==
  ASSUME NEW b \in Seq(Buffer), Ordered(b), NEW i \in 1 .. (Len(b) + 1),
         NEW top \in Nat, NEW bottom \in Nat, top < bottom,
         \A j \in 1 .. (i - 1) : b[j].Bottom < top,
         i \in DOMAIN b => bottom < b[i].Top
  PROVE  IsUnionOf(Insert(b, i, SBuffer(top, bottom)), b, top, bottom)
<1>1. /\ Len(b) \in Nat /\ DOMAIN b = 1 .. Len(b)
      /\ \A j \in DOMAIN b : b[j].Top \in Nat /\ b[j].Bottom \in Nat
  BY ListType
<1>2. ASSUME NEW j \in i .. Len(b)
      PROVE  bottom < b[j].Top
  <2>1. i \in DOMAIN b /\ j \in DOMAIN b
    BY <1>1
  <2>2. j = i \/ (i < j /\ b[i].Bottom < b[j].Top /\ b[i].Top < b[i].Bottom)
    BY <2>1, <1>1 DEF Ordered
  <2> QED
    BY <2>1, <2>2, <1>1
<1>3. ASSUME NEW j \in DOMAIN b
      PROVE  b[j].Bottom <= top \/ bottom <= b[j].Top
  <2>1. j \in 1 .. (i - 1) \/ j \in i .. Len(b)
    BY <1>1
  <2>2. b[j].Bottom < top \/ bottom < b[j].Top
    BY <2>1, <1>2
  <2> QED
    BY <2>2, <1>1
<1>4. Extent(top, bottom) \cap Units(b) = {}
  BY <1>3, GapIsUnused
<1> QED
  BY <1>2, <1>4, InsertOrdered DEF IsUnionOf

\* The extent is joined to buffer i, which becomes [t, e).
LEMMA AddedJoined ==
  ASSUME NEW b \in Seq(Buffer), Ordered(b), NEW i \in 1 .. Len(b),
         NEW top \in Nat, NEW bottom \in Nat, top < bottom,
         NEW t \in Nat, NEW e \in Nat, t < e,
         \A j \in 1 .. (i - 1) : b[j].Bottom < t,
         \A j \in (i + 1) .. Len(b) : e < b[j].Top,
         \/ t = top /\ bottom = b[i].Top /\ e = b[i].Bottom
         \/ t = b[i].Top /\ b[i].Bottom = top /\ e = bottom
  PROVE  IsUnionOf(Replace(b, i, SBuffer(t, e)), b, top, bottom)
<1>1. /\ Len(b) \in Nat /\ DOMAIN b = 1 .. Len(b)
      /\ \A j \in DOMAIN b : b[j].Top \in Nat /\ b[j].Bottom \in Nat
  BY ListType
<1>2. b[i].Top < b[i].Bottom
  BY <1>1 DEF Ordered
<1>4. LET f == Replace(b, i, SBuffer(t, e)) IN
      /\ f \in Seq(Buffer) /\ Ordered(f)
      /\ Units(f) = (Units(b) \ Extent(b[i].Top, b[i].Bottom)) \cup Extent(t, e)
  BY ReplaceOrdered, SMTT(30)
<1>5. Extent(b[i].Top, b[i].Bottom) \subseteq Units(b)
  BY <1>1, BufferUnits
<1>6. Extent(t, e) = Extent(b[i].Top, b[i].Bottom) \cup Extent(top, bottom)
  BY <1>1, <1>2 DEF Extent
<1>7. Extent(top, bottom) \cap Units(b) = {}
  <2>1. ASSUME NEW j \in DOMAIN b
        PROVE  b[j].Bottom <= top \/ bottom <= b[j].Top
    <3>1. j \in 1 .. (i - 1) \/ j = i \/ j \in (i + 1) .. Len(b)
      BY <1>1
    <3>2. b[j].Top \in Int /\ b[j].Bottom \in Int /\ b[i].Top \in Int /\ b[i].Bottom \in Int
      BY <1>1
    <3>3. CASE j \in 1 .. (i - 1)
      <4>1. b[j].Bottom < t
        BY <3>3
      <4> QED
        BY <4>1, <3>2, <1>2
    <3>4. CASE j = i
      BY <3>4, <3>2, <1>2
    <3>5. CASE j \in (i + 1) .. Len(b)
      <4>1. e < b[j].Top
        BY <3>5
      <4> QED
        BY <4>1, <3>2, <1>2
    <3> QED
      BY <3>1, <3>3, <3>4, <3>5
  <2> QED
    BY <2>1, GapIsUnused
<1> QED
  BY <1>4, <1>5, <1>6, <1>7 DEF IsUnionOf

\* Dropping buffer i + 1 after or before replacing buffer i is the same.
LEMMA EraseReplace ==
  ASSUME NEW b \in Seq(Buffer), NEW i \in 1 .. (Len(b) - 1), NEW e \in Buffer,
         NEW r, r = Replace(b, i, e), NEW g, g = Erase(b, i + 1)
  PROVE  Erase(r, i + 1) = Replace(g, i, e)
<1>1. Len(b) \in Nat /\ DOMAIN b = 1 .. Len(b) /\ i + 1 \in 1 .. Len(b) /\ i \in 1 .. Len(b)
  BY ListType
<1>2. /\ r \in Seq(Buffer) /\ Len(r) = Len(b)
      /\ r[i] = e
      /\ \A j \in DOMAIN b \ {i} : r[j] = b[j]
  <2>1. LET f == Replace(b, i, e) IN
        /\ f \in Seq(Buffer) /\ Len(f) = Len(b)
        /\ f[i] = e
        /\ \A j \in DOMAIN b \ {i} : f[j] = b[j]
    BY ONLY <1>1, b \in Seq(Buffer), e \in Buffer, ReplaceProperties
  <2> QED
    BY <2>1
<1>3. /\ g \in Seq(Buffer)
      /\ DOMAIN g = 1 .. (Len(b) - 1)
      /\ \A j \in 1 .. ((i + 1) - 1) : g[j] = b[j]
      /\ \A j \in (i + 1) .. (Len(b) - 1) : g[j] = b[j + 1]
  BY <1>1, EraseProperties
<1>4. Erase(r, i + 1) = [j \in 1 .. (Len(b) - 1) |-> IF j < i + 1 THEN r[j] ELSE r[j + 1]]
  BY <1>2 DEF Erase
<1>5. Replace(g, i, e) = [j \in 1 .. (Len(b) - 1) |-> IF j = i THEN e ELSE g[j]]
  BY <1>3 DEF Replace
<1>6. ASSUME NEW j \in 1 .. (Len(b) - 1)
      PROVE  (IF j < i + 1 THEN r[j] ELSE r[j + 1]) = (IF j = i THEN e ELSE g[j])
  <2>1. CASE j = i
    BY <2>1, <1>2
  <2>2. CASE j < i
    <3>1. j \in DOMAIN b \ {i} /\ j \in 1 .. ((i + 1) - 1) /\ j < i + 1
      BY <2>2, <1>1
    <3>2. r[j] = b[j] /\ g[j] = b[j]
      BY <3>1, <1>2, <1>3
    <3> QED
      BY <3>1, <3>2, <2>2
  <2>3. CASE i < j
    <3>1. j + 1 \in DOMAIN b \ {i} /\ j \in (i + 1) .. (Len(b) - 1) /\ ~(j < i + 1)
      BY <2>3, <1>1
    <3>2. r[j + 1] = b[j + 1] /\ g[j] = b[j + 1]
      BY <3>1, <1>2, <1>3
    <3> QED
      BY <3>1, <3>2, <2>3
  <2> QED
    BY <2>1, <2>2, <2>3
<1> QED
  BY <1>4, <1>5, <1>6

\* The extent fills the gap between buffer i and the next: the two become one.
LEMMA AddedBetween ==
  ASSUME NEW b \in Seq(Buffer), Ordered(b), NEW i \in 1 .. (Len(b) - 1),
         NEW top \in Nat, NEW bottom \in Nat, top < bottom,
         top = b[i].Bottom, bottom = b[i + 1].Top,
         NEW g, g = Erase(b, i + 1),
         NEW t, t = b[i].Top, NEW u, u = b[i + 1].Bottom
  PROVE  IsUnionOf(Replace(g, i, SBuffer(t, u)), b, top, bottom)
<1> DEFINE f == Replace(g, i, SBuffer(t, u))
<1>1. /\ Len(b) \in Nat /\ DOMAIN b = 1 .. Len(b)
      /\ \A j \in DOMAIN b : b[j].Top \in Nat /\ b[j].Bottom \in Nat
  BY ListType
<1>2. i \in DOMAIN b /\ i + 1 \in DOMAIN b /\ i + 1 \in 1 .. Len(b)
  BY <1>1
<1>3. t \in Nat /\ u \in Nat
  BY <1>1, <1>2
<1>4. /\ t < top /\ bottom < u
      /\ \A j \in DOMAIN b : j < i => b[j].Bottom < t
      /\ \A j \in DOMAIN b : i + 1 < j => u < b[j].Top
  BY <1>1, <1>2 DEF Ordered
<1>5. /\ g \in Seq(Buffer) /\ Ordered(g)
      /\ Units(g) = Units(b) \ Extent(bottom, u)
  BY <1>2, EraseOrdered
<1>6. /\ Len(g) = Len(b) - 1
      /\ \A j \in 1 .. ((i + 1) - 1) : g[j] = b[j]
      /\ \A j \in (i + 1) .. (Len(b) - 1) : g[j] = b[j + 1]
  BY <1>2, EraseProperties
<1>7. i \in 1 .. Len(g) /\ g[i].Top = t /\ g[i].Bottom = top
  <2>1. i \in 1 .. ((i + 1) - 1) /\ i \in 1 .. (Len(b) - 1)
    BY <1>1
  <2> QED
    BY <2>1, <1>6
<1>8. /\ f \in Seq(Buffer) /\ Ordered(f)
      /\ Units(f) = (Units(g) \ Extent(t, top)) \cup Extent(t, u)
  <2>1. t < u
    BY <1>3, <1>4
  <2>2. ASSUME NEW j \in 1 .. (i - 1)
        PROVE  g[j].Bottom < t
    <3>1. j \in DOMAIN b /\ j < i /\ g[j] = b[j]
      <4>1. j \in DOMAIN b /\ j < i /\ j \in 1 .. ((i + 1) - 1)
        BY <1>1
      <4> QED
        BY <4>1, <1>6
    <3> QED
      BY <3>1, <1>4
  <2>3. ASSUME NEW j \in (i + 1) .. Len(g)
        PROVE  u < g[j].Top
    <3>1. g[j] = b[j + 1] /\ j + 1 \in DOMAIN b /\ i + 1 < j + 1
      BY <1>1, <1>6
    <3> QED
      BY <3>1, <1>4
  <2> QED
    BY ONLY <1>3, <1>5, <1>7, <2>1, <2>2, <2>3, ReplaceOrdered, SMTT(30)
<1>9. Extent(t, top) \subseteq Units(b) /\ Extent(bottom, u) \subseteq Units(b)
  BY <1>2, BufferUnits
<1>10. Extent(t, u) = Extent(t, top) \cup Extent(top, bottom) \cup Extent(bottom, u)
  BY <1>3, <1>4 DEF Extent
<1>11. Extent(top, bottom) \cap Units(b) = {}
  <2>1. ASSUME NEW j \in DOMAIN b
        PROVE  b[j].Bottom <= top \/ bottom <= b[j].Top
    <3>1. /\ j < i => b[j].Bottom < t
          /\ i + 1 < j => u < b[j].Top
      BY <1>4
    <3>2. b[j].Top \in Int /\ b[j].Bottom \in Int /\ j \in Int
      BY <1>1
    <3> QED
      BY <3>1, <3>2, <1>1, <1>2, <1>3, <1>4
  <2> QED
    BY <2>1, GapIsUnused
<1>12. Units(f) = Units(b) \cup Extent(top, bottom)
  <2> HIDE DEF f
  <2> QED
    BY <1>5, <1>8, <1>9, <1>10
<1> QED
  BY <1>8, <1>11, <1>12 DEF IsUnionOf

LEMMA LastOrBefore ==
  ASSUME NEW n \in Nat, NEW j \in 1 .. n
  PROVE  j \in 1 .. (n - 1) \/ j = n
  OBVIOUS

\* AddSpace with a non-empty extent that swallows no buffer: it is refused if one
\* of its units is free already, and otherwise becomes free; the list keeps its
\* form.
LEMMA AddedCorrect ==
  ASSUME NEW b \in Seq(Buffer), Ordered(b),
         NEW top \in Nat, NEW bottom \in Nat, top < bottom,
         \A j \in DOMAIN b : ~(top < b[j].Top /\ b[j].Bottom < bottom)
  PROVE  /\ Accepted(b, top, bottom) => IsUnionOf(Added(b, top, bottom), b, top, bottom)
         /\ ~Accepted(b, top, bottom) => /\ Added(b, top, bottom) = b
                                         /\ Extent(top, bottom) \cap Units(b) # {}
<1> DEFINE stops == AddStops(b, top, bottom)
           i == First(stops)
<1>1. /\ Len(b) \in Nat /\ DOMAIN b = 1 .. Len(b)
      /\ \A j \in DOMAIN b : b[j].Top \in Nat /\ b[j].Bottom \in Nat
  BY ListType
<1>2. CASE stops = {}
  <2>1. \A j \in 1 .. Len(b) : j \notin stops
    BY <1>2
  <2> DEFINE n == Len(b)
  <2>2. n \in 0 .. Len(b)
    BY <1>1
  <2>3. /\ \A j \in 1 .. (n - 1) : b[j].Bottom < top
        /\ \A j \in 1 .. n : b[j].Bottom <= top
        /\ n > 0 /\ b[n].Bottom = top => n < Len(b) /\ bottom > b[n + 1].Top
    BY <2>1, <2>2, PassedBuffers
  <2>4. ASSUME NEW j \in 1 .. Len(b)
        PROVE  b[j].Bottom < top
    <3>1. j \in DOMAIN b /\ j \in 1 .. n /\ (j \in 1 .. (n - 1) \/ j = n)
      <4>1. j \in DOMAIN b
        BY <1>1
      <4>2. j \in 1 .. (n - 1) \/ j = n
        BY <1>1, LastOrBefore, Zenon
      <4> QED
        BY <4>1, <4>2
    <3>2. b[j].Bottom \in Int
      BY <1>1, <3>1
    <3> QED
      BY <2>3, <3>1, <3>2, <1>1
  <2>5. IsUnionOf(Insert(b, Len(b) + 1, SBuffer(top, bottom)), b, top, bottom)
    <3>1. /\ Len(b) + 1 \in 1 .. (Len(b) + 1) /\ Len(b) + 1 \notin DOMAIN b
          /\ (Len(b) + 1) - 1 = Len(b)
      BY <1>1
    <3> QED
      BY <2>4, <3>1, AddedApart
  <2> QED
    BY <2>5, <1>2 DEF Added, Accepted
<1>3. CASE stops # {}
  <2>1. i \in stops /\ \A j \in stops : i <= j
    <3>1. stops \subseteq Nat
      BY <1>1 DEF AddStops
    <3> HIDE DEF stops
    <3> QED
      BY <3>1, <1>3, FirstProperties
  <2>2. i \in DOMAIN b /\ i \in 1 .. Len(b)
    BY <2>1, <1>1 DEF AddStops
  <2>3. \A j \in 1 .. (i - 1) : j \notin stops
    BY <2>1, <2>2, <1>1
  <2>4. \/ Overlap(b[i], top, bottom)
        \/ bottom <= b[i].Top
        \/ Extends(b, i, top, bottom)
    BY <2>1 DEF AddStops
  <2> HIDE DEF stops, i
  <2>5. CASE Overlap(b[i], top, bottom)
    <3>1. Extent(top, bottom) \cap Units(b) # {}
      BY <2>2, <2>5, RefusedOverlaps
    <3>2. Added(b, top, bottom) = b
      BY <1>3, <2>5 DEF Added, AddedAt, stops, i
    <3>3. ~Accepted(b, top, bottom)
      BY <1>3, <2>5 DEF Accepted, stops, i
    <3> QED
      BY <3>1, <3>2, <3>3
  <2>6. CASE ~Overlap(b[i], top, bottom)
    <3>1. /\ b[i].Top \in Int /\ b[i].Bottom \in Int /\ b[i].Top < b[i].Bottom
          /\ \A j \in DOMAIN b : j < i => b[j].Bottom < b[i].Top
      BY <1>1, <2>2 DEF Ordered
    <3>2. ASSUME NEW j \in 1 .. (i - 1)
          PROVE  b[j].Bottom < top
      <4> DEFINE n == i - 1
      <4>1. n \in 0 .. Len(b) /\ n > 0 /\ n + 1 = i /\ n \in DOMAIN b /\ n < i
        BY <1>1, <2>2
      <4>2. \A k \in 1 .. n : k \notin AddStops(b, top, bottom)
        BY <2>3 DEF stops
      <4> HIDE DEF n
      <4>3. /\ \A k \in 1 .. n : b[k].Bottom <= top
            /\ \A k \in 1 .. (n - 1) : b[k].Bottom < top
            /\ n > 0 /\ b[n].Bottom = top => n < Len(b) /\ bottom > b[n + 1].Top
        BY <4>1, <4>2, PassedBuffers
      <4>4. b[n].Bottom = top => bottom > b[i].Top
        BY <4>1, <4>3
      <4>5. b[n].Bottom < b[i].Top
        BY <3>1, <4>1
      <4>6. b[n].Bottom # top
        BY <2>4, <2>6, <3>1, <4>4, <4>5 DEF Extends
      <4>7. b[n].Bottom \in Int /\ b[n].Bottom <= top
        BY <1>1, <4>1, <4>3
      <4>8. j = n \/ j \in 1 .. (n - 1)
        BY <1>1, <2>2 DEF n
      <4> QED
        BY <4>3, <4>6, <4>7, <4>8
    <3>3. Accepted(b, top, bottom) /\ Added(b, top, bottom) = AddedAt(b, i, top, bottom)
      BY <1>3, <2>6 DEF Accepted, Added, stops, i
    <3>4. IsUnionOf(AddedAt(b, i, top, bottom), b, top, bottom)
      <4>1. CASE bottom < b[i].Top
        <5>1. IsUnionOf(Insert(b, i, SBuffer(top, bottom)), b, top, bottom)
          <6>1. i \in 1 .. (Len(b) + 1)
            BY <1>1, <2>2
          <6> QED
            BY <3>2, <4>1, <6>1, AddedApart
        <5> QED
          BY <4>1, <5>1, <2>6 DEF AddedAt
      <4>2. CASE bottom = b[i].Top
        <5>1. \A j \in 1 .. (i - 1) : b[j].Bottom < top
          BY <3>2
        <5>2. ASSUME NEW j \in (i + 1) .. Len(b)
              PROVE  b[i].Bottom < b[j].Top
          BY <1>1, <2>2 DEF Ordered
        <5>3. top < b[i].Bottom /\ b[i].Bottom \in Nat
          BY <1>1, <2>2, <3>1, <4>2
        <5>4. IsUnionOf(Replace(b, i, SBuffer(top, b[i].Bottom)), b, top, bottom)
          BY <2>2, <4>2, <5>1, <5>2, <5>3, AddedJoined
        <5>5. AddedAt(b, i, top, bottom) = [b EXCEPT ![i].Top = top]
          BY <2>6, <4>2, <3>1 DEF AddedAt
        <5>6. [b EXCEPT ![i].Top = top] = Replace(b, i, SBuffer(top, b[i].Bottom))
          BY <2>2, TopMoved, Zenon
        <5> QED
          BY <5>4, <5>5, <5>6, Zenon
      <4>3. CASE b[i].Top < bottom
        <5>1. top = b[i].Bottom /\ (i = Len(b) \/ bottom <= b[i + 1].Top)
          BY <2>4, <2>6, <4>3, <3>1 DEF Extends
        <5>2. b[i].Top < bottom /\ b[i].Top \in Nat
          BY <4>3, <1>1, <2>2
        <5>3. ASSUME NEW j \in 1 .. (i - 1)
              PROVE  b[j].Bottom < b[i].Top
          <6>1. j \in DOMAIN b /\ j < i
            BY <1>1, <2>2
          <6> QED
            BY <3>1, <6>1
        <5>4. CASE i = Len(b) \/ bottom < b[i + 1].Top
          <6>1. ASSUME NEW j \in (i + 1) .. Len(b)
                PROVE  bottom < b[j].Top
            <7>1. i + 1 \in DOMAIN b /\ j \in DOMAIN b /\ i # Len(b)
              BY <1>1, <2>2
            <7>2. bottom < b[i + 1].Top
              BY <5>4, <7>1
            <7>3. j = i + 1 \/ i + 1 < j
              BY <1>1, <2>2
            <7>4. i + 1 < j => b[i + 1].Top < b[i + 1].Bottom /\ b[i + 1].Bottom < b[j].Top
              BY <7>1 DEF Ordered
            <7>5. b[i + 1].Top \in Int /\ b[i + 1].Bottom \in Int /\ b[j].Top \in Int
              BY <1>1, <7>1
            <7> QED
              BY <7>2, <7>3, <7>4, <7>5
          <6>2. IsUnionOf(Replace(b, i, SBuffer(b[i].Top, bottom)), b, top, bottom)
            BY <2>2, <5>1, <5>2, <5>3, <6>1, AddedJoined
          <6>3. AddedAt(b, i, top, bottom) = [b EXCEPT ![i].Bottom = bottom]
            BY <2>6, <4>3, <3>1, <5>4 DEF AddedAt
          <6>4. [b EXCEPT ![i].Bottom = bottom] = Replace(b, i, SBuffer(b[i].Top, bottom))
            BY <2>2, BottomMoved, Zenon
          <6> QED
            BY <6>2, <6>3, <6>4, Zenon
        <5>5. CASE i # Len(b) /\ ~(bottom < b[i + 1].Top)
          <6>1. i \in 1 .. (Len(b) - 1) /\ i + 1 \in DOMAIN b
            BY <1>1, <2>2, <5>5
          <6>2. bottom = b[i + 1].Top /\ b[i + 1].Bottom \in Nat
            <7>1. b[i + 1].Top \in Int /\ b[i + 1].Bottom \in Nat
              BY <1>1, <6>1
            <7> QED
              BY <5>1, <5>5, <7>1
          <6> DEFINE e == SBuffer(b[i].Top, b[i + 1].Bottom)
          <6>3. IsUnionOf(Replace(Erase(b, i + 1), i, e), b, top, bottom)
            BY <5>1, <6>1, <6>2, AddedBetween
          <6>4. e \in Buffer
            BY <5>2, <6>2 DEF SBuffer, Buffer
          <6> HIDE DEF e
          <6>5. Erase(Replace(b, i, e), i + 1) = Replace(Erase(b, i + 1), i, e)
            BY <6>1, <6>4, EraseReplace
          <6>6. AddedAt(b, i, top, bottom)
                  = Erase([b EXCEPT ![i].Bottom = b[i + 1].Bottom], i + 1)
            BY <2>6, <4>3, <3>1, <5>5 DEF AddedAt
          <6>7. [b EXCEPT ![i].Bottom = b[i + 1].Bottom] = Replace(b, i, e)
            <7>1. [b EXCEPT ![i].Bottom = b[i + 1].Bottom]
                    = Replace(b, i, SBuffer(b[i].Top, b[i + 1].Bottom))
              BY <2>2, BottomMoved, Zenon
            <7> QED
              BY <7>1 DEF e
          <6> QED
            BY <6>3, <6>5, <6>6, <6>7
        <5> QED
          BY <5>4, <5>5
      <4> QED
        BY <3>1, <4>1, <4>2, <4>3
    <3> QED
      BY <3>3, <3>4
  <2> QED
    BY <2>5, <2>6
<1> QED
  BY <1>2, <1>3

-----------------------------------------------------------------------------
(* SubSpace and GetSpace *)

\* Consecutive free units lie in one buffer, since buffers do not touch.
LEMMA InOneBuffer ==
  ASSUME NEW b \in Seq(Buffer), Ordered(b), NEW top \in Units(b), NEW bottom \in Int,
         Extent(top, bottom) \subseteq Units(b)
  PROVE  \E j \in DOMAIN b : b[j].Top <= top /\ bottom <= b[j].Bottom /\ top < b[j].Bottom
<1>1. /\ Len(b) \in Nat /\ DOMAIN b = 1 .. Len(b)
      /\ \A j \in DOMAIN b : b[j].Top \in Int /\ b[j].Bottom \in Int
  BY ListType
<1>2. PICK j \in DOMAIN b : b[j].Top <= top /\ top < b[j].Bottom
  BY UnitsProperties
<1>3. top \in Int
  BY UnitsProperties
<1>4. ASSUME ~(bottom <= b[j].Bottom)
      PROVE  FALSE
  <2> DEFINE x == b[j].Bottom
  <2>1. x \in Extent(top, bottom)
    BY <1>1, <1>2, <1>3, <1>4 DEF Extent
  <2>2. PICK k \in DOMAIN b : b[k].Top <= x /\ x < b[k].Bottom
    BY <2>1, UnitsProperties
  <2>3. k \in Int /\ j \in Int /\ b[k].Top \in Int /\ b[k].Bottom \in Int /\ b[j].Top \in Int /\ x \in Int
    BY <1>1
  <2>4. /\ j < k => x < b[k].Top
        /\ k < j => b[k].Bottom < b[j].Top
        /\ b[j].Top < x
    BY DEF Ordered
  <2>5. j # k
    BY <2>2, <2>3
  <2> QED
    BY <2>2, <2>3, <2>4, <2>5
<1> QED
  BY <1>2, <1>4

\* SubSpace with a non-empty extent refuses exactly when one of its units is not
\* free.
LEMMA RefusedIsUsed ==
  ASSUME NEW b \in Seq(Buffer), Ordered(b),
         NEW top \in Nat, NEW bottom \in Nat, top < bottom
  PROVE  SubStops(b, top, bottom) = {} <=> ~(Extent(top, bottom) \subseteq Units(b))
<1>1. ASSUME Extent(top, bottom) \subseteq Units(b)
      PROVE  SubStops(b, top, bottom) # {}
  <2>1. top \in Units(b)
    BY <1>1 DEF Extent
  <2> QED
    BY <1>1, <2>1, InOneBuffer DEF SubStops
<1>2. ASSUME NEW j \in SubStops(b, top, bottom)
      PROVE  Extent(top, bottom) \subseteq Units(b)
  <2>1. j \in DOMAIN b /\ b[j].Top <= top /\ bottom <= b[j].Bottom
    BY DEF SubStops
  <2>2. b[j].Top \in Int /\ b[j].Bottom \in Int
    BY <2>1, ListType
  <2>3. Extent(top, bottom) \subseteq Extent(b[j].Top, b[j].Bottom)
    BY <2>1, <2>2 DEF Extent
  <2> QED
    BY <2>1, <2>3, BufferUnits
<1> QED
  BY <1>1, <1>2

\* What has to be shown of the list f that SubSpace leaves when it accepts.
IsDifferenceOf(f, b, top, bottom) ==
  /\ f \in Seq(Buffer)
  /\ Ordered(f)
  /\ Units(f) = Units(b) \ Extent(top, bottom)

\* One end of buffer i is cut off.
LEMMA SubtractedEnd ==
  ASSUME NEW b \in Seq(Buffer), Ordered(b), NEW i \in 1 .. Len(b),
         NEW t \in Nat, NEW e \in Nat,
         b[i].Top <= t, t < e, e <= b[i].Bottom
  PROVE  LET f == Replace(b, i, SBuffer(t, e)) IN
         /\ f \in Seq(Buffer) /\ Ordered(f)
         /\ Units(f) = (Units(b) \ Extent(b[i].Top, b[i].Bottom)) \cup Extent(t, e)
<1>1. /\ Len(b) \in Nat /\ DOMAIN b = 1 .. Len(b)
      /\ \A j \in DOMAIN b : b[j].Top \in Int /\ b[j].Bottom \in Int
  BY ListType
<1>2. ASSUME NEW j \in 1 .. (i - 1)
      PROVE  b[j].Bottom < t
  <2>1. j \in DOMAIN b /\ i \in DOMAIN b /\ j < i
    BY <1>1
  <2>2. b[j].Bottom < b[i].Top
    BY <2>1 DEF Ordered
  <2> QED
    BY <1>1, <2>1, <2>2
<1>3. ASSUME NEW j \in (i + 1) .. Len(b)
      PROVE  e < b[j].Top
  <2>1. j \in DOMAIN b /\ i \in DOMAIN b /\ i < j
    BY <1>1
  <2>2. b[i].Bottom < b[j].Top
    BY <2>1 DEF Ordered
  <2> QED
    BY <1>1, <2>1, <2>2
<1> QED
  BY <1>2, <1>3, ReplaceOrdered, SMTT(30)

\* The middle of buffer i is cut out.
LEMMA SubtractedMiddle ==
  ASSUME NEW b \in Seq(Buffer), Ordered(b), NEW i \in 1 .. Len(b),
         NEW top \in Nat, NEW bottom \in Nat,
         NEW t, t = b[i].Top, NEW u, u = b[i].Bottom,
         t < top, top < bottom, bottom < u,
         NEW r, r = Replace(b, i, SBuffer(t, top))
  PROVE  IsDifferenceOf(Insert(r, i + 1, SBuffer(bottom, u)), b, top, bottom)
<1> DEFINE f == Insert(r, i + 1, SBuffer(bottom, u))
<1>1. /\ Len(b) \in Nat /\ DOMAIN b = 1 .. Len(b) /\ i \in DOMAIN b
      /\ \A j \in DOMAIN b : b[j].Top \in Nat /\ b[j].Bottom \in Nat
  BY ListType
<1>2. t \in Nat /\ u \in Nat
  BY <1>1
<1>3. /\ r \in Seq(Buffer) /\ Ordered(r)
      /\ Units(r) = (Units(b) \ Extent(t, u)) \cup Extent(t, top)
  <2>1. LET g == Replace(b, i, SBuffer(t, top)) IN
        /\ g \in Seq(Buffer) /\ Ordered(g)
        /\ Units(g) = (Units(b) \ Extent(b[i].Top, b[i].Bottom)) \cup Extent(t, top)
    <3>1. b[i].Top <= t /\ top <= b[i].Bottom
      BY <1>2
    <3> QED
      BY <1>2, <3>1, SubtractedEnd, SMTT(30)
  <2> QED
    BY <2>1
<1>4. /\ Len(r) = Len(b)
      /\ r[i] = SBuffer(t, top)
      /\ \A j \in DOMAIN b \ {i} : r[j] = b[j]
  <2>1. SBuffer(t, top) \in Buffer
    BY <1>2 DEF SBuffer, Buffer
  <2>2. LET g == Replace(b, i, SBuffer(t, top)) IN
        /\ Len(g) = Len(b)
        /\ g[i] = SBuffer(t, top)
        /\ \A j \in DOMAIN b \ {i} : g[j] = b[j]
    BY ONLY b \in Seq(Buffer), i \in 1 .. Len(b), <2>1, ReplaceProperties
  <2> QED
    BY <2>2
<1>5. ASSUME NEW j \in 1 .. i
      PROVE  r[j].Bottom < bottom
  <2>1. CASE j = i
    BY <2>1, <1>4 DEF SBuffer
  <2>2. CASE j # i
    <3>1. j \in DOMAIN b \ {i} /\ j < i
      BY <2>2, <1>1
    <3>2. r[j] = b[j] /\ b[j].Bottom < t
      BY <3>1, <1>1, <1>4 DEF Ordered
    <3>3. b[j].Bottom \in Int
      BY <3>1, <1>1
    <3> QED
      BY <3>2, <3>3, <1>2
  <2> QED
    BY <2>1, <2>2
<1>6. ASSUME NEW j \in (i + 1) .. Len(r)
      PROVE  u < r[j].Top
  <2>1. j \in DOMAIN b \ {i} /\ i < j
    BY <1>1, <1>4
  <2> QED
    BY <2>1, <1>1, <1>4 DEF Ordered
<1>7. /\ f \in Seq(Buffer) /\ Ordered(f)
      /\ Units(f) = Units(r) \cup Extent(bottom, u)
  <2>1. i + 1 \in 1 .. (Len(r) + 1) /\ (i + 1) - 1 = i
    BY <1>1, <1>4
  <2>2. \A j \in 1 .. ((i + 1) - 1) : r[j].Bottom < bottom
    BY <2>1, <1>5
  <2> QED
    BY ONLY bottom \in Nat, bottom < u,
            <1>2, <1>3, <1>6, <2>1, <2>2, InsertOrdered
<1>8. Extent(t, u) \subseteq Units(b)
  BY <1>1, BufferUnits
<1>9. /\ Extent(t, u) = Extent(t, top) \cup Extent(top, bottom) \cup Extent(bottom, u)
      /\ Extent(t, top) \cap Extent(top, bottom) = {}
      /\ Extent(bottom, u) \cap Extent(top, bottom) = {}
  BY <1>2 DEF Extent
<1>10. Units(f) = Units(b) \ Extent(top, bottom)
  <2> HIDE DEF f
  <2> QED
    BY <1>3, <1>7, <1>8, <1>9
<1> QED
  BY <1>7, <1>10 DEF IsDifferenceOf

\* SubSpace at a buffer that holds the extent: exactly its units go.
LEMMA SubtractedCorrect ==
  ASSUME NEW b \in Seq(Buffer), Ordered(b),
         NEW top \in Nat, NEW bottom \in Nat, top < bottom,
         NEW i \in SubStops(b, top, bottom)
  PROVE  IsDifferenceOf(SubtractedAt(b, i, top, bottom), b, top, bottom)
<1> DEFINE t == b[i].Top
           u == b[i].Bottom
           f == SubtractedAt(b, i, top, bottom)
<1>1. i \in DOMAIN b /\ i \in 1 .. Len(b) /\ t <= top /\ bottom <= u
  BY ListType DEF SubStops
<1>2. t \in Nat /\ u \in Nat
  BY <1>1, ListType
<1>3. Extent(t, u) \subseteq Units(b)
  BY <1>1, BufferUnits
<1>4. CASE top = t /\ bottom = u
  <2>1. f = Erase(b, i)
    BY <1>4 DEF SubtractedAt
  <2>2. IsDifferenceOf(Erase(b, i), b, t, u)
    BY <1>1, EraseOrdered DEF IsDifferenceOf
  <2> QED
    BY <1>4, <2>1, <2>2
<1>5. CASE top = t /\ bottom # u
  <2>1. f = Replace(b, i, SBuffer(bottom, u))
    <3>1. f = [b EXCEPT ![i].Top = bottom]
      BY <1>5 DEF SubtractedAt
    <3>2. [b EXCEPT ![i].Top = bottom] = Replace(b, i, SBuffer(bottom, u))
      BY <1>1, TopMoved, Zenon
    <3> QED
      BY <3>1, <3>2, Zenon
  <2>2. t <= bottom /\ bottom < u /\ u <= u
    BY <1>1, <1>2, <1>5
  <2>3. LET g == Replace(b, i, SBuffer(bottom, u)) IN
        /\ g \in Seq(Buffer) /\ Ordered(g)
        /\ Units(g) = (Units(b) \ Extent(t, u)) \cup Extent(bottom, u)
    BY ONLY b \in Seq(Buffer), Ordered(b), bottom \in Nat,
            <1>1, <1>2, <2>2, SubtractedEnd
  <2>4. /\ Extent(t, u) = Extent(top, bottom) \cup Extent(bottom, u)
        /\ Extent(bottom, u) \cap Extent(top, bottom) = {}
    BY <1>2, <1>5, <2>2 DEF Extent
  <2> HIDE DEF f
  <2>5. f \in Seq(Buffer) /\ Ordered(f)
    BY <2>1, <2>3
  <2>6. Units(f) = Units(b) \ Extent(top, bottom)
    <3>1. Units(f) = (Units(b) \ Extent(t, u)) \cup Extent(bottom, u)
      BY <2>1, <2>3
    <3> HIDE DEF t, u
    <3> QED
      BY <3>1, <2>4, <1>3
  <2> QED
    BY <2>5, <2>6 DEF IsDifferenceOf, f
<1>6. CASE top # t /\ bottom = u
  <2>1. f = Replace(b, i, SBuffer(t, top))
    <3>1. f = [b EXCEPT ![i].Bottom = top]
      BY <1>6 DEF SubtractedAt
    <3>2. [b EXCEPT ![i].Bottom = top] = Replace(b, i, SBuffer(t, top))
      BY <1>1, BottomMoved, Zenon
    <3> QED
      BY <3>1, <3>2, Zenon
  <2>2. t <= t /\ t < top /\ top <= u
    BY <1>1, <1>2, <1>6
  <2>3. LET g == Replace(b, i, SBuffer(t, top)) IN
        /\ g \in Seq(Buffer) /\ Ordered(g)
        /\ Units(g) = (Units(b) \ Extent(t, u)) \cup Extent(t, top)
    BY ONLY b \in Seq(Buffer), Ordered(b), top \in Nat,
            <1>1, <1>2, <2>2, SubtractedEnd
  <2>4. /\ Extent(t, u) = Extent(t, top) \cup Extent(top, bottom)
        /\ Extent(t, top) \cap Extent(top, bottom) = {}
    BY <1>2, <1>6, <2>2 DEF Extent
  <2> HIDE DEF f
  <2>5. f \in Seq(Buffer) /\ Ordered(f)
    BY <2>1, <2>3
  <2>6. Units(f) = Units(b) \ Extent(top, bottom)
    <3>1. Units(f) = (Units(b) \ Extent(t, u)) \cup Extent(t, top)
      BY <2>1, <2>3
    <3> HIDE DEF t, u
    <3> QED
      BY <3>1, <2>4, <1>3
  <2> QED
    BY <2>5, <2>6 DEF IsDifferenceOf, f
<1>7. CASE top # t /\ bottom # u
  <2>1. f = Insert([b EXCEPT ![i].Bottom = top], i + 1, SBuffer(bottom, u))
    BY <1>7 DEF SubtractedAt
  <2>2. [b EXCEPT ![i].Bottom = top] = Replace(b, i, SBuffer(t, top))
    BY <1>1, BottomMoved, Zenon
  <2>3. t < top /\ bottom < u
    BY <1>1, <1>2, <1>7
  <2>4. IsDifferenceOf(Insert(Replace(b, i, SBuffer(t, top)), i + 1, SBuffer(bottom, u)),
                       b, top, bottom)
    BY <1>1, <2>3, SubtractedMiddle
  <2> QED
    BY <2>1, <2>2, <2>4, Zenon
<1> QED
  BY <1>4, <1>5, <1>6, <1>7

\* GetSpace finds the lowest place where s units are free, if there is one.
LEMMA FirstFitCorrect ==
  ASSUME buffers \in Seq(Buffer), Ordered(buffers), NEW s \in Nat
  PROVE  /\ Free!Fits(s) = {} => FirstFit(s) = -1
         /\ Free!Fits(s) # {} => /\ FirstFit(s) \in Free!Fits(s)
                                 /\ \A o \in Free!Fits(s) : FirstFit(s) <= o
<1> DEFINE i == First(Roomy(s))
<1>1. /\ Len(buffers) \in Nat /\ DOMAIN buffers = 1 .. Len(buffers)
      /\ \A j \in DOMAIN buffers : /\ buffers[j].Top \in Nat
                                   /\ buffers[j].Bottom \in Nat
  BY ListType
<1>2. ASSUME NEW o \in Free!Fits(s)
      PROVE  \E j \in Roomy(s) : buffers[j].Top <= o
  <2>1. o \in Units(buffers) /\ Extent(o, o + s) \subseteq Units(buffers) /\ o \in Int
    BY DEF Free!Fits, Free!Extent, Extent, Units
  <2>2. o + s \in Int
    BY <2>1
  <2>3. PICK j \in DOMAIN buffers : /\ buffers[j].Top <= o
                                    /\ o + s <= buffers[j].Bottom
    BY <2>1, <2>2, InOneBuffer
  <2>4. j \in Roomy(s)
    BY <1>1, <2>1, <2>3 DEF Roomy
  <2> QED
    BY <2>3, <2>4
<1>3. CASE Roomy(s) = {}
  BY <1>2, <1>3 DEF FirstFit
<1>4. CASE Roomy(s) # {}
  <2>1. i \in Roomy(s) /\ \A j \in Roomy(s) : i <= j
    <3>1. Roomy(s) \subseteq Nat
      BY <1>1 DEF Roomy
    <3> QED
      BY <3>1, <1>4, FirstProperties
  <2>2. FirstFit(s) = buffers[i].Top
    BY <1>4 DEF FirstFit
  <2> HIDE DEF i
  <2>3. i \in DOMAIN buffers /\ buffers[i].Bottom - buffers[i].Top >= s
    BY <2>1 DEF Roomy
  <2>4. /\ buffers[i].Top \in Nat /\ buffers[i].Bottom \in Nat
        /\ buffers[i].Top < buffers[i].Bottom
    BY <1>1, <2>3 DEF Ordered
  <2>5. Extent(buffers[i].Top, buffers[i].Bottom) \subseteq Units(buffers)
    BY <2>3, BufferUnits
  <2>6. buffers[i].Top \in Free!Fits(s)
    <3>1. buffers[i].Top \in Extent(buffers[i].Top, buffers[i].Bottom)
      BY <2>4 DEF Extent
    <3>2. Free!Extent(buffers[i].Top, s) \subseteq Extent(buffers[i].Top, buffers[i].Bottom)
      BY <2>3, <2>4 DEF Extent, Free!Extent
    <3> QED
      BY <3>1, <3>2, <2>5 DEF Free!Fits
  <2>7. ASSUME NEW o \in Free!Fits(s)
        PROVE  buffers[i].Top <= o
    <3>1. PICK j \in Roomy(s) : buffers[j].Top <= o
      BY <1>2
    <3>2. j \in DOMAIN buffers /\ i <= j
      BY <2>1, <3>1 DEF Roomy
    <3>3. buffers[i].Top <= buffers[j].Top
      <4>1. i < j => buffers[i].Bottom < buffers[j].Top
        BY <2>3, <3>2 DEF Ordered
      <4> QED
        BY <1>1, <2>3, <2>4, <3>2, <4>1
    <3>4. o \in Int
      BY DEF Free!Fits, Units
    <3> QED
      BY <1>1, <2>4, <3>1, <3>2, <3>3, <3>4
  <2> QED
    BY <2>2, <2>6, <2>7
<1> QED
  BY <1>3, <1>4

-----------------------------------------------------------------------------
(* The actions *)

\* The inductive invariant.  Ordered is what every lemma above needs of the list,
\* and TypeOK what they need of its elements; neither is inductive by itself.
IInv == TypeOK /\ Coalesced

LEMMA InitCorrect == Init => IInv /\ Free!Init
<1> SUFFICES ASSUME Init
             PROVE  IInv /\ Free!Init
  OBVIOUS
<1>1. buffers \in Seq(Buffer) /\ DOMAIN buffers = {}
  BY DEF Init
<1>2. Units(buffers) = {}
  BY <1>1, UnitsProperties
<1> QED
  BY <1>1, <1>2, MaxOffsetAssumption DEF Init, IInv, TypeOK, Coalesced, Ordered, Free!Init

LEMMA AddStep ==
  ASSUME IInv, NEW o \in 0 .. MaxOffset, NEW s \in 0 .. (MaxOffset - o),
         ~Swallows(o, s), AddSpace(o, s)
  PROVE  IInv' /\ Free!Add(o, s)
<1>1. buffers \in Seq(Buffer) /\ Ordered(buffers) /\ found \in -1 .. MaxOffset
  BY DEF IInv, TypeOK, Coalesced
<1>2. o + s \in 0 .. MaxOffset /\ Free!Extent(o, s) = Extent(o, o + s)
  BY MaxOffsetAssumption DEF Free!Extent, Extent
<1>3. CASE s = 0
  <2>1. Free!Extent(o, s) = {}
    BY <1>3 DEF Free!Extent
  <2>2. ok' = TRUE /\ UNCHANGED <<buffers, found>>
    BY <1>3 DEF AddSpace
  <2>3. UNCHANGED Units(buffers)
    BY <2>2
  <2> QED
    BY <1>1, <2>1, <2>2, <2>3 DEF IInv, TypeOK, Coalesced, Free!Add
<1>4. CASE s # 0
  <2>1. o < o + s
    BY <1>4
  <2>2. \A j \in DOMAIN buffers : ~(o < buffers[j].Top /\ buffers[j].Bottom < o + s)
    BY DEF Swallows
  <2>3. /\ buffers' = Added(buffers, o, o + s)
        /\ ok' = Accepted(buffers, o, o + s)
        /\ UNCHANGED found
    BY <1>4 DEF AddSpace, Added, Accepted
  <2>4. /\ Accepted(buffers, o, o + s)
             => IsUnionOf(Added(buffers, o, o + s), buffers, o, o + s)
        /\ ~Accepted(buffers, o, o + s)
             => /\ Added(buffers, o, o + s) = buffers
                /\ Extent(o, o + s) \cap Units(buffers) # {}
    BY <1>1, <1>2, <2>1, <2>2, AddedCorrect
  <2>5. CASE Accepted(buffers, o, o + s)
    <3>1. IsUnionOf(buffers', buffers, o, o + s) /\ ok' = TRUE
      BY <2>3, <2>4, <2>5
    <3> QED
      <4>1. /\ buffers' \in Seq(Buffer) /\ Ordered(buffers')
            /\ Extent(o, o + s) \cap Units(buffers) = {}
            /\ Units(buffers') = Units(buffers) \cup Extent(o, o + s)
        BY <3>1 DEF IsUnionOf
      <4>2. Units(buffers) \subseteq 0 .. (MaxOffset - 1)
        BY <1>1, MaxOffsetAssumption, BoundProperties DEF IInv, TypeOK
      <4>3. Extent(o, o + s) \subseteq 0 .. (MaxOffset - 1)
        BY MaxOffsetAssumption DEF Extent
      <4>4. \A j \in DOMAIN buffers' : buffers'[j].Bottom <= MaxOffset
        BY <4>1, <4>2, <4>3, MaxOffsetAssumption, BoundProperties
      <4> QED
        BY <1>1, <1>2, <2>3, <3>1, <4>1, <4>4 DEF IInv, TypeOK, Coalesced, Free!Add
  <2>6. CASE ~Accepted(buffers, o, o + s)
    <3>1. buffers' = buffers /\ ok' = FALSE /\ Extent(o, o + s) \cap Units(buffers) # {}
      BY <2>3, <2>4, <2>6
    <3>2. UNCHANGED Units(buffers)
      BY <3>1
    <3> QED
      BY <1>1, <1>2, <2>3, <3>1, <3>2 DEF IInv, TypeOK, Coalesced, Free!Add
  <2> QED
    BY <2>5, <2>6
<1> QED
  BY <1>3, <1>4

LEMMA SubStep ==
  ASSUME IInv, NEW o \in 0 .. MaxOffset, NEW s \in 0 .. (MaxOffset - o), SubSpace(o, s)
  PROVE  IInv' /\ Free!Sub(o, s)
<1> DEFINE stops == SubStops(buffers, o, o + s)
<1>1. buffers \in Seq(Buffer) /\ Ordered(buffers) /\ found \in -1 .. MaxOffset
  BY DEF IInv, TypeOK, Coalesced
<1>2. o + s \in 0 .. MaxOffset /\ Free!Extent(o, s) = Extent(o, o + s)
  BY MaxOffsetAssumption DEF Free!Extent, Extent
<1>3. UNCHANGED found
  BY DEF SubSpace
<1>4. CASE s = 0
  <2>1. Free!Extent(o, s) = {}
    BY <1>4 DEF Free!Extent
  <2>2. ok' = TRUE /\ UNCHANGED buffers
    BY <1>4 DEF SubSpace
  <2>3. UNCHANGED Units(buffers)
    BY <2>2
  <2> QED
    BY <1>1, <1>3, <2>1, <2>2, <2>3 DEF IInv, TypeOK, Coalesced, Free!Sub
<1>5. CASE s # 0 /\ stops = {}
  <2>1. o < o + s
    BY <1>5
  <2>2. ~(Extent(o, o + s) \subseteq Units(buffers))
    BY <1>1, <1>2, <1>5, <2>1, RefusedIsUsed
  <2>3. ok' = FALSE /\ UNCHANGED buffers
    BY <1>5 DEF SubSpace
  <2>4. UNCHANGED Units(buffers)
    BY <2>3
  <2> QED
    BY <1>1, <1>2, <1>3, <2>2, <2>3, <2>4 DEF IInv, TypeOK, Coalesced, Free!Sub
<1>6. CASE s # 0 /\ stops # {}
  <2>1. o < o + s
    BY <1>6
  <2>2. First(stops) \in stops
    <3>1. stops \subseteq Nat
      BY <1>1, ListType DEF SubStops
    <3> QED
      BY <3>1, <1>6, FirstProperties
  <2>3. buffers' = SubtractedAt(buffers, First(stops), o, o + s) /\ ok' = TRUE
    BY <1>6 DEF SubSpace
  <2>4. IsDifferenceOf(buffers', buffers, o, o + s)
    BY <1>1, <1>2, <2>1, <2>2, <2>3, SubtractedCorrect
  <2>5. Extent(o, o + s) \subseteq Units(buffers)
    BY <1>1, <1>2, <1>6, <2>1, RefusedIsUsed
  <2> QED
    <3>1. /\ buffers' \in Seq(Buffer) /\ Ordered(buffers')
          /\ Units(buffers') = Units(buffers) \ Extent(o, o + s)
      BY <2>4 DEF IsDifferenceOf
    <3>2. Units(buffers) \subseteq 0 .. (MaxOffset - 1)
      BY <1>1, MaxOffsetAssumption, BoundProperties DEF IInv, TypeOK
    <3>3. \A j \in DOMAIN buffers' : buffers'[j].Bottom <= MaxOffset
      BY <3>1, <3>2, MaxOffsetAssumption, BoundProperties
    <3> QED
      BY <1>1, <1>2, <1>3, <2>3, <2>5, <3>1, <3>3
      DEF IInv, TypeOK, Coalesced, Free!Sub
<1> QED
  BY <1>4, <1>5, <1>6

LEMMA ClearStep == IInv /\ Clear => IInv' /\ Free!Clear
<1> SUFFICES ASSUME IInv, Clear
             PROVE  IInv' /\ Free!Clear
  OBVIOUS
<1>1. buffers' \in Seq(Buffer) /\ DOMAIN buffers' = {}
  BY DEF Clear
<1>2. Units(buffers)' = {}
  BY <1>1, UnitsProperties
<1> QED
  BY <1>1, <1>2 DEF IInv, TypeOK, Coalesced, Ordered, Clear, Free!Clear

LEMMA GetStep ==
  ASSUME IInv, NEW s \in 0 .. MaxOffset, GetSpace(s)
  PROVE  IInv' /\ Free!Get(s)
<1>1. buffers \in Seq(Buffer) /\ Ordered(buffers) /\ ok \in BOOLEAN
  BY DEF IInv, TypeOK, Coalesced
<1>2. found' = FirstFit(s) /\ UNCHANGED <<buffers, ok>>
  BY DEF GetSpace
<1>3. /\ Free!Fits(s) = {} => FirstFit(s) = -1
      /\ Free!Fits(s) # {} => /\ FirstFit(s) \in Free!Fits(s)
                              /\ \A o \in Free!Fits(s) : FirstFit(s) <= o
  BY <1>1, FirstFitCorrect
<1>4. FirstFit(s) \in -1 .. MaxOffset
  <2>1. Free!Fits(s) \subseteq 0 .. MaxOffset
    <3>1. Units(buffers) \subseteq 0 .. (MaxOffset - 1)
      BY <1>1, MaxOffsetAssumption, BoundProperties DEF IInv, TypeOK
    <3> QED
      BY <3>1, MaxOffsetAssumption DEF Free!Fits
  <2> QED
    BY <1>3, <2>1, MaxOffsetAssumption
<1>5. IInv'
  BY <1>1, <1>2, <1>4 DEF IInv, TypeOK, Coalesced
<1>6. UNCHANGED Units(buffers)
  BY <1>2
<1> QED
  BY <1>2, <1>3, <1>5, <1>6 DEF Free!Get

LEMMA StepCorrect == IInv /\ [Next]_vars => IInv' /\ [Free!Next]_(Free!vars)
<1> SUFFICES ASSUME IInv, [Next]_vars
             PROVE  IInv' /\ [Free!Next]_(Free!vars)
  OBVIOUS
<1>1. ASSUME NEW o \in 0 .. MaxOffset, NEW s \in 0 .. (MaxOffset - o),
             ~Swallows(o, s), AddSpace(o, s)
      PROVE  IInv' /\ Free!Next
  BY <1>1, AddStep DEF Free!Next
<1>2. ASSUME NEW o \in 0 .. MaxOffset, NEW s \in 0 .. (MaxOffset - o), SubSpace(o, s)
      PROVE  IInv' /\ Free!Next
  BY <1>2, SubStep DEF Free!Next
<1>3. CASE Clear
  BY <1>3, ClearStep DEF Free!Next
<1>4. ASSUME NEW s \in 0 .. MaxOffset, GetSpace(s)
      PROVE  IInv' /\ Free!Next
  BY <1>4, GetStep DEF Free!Next
<1>5. CASE UNCHANGED vars
  <2>1. UNCHANGED <<buffers, ok, found>>
    BY <1>5 DEF vars
  <2>2. UNCHANGED Units(buffers)
    BY <2>1
  <2> QED
    BY <2>1, <2>2 DEF IInv, TypeOK, Coalesced, Free!vars
<1> QED
  BY <1>1, <1>2, <1>3, <1>4, <1>5 DEF Next

-----------------------------------------------------------------------------
(* The theorems *)

\* The list, the last answer and the last position found keep their types under
\* every sequence of calls of AddSpace, SubSpace, Clear and GetSpace.
THEOREM TypeCorrect == Spec => []TypeOK
<1>1. IInv => TypeOK
  BY DEF IInv
<1> QED
  BY <1>1, InitCorrect, StepCorrect, PTL DEF Spec

\* The list is always in address order, without an empty buffer and without two
\* that touch: AddSpace merges on both sides whatever the order of the calls.
THEOREM CoalescedInvariant == Spec => []Coalesced
<1>1. IInv => Coalesced
  BY DEF IInv
<1> QED
  BY <1>1, InitCorrect, StepCorrect, PTL DEF Spec

\* CSpace implements the set of free units: every call does to the units what
\* FreeSet says and gives its answer.
THEOREM Refinement == Spec => ImplementsFreeSet
  BY InitCorrect, StepCorrect, PTL DEF Spec, ImplementsFreeSet, Free!Spec
=============================================================================
