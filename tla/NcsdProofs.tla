------------------------------ MODULE NcsdProofs ------------------------------
(***************************************************************************)
(* Images of game cards for every number of partitions and all their       *)
(* sizes, every media unit and set of cards, any number of kills and       *)
(* rebuilds: images are well formed, no reserved partition loses a byte,   *)
(* padding undoes trimming, and an image that is taken apart is made again.*)
(***************************************************************************)
EXTENDS Ncsd, SequenceTheorems, WellFoundedInduction, TLAPS

-----------------------------------------------------------------------------
(* Whole units                                                             *)

Multiple(n, a) == \E k \in Int : n = k * a

LEMMA MultipleModulo ==
  ASSUME NEW n \in Nat, NEW a \in Nat \ {0}
  PROVE  n % a = 0 <=> Multiple(n, a)
<1>1. ASSUME n % a = 0
      PROVE  Multiple(n, a)
  <2>1. n \div a \in Int /\ n = (n \div a) * a
    BY <1>1
  <2> QED
    BY <2>1 DEF Multiple
<1>2. ASSUME Multiple(n, a)
      PROVE  n % a = 0
  <2>1. PICK k \in Int : n = k * a
    BY <1>2 DEF Multiple
  <2>2. (k * a) % a = 0
    OBVIOUS
  <2> QED
    BY <2>1, <2>2
<1> QED
  BY <1>1, <1>2

LEMMA MultipleSum ==
  ASSUME NEW m \in Int, NEW n \in Int, NEW a \in Nat, Multiple(m, a), Multiple(n, a)
  PROVE  Multiple(m + n, a) /\ Multiple(m - n, a)
<1>1. PICK j \in Int : m = j * a
  BY DEF Multiple
<1>2. PICK k \in Int : n = k * a
  BY DEF Multiple
<1>3. m + n = (j + k) * a /\ m - n = (j - k) * a
  BY <1>1, <1>2
<1>4. j + k \in Int /\ j - k \in Int
  OBVIOUS
<1> QED
  BY <1>3, <1>4 DEF Multiple

LEMMA MultipleProduct ==
  ASSUME NEW n \in Int, NEW a \in Nat
  PROVE  Multiple(n * a, a) /\ Multiple(0, a)
<1>1. 0 = 0 * a
  OBVIOUS
<1> QED
  BY <1>1 DEF Multiple

LEMMA MultipleOfMultiple ==
  ASSUME NEW n \in Int, NEW b \in Nat, NEW a \in Nat, Multiple(n, b), Multiple(b, a)
  PROVE  Multiple(n, a)
<1>1. PICK j \in Int : n = j * b
  BY DEF Multiple
<1>2. PICK k \in Int : b = k * a
  BY DEF Multiple
<1>3. n = (j * k) * a
  BY <1>1, <1>2
<1>4. j * k \in Int
  OBVIOUS
<1> QED
  BY <1>3, <1>4 DEF Multiple

\* What is a whole number of units is that number of them.
LEMMA MultipleDivided ==
  ASSUME NEW n \in Nat, NEW a \in Nat \ {0}, Multiple(n, a)
  PROVE  n \div a \in Nat /\ (n \div a) * a = n
<1>1. n % a = 0
  BY MultipleModulo
<1> QED
  BY <1>1

\* Between two whole numbers of units there is room for whole units only.
LEMMA MultiplesApart ==
  ASSUME NEW m \in Int, NEW n \in Int, NEW a \in Nat \ {0},
         Multiple(m, a), Multiple(n, a), m < n + a
  PROVE  m <= n
<1>1. PICK j \in Int : m = j * a
  BY DEF Multiple
<1>2. PICK k \in Int : n = k * a
  BY DEF Multiple
<1>3. CASE j <= k
  BY <1>1, <1>2, <1>3
<1>4. CASE j >= k + 1
  <2>1. j * a >= (k + 1) * a
    BY <1>4
  <2>2. (k + 1) * a = k * a + a
    OBVIOUS
  <2> QED
    BY <1>1, <1>2, <2>1, <2>2
<1> QED
  BY <1>3, <1>4

LEMMA AlignProperties ==
  ASSUME NEW n \in Nat, NEW a \in Nat \ {0}
  PROVE  /\ Align(n, a) \in Nat /\ Align(n, a) >= n /\ Align(n, a) < n + a
         /\ Multiple(Align(n, a), a)
<1> DEFINE k == (n + a - 1) \div a
<1>1. n + a - 1 \in Nat
  OBVIOUS
<1>2. k \in Nat
  BY <1>1
<1>3. k * a <= n + a - 1 /\ n + a - 1 < k * a + a
  BY <1>1
<1>4. k * a \in Nat
  BY <1>2
<1>5. Align(n, a) = k * a
  BY DEF Align
<1> HIDE DEF k
<1>6. k * a >= n /\ k * a < n + a
  BY <1>3, <1>4
<1>7. Multiple(k * a, a)
  BY <1>2 DEF Multiple
<1> QED
  BY <1>4, <1>5, <1>6, <1>7

LEMMA AlignWithin ==
  ASSUME NEW n \in Nat, NEW m \in Nat, n <= m, NEW a \in Nat \ {0}, Multiple(m, a)
  PROVE  Align(n, a) <= m
<1>1. Align(n, a) \in Nat /\ Align(n, a) < n + a /\ Multiple(Align(n, a), a)
  BY AlignProperties
<1>2. Align(n, a) < m + a
  BY <1>1
<1> QED
  BY <1>1, <1>2, MultiplesApart

LEMMA AlignMultiple ==
  ASSUME NEW n \in Nat, NEW a \in Nat \ {0}, Multiple(n, a)
  PROVE  Align(n, a) = n
<1>1. Align(n, a) <= n
  BY AlignWithin
<1>2. Align(n, a) \in Nat /\ Align(n, a) >= n
  BY AlignProperties
<1> QED
  BY <1>1, <1>2

LEMMA AlignSum ==
  ASSUME NEW m \in Nat, NEW n \in Nat, NEW a \in Nat \ {0}, Multiple(m, a)
  PROVE  Align(m + n, a) = m + Align(n, a)
<1> DEFINE x == Align(n, a)
           y == Align(m + n, a)
           z == m + x
<1>1. x \in Nat /\ x >= n /\ x < n + a /\ Multiple(x, a)
  BY AlignProperties
<1>2. y \in Nat /\ y >= m + n /\ y < m + n + a /\ Multiple(y, a)
  <2> DEFINE s == m + n
  <2>1. s \in Nat
    OBVIOUS
  <2> HIDE DEF s
  <2>2. Align(s, a) \in Nat /\ Align(s, a) >= s /\ Align(s, a) < s + a /\ Multiple(Align(s, a), a)
    BY <2>1, AlignProperties
  <2> QED
    BY <2>2 DEF s
<1> HIDE DEF x, y
<1>3. z \in Int /\ Multiple(z, a)
  BY <1>1, MultipleSum
<1>4. y < z + a /\ z < y + a
  BY <1>1, <1>2
<1> HIDE DEF z
<1>5. y <= z /\ z <= y
  BY <1>1, <1>2, <1>3, <1>4, MultiplesApart
<1> QED
  BY <1>1, <1>2, <1>3, <1>5 DEF x, y, z

-----------------------------------------------------------------------------
(* The largest and the smallest of some numbers                            *)

Less == {ss \in Nat \X Nat : ss[1] < ss[2]}

LEMMA Smallest ==
  ASSUME NEW S, S \subseteq Nat, S # {}
  PROVE  \E x \in S : \A y \in S : x <= y
<1>1. IsWellFoundedOn(Less, Nat)
  BY NatLessThanWellFounded DEF OpToRel, Less
<1>2. PICK x \in S : \A y \in S : <<y, x>> \notin Less
  BY <1>1, WFMin, Zenon
<1>3. ASSUME NEW y \in S
      PROVE  x <= y
  <2>1. x \in Nat /\ y \in Nat
    OBVIOUS
  <2>2. y < x => <<y, x>> \in Less
    BY <2>1 DEF Less
  <2> QED
    BY <1>2, <2>1, <2>2
<1> QED
  BY <1>3

LEMMA MinProperties ==
  ASSUME NEW S, S \subseteq Nat, S # {}
  PROVE  Min(S) \in S /\ \A y \in S : Min(S) <= y
BY Smallest DEF Min

LEMMA MaxProperties ==
  ASSUME NEW S, S \subseteq Nat, S # {}, NEW bound \in Nat, \A x \in S : x <= bound
  PROVE  Max(S) \in S /\ \A y \in S : y <= Max(S)
<1> DEFINE B == {b \in Nat : \A x \in S : x <= b}
<1>1. B \subseteq Nat /\ bound \in B
  OBVIOUS
<1>2. PICK m \in B : \A b \in B : m <= b
  BY <1>1, Smallest
<1>3. m \in S
  <2> SUFFICES ASSUME m \notin S PROVE FALSE
    OBVIOUS
  <2>1. PICK x \in S : TRUE
    OBVIOUS
  <2>2. m \in Nat /\ m - 1 \in Nat
    BY <2>1
  <2>3. m - 1 \in B
    BY <2>2
  <2> QED
    BY <1>2, <2>2, <2>3
<1>4. \A y \in S : y <= m
  OBVIOUS
<1>5. \E x \in S : \A y \in S : x >= y
  BY <1>3, <1>4
<1>6. Max(S) \in S /\ \A y \in S : Max(S) >= y
  BY <1>5 DEF Max
<1> QED
  BY <1>6

-----------------------------------------------------------------------------
(* The invariant                                                           *)

Fields == {"Card", "MediaUnit", "Valid", "MediaSize", "Ncch", "Bytes", "Table"}

Entry == [Offset : Nat, Size : Nat]

IsImage(img) ==
  /\ img = [f \in Fields |-> img[f]]
  /\ img.Card \in {"CARD1", "CARD2"} /\ img.MediaUnit \in MediaUnits
  /\ img.Valid \in Nat /\ img.MediaSize \in Nat
  /\ img.Bytes \in Seq(Nat)
  /\ img.Table \in [Partitions -> Entry]

Begins(img, p) == img.Table[p].Offset * img.MediaUnit
Room(img, p) == img.Table[p].Size * img.MediaUnit
Ends(img, p) == Begins(img, p) + Room(img, p)

\* Where the first n partitions end.
End(img, n) == Max({FirstNcch} \cup {Ends(img, p) : p \in {q \in Partitions : q < n}})

\* Where n partitions end if they are as large as they get.
Limit(n) == FirstNcch + n * MaxNcch

\* The first n partitions that are there follow each other.
Packed(img, n) ==
  \A p \in Partitions : p < n /\ img.Table[p] # Absent =>
    /\ Begins(img, p) = End(img, p)
    /\ img.Table[p].Size > 0 /\ Room(img, p) <= MaxNcch
    /\ Ends(img, p) <= Limit(p + 1)

Holds(img, p, file) ==
  /\ Len(file) <= Room(img, p) /\ Ends(img, p) <= Length(img)
  /\ \A i \in 1 .. Len(file) : img.Bytes[Begins(img, p) - FirstNcch + i] = file[i]

\* The first n partitions are the files.
Kept(img, n, files) ==
  \A p \in Partitions : p < n =>
    /\ files[p] = <<>> => img.Table[p] = Absent /\ (p = 0 => img.Ncch = 0)
    /\ files[p] # <<>> =>
         /\ img.Table[p] # Absent /\ Holds(img, p, files[p])
         /\ p = 0 => NcchHeader <= Len(files[0]) /\ img.Ncch = files[0][NcchHeader]

\* What an operation that was not killed has made sure of.
Complete(img, f) ==
  /\ img.Valid = End(img, LastPartition + 1)
  /\ Multiple(Length(img), img.MediaUnit) /\ img.MediaSize = Length(img) \div img.MediaUnit
  /\ f = "trimmed" => Length(img) = img.Valid
  /\ f = "padded" => Length(img) = CardFor(Capacities(img), img.Valid)
  /\ \A k \in DOMAIN img.Bytes : FirstNcch + k > img.Valid => img.Bytes[k] = Filling

\* The image m without the partitions behind n.
CutOf(img, m, n) ==
  /\ img.Card = m.Card /\ img.MediaUnit = m.MediaUnit /\ img.Ncch = m.Ncch
  /\ img.Table = [p \in Partitions |-> IF p <= n THEN m.Table[p] ELSE Absent]

\* Two images are the same up to the end e.
Agree(img, m, e) ==
  /\ e <= Length(img) /\ e <= Length(m)
  /\ \A k \in 1 .. (e - FirstNcch) : img.Bytes[k] = m.Bytes[k]

\* What is left of the image m when the partitions up to r are reserved.
Left(img, m, r) ==
  /\ IsImage(img) /\ img.Valid >= FirstNcch
  /\ \E n \in r .. LastPartition : CutOf(img, m, n)
  /\ Agree(img, m, End(m, r + 1))

\* The card info is that of the first partition.
NcchKnown(img) ==
  /\ img.Table[0] = Absent => img.Ncch = 0
  /\ img.Table[0] # Absent =>
       /\ NcchHeader <= Room(img, 0)
       /\ img.Ncch = img.Bytes[Begins(img, 0) - FirstNcch + NcchHeader]

Saved(img, p) ==
  SubSeq(img.Bytes, Begins(img, p) - FirstNcch + 1, Begins(img, p) - FirstNcch + Room(img, p))

Finished == {"padded", "trimmed"}

\* The files are of no image or of one that was complete.
InputInv ==
  /\ IsImage(header) /\ header.Bytes = <<>>
  /\ ncch \in [Partitions -> Seq(Nat)]
  /\ \A p \in Partitions : Len(ncch[p]) <= MaxNcch
  /\ origin # Nothing =>
       /\ IsImage(origin.Image) /\ Packed(origin.Image, LastPartition + 1)
       /\ origin.Form \in Finished /\ Complete(origin.Image, origin.Form)
       /\ NcchKnown(origin.Image)
       /\ header = [origin.Image EXCEPT !.Bytes = <<>>]
       /\ \A p \in Partitions : ncch[p] = Saved(origin.Image, p)

Alignment == IF alignToBlock THEN BlockSize ELSE image.MediaUnit

CreateInv ==
  phase = "create" =>
    /\ IsImage(image) /\ Packed(image, part) /\ Kept(image, part, source)
    /\ \A p \in Partitions : part <= p => source[p] = <<>>
    /\ image.Card = header.Card /\ image.MediaUnit = header.MediaUnit
    /\ alignToBlock = AlignToBlockSize(header)
    /\ Multiple(Length(image), Alignment)
    /\ Length(image) = End(image, part) /\ Length(image) <= Limit(part)

\* The files of an image make the same image again.
RebuildInv ==
  phase = "create" /\ origin # Nothing /\ (\A p \in Partitions : p < part => source[p] = ncch[p]) =>
    /\ \A p \in Partitions : p < part => image.Table[p] = origin.Image.Table[p]
    /\ 0 < part => image.Ncch = origin.Image.Ncch
    /\ Agree(image, origin.Image, Length(image))

\* What was made.
MadeInv ==
  phase = "idle" /\ image # NoImage =>
    /\ IsImage(made.Image) /\ Packed(made.Image, LastPartition + 1)
    /\ Kept(made.Image, LastPartition + 1, source)
    /\ made.Form \in Finished /\ Complete(made.Image, made.Form)

\* What became of it.
ImageInv ==
  phase = "idle" =>
    \/ image = NoImage /\ made = Nothing /\ form = "none"
    \/ /\ Left(image, made.Image, reserved)
       /\ form \in Finished \cup {"killed"}
       /\ form \in Finished => Complete(image, form)

TypeInv ==
  /\ phase \in {"idle", "create"}
  /\ notPad \in BOOLEAN /\ alignToBlock \in BOOLEAN
  /\ part \in 0 .. (LastPartition + 1)
  /\ form \in {"none", "padded", "trimmed", "killed"}
  /\ source \in [Partitions -> Seq(Nat)]
  /\ reserved \in Partitions
  /\ kills \in 0 .. MaxKills /\ rebuilds \in 0 .. MaxRebuilds

Inv ==
  TypeInv /\ InputInv /\ CreateInv /\ RebuildInv /\ MadeInv /\ ImageInv /\ RebuiltIsSame

-----------------------------------------------------------------------------
(* The constants                                                           *)

LEMMA ConstantFacts ==
  /\ LastPartition \in Nat /\ BlockSize \in Nat \ {0} /\ UnitsPerBlock \in Nat \ {0}
  /\ FirstNcch \in Nat \ {0} /\ NcchHeader \in Nat \ {0} /\ MaxNcch \in Nat
  /\ MediaUnits \subseteq Nat \ {0} /\ Sizes \subseteq 1 .. MaxNcch
  /\ MaxKills \in Nat /\ MaxRebuilds \in Nat
BY NcsdAssumption

LEMMA BlockFacts == Multiple(FirstNcch, BlockSize) /\ Multiple(MaxNcch, BlockSize)
<1>1. FirstNcch % BlockSize = 0 /\ MaxNcch % BlockSize = 0
  BY NcsdAssumption
<1> QED
  BY <1>1, ConstantFacts, MultipleModulo

LEMMA UnitFacts ==
  ASSUME NEW u \in MediaUnits
  PROVE  /\ Multiple(BlockSize, u) /\ Multiple(UnitsPerBlock * u, BlockSize)
         /\ Multiple(FirstNcch, u) /\ Multiple(MaxNcch, u)
<1> DEFINE block == UnitsPerBlock * u
<1>1. u \in Nat \ {0} /\ block \in Nat
  BY ConstantFacts
<1>2. BlockSize % u = 0 /\ block % BlockSize = 0
  BY NcsdAssumption
<1> HIDE DEF block
<1>3. Multiple(BlockSize, u) /\ Multiple(block, BlockSize)
  BY <1>1, <1>2, ConstantFacts, MultipleModulo
<1>4. Multiple(FirstNcch, u) /\ Multiple(MaxNcch, u)
  BY <1>1, <1>3, BlockFacts, ConstantFacts, MultipleOfMultiple
<1> QED
  BY <1>3, <1>4 DEF block

LEMMA LimitFacts ==
  ASSUME NEW n \in Nat
  PROVE  /\ Limit(n) \in Nat /\ FirstNcch <= Limit(n) /\ Limit(n + 1) = Limit(n) + MaxNcch
         /\ \A m \in Nat : m <= n => Limit(m) <= Limit(n)
<1>1. n * MaxNcch \in Nat /\ (n + 1) * MaxNcch = n * MaxNcch + MaxNcch
  BY ConstantFacts
<1>2. \A m \in Nat : m <= n => m * MaxNcch \in Nat /\ m * MaxNcch <= n * MaxNcch
  BY ConstantFacts
<1> QED
  BY <1>1, <1>2, ConstantFacts DEF Limit

LEMMA CardForFacts ==
  ASSUME NEW cards \in {Card1, Card2}, NEW n \in Nat, n <= Limit(LastPartition + 1)
  PROVE  /\ CardFor(cards, n) \in Nat /\ n <= CardFor(cards, n)
         /\ Multiple(CardFor(cards, n), BlockSize)
<1> DEFINE S == {c \in cards : n <= c}
<1>1. \A c \in cards : c \in Nat /\ c % BlockSize = 0
  BY NcsdAssumption
<1>2. PICK c \in cards : FirstNcch + (LastPartition + 1) * MaxNcch <= c
  BY NcsdAssumption
<1>3. c \in S
  <2>1. Limit(LastPartition + 1) \in Nat /\ Limit(LastPartition + 1) <= c
    BY <1>2, LimitFacts, ConstantFacts DEF Limit
  <2> QED
    BY <1>1, <2>1
<1>4. S \subseteq Nat /\ S # {}
  BY <1>1, <1>3
<1>5. Min(S) \in S
  BY <1>4, MinProperties
<1>6. CardFor(cards, n) = Min(S)
  BY DEF CardFor
<1> QED
  BY <1>1, <1>5, <1>6, ConstantFacts, MultipleModulo

-----------------------------------------------------------------------------
(* Where partitions begin and end                                          *)

LEMMA EntryFacts ==
  ASSUME NEW img, IsImage(img), NEW p \in Partitions
  PROVE  /\ img.Table[p] \in Entry /\ img.MediaUnit \in Nat \ {0}
         /\ Begins(img, p) \in Nat /\ Room(img, p) \in Nat /\ Ends(img, p) \in Nat
         /\ Multiple(Ends(img, p), img.MediaUnit)
         /\ img.Table[p] = Absent <=> img.Table[p].Offset = 0 /\ img.Table[p].Size = 0
         /\ img.Table[p] = Absent => Begins(img, p) = 0 /\ Room(img, p) = 0 /\ Ends(img, p) = 0
<1> DEFINE e == img.Table[p]  u == img.MediaUnit
<1>1. e \in Entry /\ u \in Nat \ {0}
  BY ConstantFacts DEF IsImage
<1>2. Begins(img, p) = e.Offset * u /\ Room(img, p) = e.Size * u
      /\ Ends(img, p) = e.Offset * u + e.Size * u
  BY DEF Begins, Room, Ends
<1> HIDE DEF e, u
<1>3. e.Offset \in Nat /\ e.Size \in Nat /\ (e = Absent <=> e.Offset = 0 /\ e.Size = 0)
  BY <1>1 DEF Entry, Absent
<1>4. e.Offset * u \in Nat /\ e.Size * u \in Nat
  BY <1>1, <1>3
<1>5. Multiple(e.Offset * u, u) /\ Multiple(e.Size * u, u)
  BY <1>1, <1>3, MultipleProduct
<1> DEFINE x == e.Offset * u  y == e.Size * u
<1>6. Multiple(x + y, u)
  <2>1. x \in Int /\ y \in Int /\ Multiple(x, u) /\ Multiple(y, u)
    BY <1>4, <1>5
  <2> HIDE DEF x, y
  <2> QED
    BY <1>1, <2>1, MultipleSum
<1>7. e = Absent => e.Offset * u = 0 /\ e.Size * u = 0
  BY <1>1, <1>3
<1>8. Begins(img, p) \in Nat /\ Room(img, p) \in Nat /\ Ends(img, p) \in Nat
  BY <1>2, <1>4
<1>9. Multiple(Ends(img, p), u)
  BY <1>2, <1>6
<1>10. e = Absent => Begins(img, p) = 0 /\ Room(img, p) = 0 /\ Ends(img, p) = 0
  BY <1>2, <1>7
<1> QED
  BY <1>1, <1>3, <1>8, <1>9, <1>10 DEF e, u

LEMMA PartitionFacts ==
  /\ Partitions \subseteq Nat /\ 0 \in Partitions /\ LastPartition \in Partitions
  /\ \A p \in Partitions : p <= LastPartition /\ p + 1 \in Nat /\ p + 1 <= LastPartition + 1
BY ConstantFacts DEF Partitions

LEMMA EndFacts ==
  ASSUME NEW img, IsImage(img), NEW n \in Nat, Packed(img, n)
  PROVE  /\ End(img, n) \in Nat /\ FirstNcch <= End(img, n) /\ End(img, n) <= Limit(n)
         /\ \A p \in Partitions : p < n => Ends(img, p) <= End(img, n)
         /\ \/ End(img, n) = FirstNcch
            \/ \E p \in Partitions : p < n /\ End(img, n) = Ends(img, p)
<1> DEFINE S == {FirstNcch} \cup {Ends(img, p) : p \in {q \in Partitions : q < n}}
<1>1. Limit(n) \in Nat /\ FirstNcch <= Limit(n)
  BY LimitFacts
<1>2. ASSUME NEW p \in Partitions, p < n
      PROVE  Ends(img, p) \in Nat /\ Ends(img, p) <= Limit(n)
  <2>1. Ends(img, p) \in Nat
    BY EntryFacts
  <2>2. CASE img.Table[p] = Absent
    BY <1>1, <2>1, <2>2, EntryFacts
  <2>3. CASE img.Table[p] # Absent
    <3>1. Ends(img, p) <= Limit(p + 1)
      BY <1>2, <2>3 DEF Packed
    <3>2. p + 1 \in Nat /\ p + 1 <= n
      BY <1>2, PartitionFacts
    <3>3. Limit(p + 1) \in Nat /\ Limit(p + 1) <= Limit(n)
      BY <3>2, LimitFacts
    <3> QED
      BY <1>1, <2>1, <3>1, <3>3
  <2> QED
    BY <2>2, <2>3
<1>3. S \subseteq Nat /\ S # {} /\ \A x \in S : x <= Limit(n)
  BY <1>1, <1>2, ConstantFacts
<1>4. FirstNcch \in S /\ \A p \in Partitions : p < n => Ends(img, p) \in S
  OBVIOUS
<1>5. \A x \in S : x = FirstNcch \/ \E p \in Partitions : p < n /\ x = Ends(img, p)
  OBVIOUS
<1>6. End(img, n) = Max(S)
  BY DEF End
<1> HIDE DEF S
<1>7. Max(S) \in S /\ \A y \in S : y <= Max(S)
  BY <1>1, <1>3, MaxProperties
<1> QED
  BY <1>3, <1>4, <1>5, <1>6, <1>7

LEMMA EndIs ==
  ASSUME NEW img, IsImage(img), NEW n \in Nat, Packed(img, n), NEW e \in Nat, FirstNcch <= e,
         \A p \in Partitions : p < n => Ends(img, p) <= e,
         e = FirstNcch \/ \E p \in Partitions : p < n /\ e = Ends(img, p)
  PROVE  End(img, n) = e
<1>1. /\ End(img, n) \in Nat /\ FirstNcch <= End(img, n)
      /\ \A p \in Partitions : p < n => Ends(img, p) <= End(img, n)
      /\ \/ End(img, n) = FirstNcch
         \/ \E p \in Partitions : p < n /\ End(img, n) = Ends(img, p)
  BY EndFacts
<1>2. End(img, n) <= e
  BY <1>1
<1>3. e <= End(img, n)
  BY <1>1
<1> QED
  BY <1>1, <1>2, <1>3

LEMMA EndSame ==
  ASSUME NEW a, NEW b, NEW n, a.MediaUnit = b.MediaUnit,
         \A p \in Partitions : p < n => a.Table[p] = b.Table[p]
  PROVE  /\ End(a, n) = End(b, n)
         /\ \A p \in Partitions : p < n => /\ Begins(a, p) = Begins(b, p) /\ Room(a, p) = Room(b, p)
                                           /\ Ends(a, p) = Ends(b, p)
<1>1. \A p \in Partitions : p < n => /\ Begins(a, p) = Begins(b, p) /\ Room(a, p) = Room(b, p)
                                     /\ Ends(a, p) = Ends(b, p)
  BY DEF Begins, Room, Ends
<1>2. {Ends(a, p) : p \in {q \in Partitions : q < n}} = {Ends(b, p) : p \in {q \in Partitions : q < n}}
  BY <1>1
<1> QED
  BY <1>1, <1>2 DEF End

LEMMA PackedLess ==
  ASSUME NEW img, NEW n \in Nat, NEW m \in Nat, m <= n, Packed(img, n)
  PROVE  Packed(img, m)
BY PartitionFacts DEF Packed

LEMMA EndGrows ==
  ASSUME NEW img, IsImage(img), NEW n \in Nat, NEW m \in Nat, m <= n, Packed(img, n)
  PROVE  End(img, m) <= End(img, n)
<1>1. Packed(img, m)
  BY PackedLess
<1>2. /\ End(img, m) \in Nat
      /\ \/ End(img, m) = FirstNcch
         \/ \E p \in Partitions : p < m /\ End(img, m) = Ends(img, p)
  BY <1>1, EndFacts
<1>3. /\ End(img, n) \in Nat /\ FirstNcch <= End(img, n)
      /\ \A p \in Partitions : p < n => Ends(img, p) <= End(img, n)
  BY EndFacts
<1>4. \A p \in Partitions : p < m => p < n
  BY PartitionFacts
<1> QED
  BY <1>2, <1>3, <1>4

LEMMA EndFirst == ASSUME NEW img, IsImage(img) PROVE End(img, 0) = FirstNcch
<1>1. \A p \in Partitions : ~ p < 0
  BY PartitionFacts
<1>2. Packed(img, 0)
  BY <1>1 DEF Packed
<1> QED
  BY <1>1, <1>2, EndIs, ConstantFacts

LEMMA EndNext ==
  ASSUME NEW img, IsImage(img), NEW n \in Partitions, Packed(img, n + 1)
  PROVE  /\ img.Table[n] = Absent => End(img, n + 1) = End(img, n)
         /\ img.Table[n] # Absent => /\ Begins(img, n) = End(img, n)
                                     /\ End(img, n + 1) = Ends(img, n)
<1> DEFINE m == n + 1
<1>1. n \in Nat /\ m \in Nat /\ n <= m /\ n < m
  BY PartitionFacts
<1>2. \A p \in Partitions : p < m => p < n \/ p = n
  BY PartitionFacts
<1>3. Packed(img, m)
  OBVIOUS
<1> HIDE DEF m
<1>4. Packed(img, n)
  BY <1>1, <1>3, PackedLess
<1>5. /\ End(img, n) \in Nat /\ FirstNcch <= End(img, n)
      /\ \A p \in Partitions : p < n => Ends(img, p) <= End(img, n)
      /\ \/ End(img, n) = FirstNcch
         \/ \E p \in Partitions : p < n /\ End(img, n) = Ends(img, p)
  BY <1>1, <1>4, EndFacts
<1>6. /\ Begins(img, n) \in Nat /\ Room(img, n) \in Nat /\ Ends(img, n) \in Nat
      /\ Ends(img, n) = Begins(img, n) + Room(img, n)
  BY EntryFacts DEF Ends
<1>7. \A p \in Partitions : p < n => p < m
  BY <1>1, PartitionFacts
<1>8. CASE img.Table[n] = Absent
  <2>1. Ends(img, n) = 0
    BY <1>8, EntryFacts
  <2>2. \A p \in Partitions : p < m => Ends(img, p) <= End(img, n)
    BY <1>2, <1>5, <2>1
  <2>3. End(img, m) = End(img, n)
    BY <1>1, <1>3, <1>5, <1>7, <2>2, EndIs
  <2> QED
    BY <1>8, <2>3 DEF m
<1>9. CASE img.Table[n] # Absent
  <2>1. Begins(img, n) = End(img, n)
    BY <1>1, <1>3, <1>9 DEF Packed
  <2>2. End(img, n) <= Ends(img, n)
    BY <1>5, <1>6, <2>1
  <2>3. \A p \in Partitions : p < m => Ends(img, p) <= Ends(img, n)
    <3> SUFFICES ASSUME NEW p \in Partitions, p < m PROVE Ends(img, p) <= Ends(img, n)
      OBVIOUS
    <3>1. Ends(img, p) \in Nat
      BY EntryFacts
    <3>2. CASE p = n
      BY <1>6, <3>2
    <3>3. CASE p < n
      BY <1>5, <1>6, <2>2, <3>1, <3>3
    <3> QED
      BY <1>2, <3>2, <3>3
  <2>4. FirstNcch <= Ends(img, n)
    BY <1>5, <1>6, <2>2, ConstantFacts
  <2>5. End(img, m) = Ends(img, n)
    BY <1>1, <1>3, <1>6, <2>3, <2>4, EndIs
  <2> QED
    BY <1>9, <2>1, <2>5 DEF m
<1> QED
  BY <1>8, <1>9

LEMMA EndMultiple ==
  ASSUME NEW img, IsImage(img), NEW n \in Nat, Packed(img, n)
  PROVE  Multiple(End(img, n), img.MediaUnit)
<1>1. \/ End(img, n) = FirstNcch
      \/ \E p \in Partitions : p < n /\ End(img, n) = Ends(img, p)
  BY EndFacts
<1>2. Multiple(FirstNcch, img.MediaUnit)
  BY UnitFacts DEF IsImage
<1>3. \A p \in Partitions : Multiple(Ends(img, p), img.MediaUnit)
  BY EntryFacts
<1> QED
  BY <1>1, <1>2, <1>3

\* There are no gaps between partitions.
LEMMA Covered ==
  ASSUME NEW img, IsImage(img), NEW n \in Nat, n <= LastPartition + 1, Packed(img, n),
         NEW k \in Nat, FirstNcch <= k, k < End(img, n)
  PROVE  \E p \in Partitions : /\ p < n /\ img.Table[p] # Absent
                               /\ Begins(img, p) <= k /\ k < Ends(img, p)
<1> DEFINE S == {m \in Nat : m <= n /\ k < End(img, m)}
<1>1. S \subseteq Nat /\ n \in S
  OBVIOUS
<1>2. PICK m \in S : \A i \in S : m <= i
  BY <1>1, Smallest
<1>3. m \in Nat /\ m <= n /\ k < End(img, m)
  OBVIOUS
<1>4. m # 0
  BY <1>3, EndFirst, ConstantFacts
<1> DEFINE p == m - 1
<1>5. p \in Nat /\ p <= n /\ p < n /\ m = p + 1 /\ ~ m <= p
  BY <1>3, <1>4
<1>6. p \in Partitions
  BY <1>5, ConstantFacts DEF Partitions
<1>7. ~ k < End(img, p)
  BY <1>2, <1>5
<1>8. Packed(img, m) /\ Packed(img, p)
  BY <1>3, <1>5, PackedLess
<1> HIDE DEF p, S
<1>9. End(img, p) \in Nat /\ End(img, p) <= k
  BY <1>5, <1>7, <1>8, EndFacts
<1>10. Packed(img, p + 1)
  BY <1>5, <1>8
<1>11. img.Table[p] # Absent
  <2> SUFFICES ASSUME img.Table[p] = Absent PROVE FALSE
    OBVIOUS
  <2>1. End(img, p + 1) = End(img, p)
    BY <1>6, <1>10, EndNext
  <2> QED
    BY <1>3, <1>5, <1>7, <2>1
<1>12. Begins(img, p) = End(img, p) /\ End(img, m) = Ends(img, p)
  BY <1>5, <1>6, <1>10, <1>11, EndNext
<1> QED
  BY <1>3, <1>5, <1>6, <1>9, <1>11, <1>12

LEMMA ValidSizeIsEnd ==
  ASSUME NEW img, IsImage(img)
  PROVE  ValidSize(img) = End(img, LastPartition + 1)
<1>1. \A p \in Partitions :
        (img.Table[p].Offset + img.Table[p].Size) * img.MediaUnit = Ends(img, p)
  <2> SUFFICES ASSUME NEW p \in Partitions
               PROVE  (img.Table[p].Offset + img.Table[p].Size) * img.MediaUnit = Ends(img, p)
    OBVIOUS
  <2>1. img.Table[p].Offset \in Nat /\ img.Table[p].Size \in Nat /\ img.MediaUnit \in Nat
    BY EntryFacts DEF Entry
  <2>2. \A a, b, c \in Nat : (a + b) * c = a * c + b * c
    OBVIOUS
  <2> QED
    BY <2>1, <2>2 DEF Ends, Begins, Room
<1>2. \A p \in Partitions : p < LastPartition + 1
  BY ConstantFacts DEF Partitions
<1>3. {(img.Table[p].Offset + img.Table[p].Size) * img.MediaUnit : p \in Partitions}
        = {Ends(img, p) : p \in {q \in Partitions : q < LastPartition + 1}}
  BY <1>1, <1>2
<1> QED
  BY <1>3 DEF ValidSize, End

-----------------------------------------------------------------------------
(* The bytes of a file                                                     *)

LEMMA FillerFacts ==
  ASSUME NEW n \in Nat, NEW byte \in Nat
  PROVE  /\ Filler(n, byte) \in Seq(Nat) /\ Len(Filler(n, byte)) = n
         /\ \A k \in 1 .. n : Filler(n, byte)[k] = byte
BY SMT DEF Filler

LEMMA PieceFacts ==
  ASSUME NEW bytes \in Seq(Nat), NEW from \in Nat, NEW n \in Nat, from + n <= Len(bytes)
  PROVE  LET piece == SubSeq(bytes, from + 1, from + n) IN
         /\ piece \in Seq(Nat) /\ Len(piece) = n
         /\ \A i \in 1 .. n : piece[i] = bytes[from + i]
<1> DEFINE x == from + 1  y == from + n  piece == SubSeq(bytes, x, y)
<1>1. Len(bytes) \in Nat /\ \A k \in 1 .. Len(bytes) : bytes[k] \in Nat
  OBVIOUS
<1>2. x \in Int /\ y \in Int /\ y - x + 1 = n /\ (x <= y <=> n # 0) /\ x = from + 1
  OBVIOUS
<1>3. \A k \in x .. y : bytes[k] \in Nat
  <2>1. \A k \in x .. y : k \in 1 .. Len(bytes)
    BY <1>1
  <2> QED
    BY <1>1, <2>1
<1> HIDE DEF x, y
<1>4. /\ piece \in Seq(Nat) /\ Len(piece) = IF x <= y THEN y - x + 1 ELSE 0
      /\ \A i \in 1 .. y - x + 1 : piece[i] = bytes[x + i - 1]
  BY <1>2, <1>3, SubSeqProperties
<1> HIDE DEF piece
<1>5. Len(piece) = n
  BY <1>2, <1>4
<1>6. ASSUME NEW i \in 1 .. n
      PROVE  piece[i] = bytes[from + i]
  <2>1. i \in 1 .. y - x + 1 /\ x + i - 1 = from + i
    BY <1>2
  <2> QED
    BY <1>4, <2>1
<1> QED
  BY <1>4, <1>5, <1>6 DEF x, y, piece

LEMMA LengthFacts ==
  ASSUME NEW img, img.Bytes \in Seq(Nat)
  PROVE  /\ Len(img.Bytes) \in Nat /\ Length(img) \in Nat /\ FirstNcch <= Length(img)
         /\ Length(img) = FirstNcch + Len(img.Bytes) /\ DOMAIN img.Bytes = 1 .. Len(img.Bytes)
         /\ \A k \in 1 .. Len(img.Bytes) : img.Bytes[k] \in Nat
<1>1. Len(img.Bytes) \in Nat /\ DOMAIN img.Bytes = 1 .. Len(img.Bytes)
      /\ \A k \in 1 .. Len(img.Bytes) : img.Bytes[k] \in Nat
  OBVIOUS
<1> QED
  BY <1>1, ConstantFacts DEF Length

\* An NCCH file is put behind what is there, and filled up to whole units.
LEMMA AppendedFacts ==
  ASSUME NEW bytes \in Seq(Nat), NEW file \in Seq(Nat), NEW a \in Nat \ {0},
         Multiple(FirstNcch + Len(bytes), a)
  PROVE  LET b == Appended(bytes, file, a) IN
         /\ b \in Seq(Nat) /\ Len(b) = Len(bytes) + Align(Len(file), a)
         /\ \A k \in 1 .. Len(bytes) : b[k] = bytes[k]
         /\ \A i \in 1 .. Len(file) : b[Len(bytes) + i] = file[i]
<1> DEFINE all == bytes \o file
           here == FirstNcch + Len(bytes)
           rest == Align(FirstNcch + Len(all), a) - (FirstNcch + Len(all))
           fill == Filler(rest, 0)
           b == all \o fill
<1>1. /\ all \in Seq(Nat) /\ Len(all) = Len(bytes) + Len(file)
      /\ Len(bytes) \in Nat /\ Len(file) \in Nat
      /\ \A k \in 1 .. Len(bytes) : all[k] = bytes[k]
      /\ \A i \in 1 .. Len(file) : all[Len(bytes) + i] = file[i]
  OBVIOUS
<1>2. here \in Nat /\ Multiple(here, a)
  BY <1>1, ConstantFacts
<1> HIDE DEF all
<1>3. FirstNcch + Len(all) = here + Len(file)
  BY <1>1, ConstantFacts
<1> HIDE DEF here
<1>4. Align(FirstNcch + Len(all), a) = here + Align(Len(file), a)
  <2> DEFINE more == Len(file)
  <2>1. more \in Nat /\ FirstNcch + Len(all) = here + more
    BY <1>1, <1>3
  <2> HIDE DEF more
  <2>2. Align(here + more, a) = here + Align(more, a)
    BY <1>2, <2>1, AlignSum
  <2> QED
    BY <2>1, <2>2 DEF more
<1>5. Align(Len(file), a) \in Nat /\ Len(file) <= Align(Len(file), a)
  BY <1>1, AlignProperties
<1>6. rest = Align(Len(file), a) - Len(file) /\ rest \in Nat
  BY <1>1, <1>2, <1>3, <1>4, <1>5
<1> HIDE DEF rest
<1>7. fill \in Seq(Nat) /\ Len(fill) = rest
  BY <1>6, FillerFacts
<1> HIDE DEF fill
<1>8. /\ b \in Seq(Nat) /\ Len(b) = Len(all) + Len(fill)
      /\ \A k \in 1 .. Len(all) : b[k] = all[k]
  <2>1. all \in Seq(Nat) /\ fill \in Seq(Nat)
    BY <1>1, <1>7
  <2> QED
    BY <2>1
<1>9. b = Appended(bytes, file, a)
  BY DEF Appended, all, rest, fill
<1> HIDE DEF b
<1>10. Len(b) = Len(bytes) + Align(Len(file), a)
  BY <1>1, <1>5, <1>6, <1>7, <1>8
<1>11. \A k \in 1 .. Len(bytes) : k \in 1 .. Len(all)
  BY <1>1
<1>12. \A i \in 1 .. Len(file) : Len(bytes) + i \in 1 .. Len(all)
  BY <1>1
<1>13. \A k \in 1 .. Len(bytes) : b[k] = bytes[k]
  BY <1>1, <1>8, <1>11
<1>14. \A i \in 1 .. Len(file) : b[Len(bytes) + i] = file[i]
  BY <1>1, <1>8, <1>12
<1> QED
  BY <1>8, <1>9, <1>10, <1>13, <1>14

LEMMA ResizedFacts ==
  ASSUME NEW bytes \in Seq(Nat), NEW n \in Nat, FirstNcch <= n
  PROVE  /\ Resized(bytes, n) \in Seq(Nat) /\ Len(Resized(bytes, n)) = n - FirstNcch
         /\ \A k \in 1 .. (n - FirstNcch) :
              k <= Len(bytes) => Resized(bytes, n)[k] = bytes[k]
<1> DEFINE size == n - FirstNcch
           b == [k \in 1 .. size |-> IF k \in DOMAIN bytes THEN bytes[k] ELSE 0]
<1>1. size \in Nat /\ Len(bytes) \in Nat /\ DOMAIN bytes = 1 .. Len(bytes)
      /\ \A k \in 1 .. Len(bytes) : bytes[k] \in Nat
  BY ConstantFacts
<1>2. Resized(bytes, n) = b
  BY DEF Resized
<1> HIDE DEF size
<1>3. b \in [1 .. size -> Nat]
  BY <1>1
<1>4. b \in Seq(Nat) /\ Len(b) = size
  BY <1>1, <1>3
<1>5. \A k \in 1 .. size : k <= Len(bytes) => b[k] = bytes[k]
  BY <1>1
<1> QED
  BY <1>2, <1>4, <1>5 DEF size

LEMMA FilledFacts ==
  ASSUME NEW img, IsImage(img), Packed(img, LastPartition + 1), NEW n \in Nat, FirstNcch <= n
  PROVE  LET b == Filled(img, n) IN
         /\ b \in Seq(Nat) /\ n <= FirstNcch + Len(b) /\ Length(img) <= FirstNcch + Len(b)
         /\ \A k \in 1 .. Len(img.Bytes) :
              FirstNcch + k <= End(img, LastPartition + 1) => b[k] = img.Bytes[k]
         /\ \A k \in 1 .. Len(b) :
              End(img, LastPartition + 1) < FirstNcch + k /\ FirstNcch + k <= n => b[k] = Filling
<1> DEFINE e == End(img, LastPartition + 1)
           S == {n, Length(img)}
           long == Max(S)
           old == Resized(img.Bytes, long)
           b == [k \in DOMAIN old |->
                   IF e < FirstNcch + k /\ FirstNcch + k <= n THEN Filling ELSE old[k]]
<1>1. /\ img.Bytes \in Seq(Nat) /\ Len(img.Bytes) \in Nat
      /\ Length(img) \in Nat /\ FirstNcch <= Length(img)
      /\ Length(img) = FirstNcch + Len(img.Bytes)
  BY LengthFacts DEF IsImage
<1>2. n + Length(img) \in Nat /\ S \subseteq Nat /\ S # {} /\ \A x \in S : x <= n + Length(img)
  BY <1>1
<1> HIDE DEF S
<1>3. long \in S /\ \A x \in S : x <= long
  <2> DEFINE bound == n + Length(img)
  <2> HIDE DEF bound
  <2>1. bound \in Nat /\ \A x \in S : x <= bound
    BY <1>2 DEF bound
  <2> QED
    BY <1>2, <2>1, MaxProperties
<1> HIDE DEF long
<1>4. long \in Nat /\ n <= long /\ Length(img) <= long /\ FirstNcch <= long
  BY <1>1, <1>2, <1>3, ConstantFacts DEF S
<1>5. /\ old \in Seq(Nat) /\ Len(old) = long - FirstNcch
      /\ \A k \in 1 .. (long - FirstNcch) : k <= Len(img.Bytes) => old[k] = img.Bytes[k]
  BY <1>1, <1>4, ResizedFacts
<1>6. Filled(img, n) = b
  BY ValidSizeIsEnd DEF Filled, PadFrom, S, long
<1> HIDE DEF old, e
<1>7. /\ Len(old) \in Nat /\ DOMAIN old = 1 .. Len(old)
      /\ \A k \in 1 .. Len(old) : old[k] \in Nat
  BY <1>5
<1>8. b \in [1 .. Len(old) -> Nat]
  BY <1>7 DEF Filling
<1>9. b \in Seq(Nat) /\ Len(b) = Len(old)
  BY <1>7, <1>8
<1>10. \A k \in 1 .. Len(old) :
         b[k] = IF e < FirstNcch + k /\ FirstNcch + k <= n THEN Filling ELSE old[k]
  BY <1>7
<1>11. e \in Nat
  <2>1. LastPartition + 1 \in Nat
    BY ConstantFacts
  <2> QED
    BY <2>1, EndFacts DEF e
<1> HIDE DEF b
<1>12. ASSUME NEW k \in 1 .. Len(img.Bytes), FirstNcch + k <= e
       PROVE  b[k] = img.Bytes[k]
  <2>1. k \in 1 .. Len(old) /\ k \in 1 .. (long - FirstNcch) /\ k <= Len(img.Bytes)
    BY <1>1, <1>4, <1>5, ConstantFacts
  <2>2. ~ e < FirstNcch + k
    BY <1>11, <1>12, <1>1, ConstantFacts
  <2> QED
    BY <1>5, <1>10, <2>1, <2>2
<1>13. n <= FirstNcch + Len(b) /\ Length(img) <= FirstNcch + Len(b)
  BY <1>1, <1>4, <1>5, <1>9, ConstantFacts
<1> QED
  BY <1>6, <1>9, <1>10, <1>12, <1>13 DEF e

-----------------------------------------------------------------------------
(* Images that are cut                                                     *)

LEMMA CutFacts ==
  ASSUME NEW m, IsImage(m), Packed(m, LastPartition + 1),
         NEW img, IsImage(img), NEW n \in Partitions, CutOf(img, m, n)
  PROVE  /\ Packed(img, LastPartition + 1)
         /\ \A r \in Nat : r <= n + 1 => End(img, r) = End(m, r)
         /\ \A p \in Partitions : p <= n =>
              /\ img.Table[p] = m.Table[p] /\ Begins(img, p) = Begins(m, p)
              /\ Room(img, p) = Room(m, p) /\ Ends(img, p) = Ends(m, p)
<1>1. n \in Nat /\ LastPartition + 1 \in Nat /\ n + 1 <= LastPartition + 1
  BY PartitionFacts, ConstantFacts
<1>2. \A p \in Partitions : /\ p <= n => img.Table[p] = m.Table[p]
                            /\ ~ p <= n => img.Table[p] = Absent
  BY DEF CutOf
<1>3. img.MediaUnit = m.MediaUnit
  BY DEF CutOf
<1>4. ASSUME NEW r \in Nat, r <= n + 1
      PROVE  End(img, r) = End(m, r)
  <2>1. \A p \in Partitions : p < r => img.Table[p] = m.Table[p]
    BY <1>1, <1>2, <1>4, PartitionFacts
  <2> QED
    BY <1>3, <2>1, EndSame
<1>5. ASSUME NEW p \in Partitions, p <= n
      PROVE  /\ img.Table[p] = m.Table[p] /\ Begins(img, p) = Begins(m, p)
             /\ Room(img, p) = Room(m, p) /\ Ends(img, p) = Ends(m, p)
  BY <1>2, <1>3, <1>5 DEF Begins, Room, Ends
<1>6. ASSUME NEW p \in Partitions, p < LastPartition + 1, img.Table[p] # Absent
      PROVE  /\ Begins(img, p) = End(img, p)
             /\ img.Table[p].Size > 0 /\ Room(img, p) <= MaxNcch
             /\ Ends(img, p) <= Limit(p + 1)
  <2>1. p <= n
    BY <1>2, <1>6
  <2>2. p \in Nat /\ p <= n + 1
    BY <1>1, <2>1, PartitionFacts
  <2>3. End(img, p) = End(m, p)
    BY <1>4, <2>2
  <2>4. /\ img.Table[p] = m.Table[p] /\ Begins(img, p) = Begins(m, p)
        /\ Room(img, p) = Room(m, p) /\ Ends(img, p) = Ends(m, p)
    BY <1>5, <2>1
  <2>5. /\ Begins(m, p) = End(m, p)
        /\ m.Table[p].Size > 0 /\ Room(m, p) <= MaxNcch
        /\ Ends(m, p) <= Limit(p + 1)
    BY <1>6, <2>4 DEF Packed
  <2> QED
    BY <2>3, <2>4, <2>5
<1>7. Packed(img, LastPartition + 1)
  BY <1>6 DEF Packed
<1> QED
  BY <1>4, <1>5, <1>7

\* Whatever n partitions end at is not behind the end of all that are left.
LEMMA CutEnds ==
  ASSUME NEW m, IsImage(m), Packed(m, LastPartition + 1),
         NEW img, IsImage(img), NEW n \in Partitions, CutOf(img, m, n),
         NEW r \in Partitions, r <= n
  PROVE  /\ End(m, r + 1) \in Nat /\ FirstNcch <= End(m, r + 1)
         /\ End(m, r + 1) = End(img, r + 1)
         /\ End(img, LastPartition + 1) \in Nat
         /\ End(m, r + 1) <= End(img, LastPartition + 1)
<1> DEFINE a == r + 1  b == LastPartition + 1
<1>1. a \in Nat /\ b \in Nat /\ a <= b /\ a <= n + 1
  BY PartitionFacts, ConstantFacts
<1> HIDE DEF a, b
<1>2. Packed(img, b) /\ End(img, a) = End(m, a) /\ Packed(m, b)
  <2>1. Packed(img, b) /\ Packed(m, b)
    BY CutFacts DEF b
  <2>2. End(img, a) = End(m, a)
    BY <1>1, CutFacts
  <2> QED
    BY <2>1, <2>2
<1>3. Packed(m, a) /\ End(img, a) <= End(img, b)
  BY <1>1, <1>2, PackedLess, EndGrows
<1>4. End(m, a) \in Nat /\ FirstNcch <= End(m, a) /\ End(img, b) \in Nat
  BY <1>1, <1>2, <1>3, EndFacts
<1> QED
  BY <1>2, <1>3, <1>4 DEF a, b

LEMMA CutTwice ==
  ASSUME NEW m, NEW img, NEW n \in Partitions, CutOf(img, m, n),
         NEW result, NEW last \in Partitions, CutOf(result, img, last)
  PROVE  /\ n <= last => CutOf(result, m, n)
         /\ last <= n => CutOf(result, m, last)
<1>1. n \in Nat /\ last \in Nat /\ \A p \in Partitions : p \in Nat
  BY PartitionFacts
<1>2. /\ result.Card = m.Card /\ result.MediaUnit = m.MediaUnit /\ result.Ncch = m.Ncch
      /\ result.Table = [p \in Partitions |-> IF p <= last THEN img.Table[p] ELSE Absent]
      /\ img.Table = [p \in Partitions |-> IF p <= n THEN m.Table[p] ELSE Absent]
  BY DEF CutOf
<1>3. ASSUME n <= last
      PROVE  result.Table = [p \in Partitions |-> IF p <= n THEN m.Table[p] ELSE Absent]
  BY <1>1, <1>2, <1>3
<1>4. ASSUME last <= n
      PROVE  result.Table = [p \in Partitions |-> IF p <= last THEN m.Table[p] ELSE Absent]
  BY <1>1, <1>2, <1>4
<1> QED
  BY <1>2, <1>3, <1>4 DEF CutOf

LEMMA CutNothing ==
  ASSUME NEW img, IsImage(img), NEW result, result.Card = img.Card,
         result.MediaUnit = img.MediaUnit, result.Ncch = img.Ncch, result.Table = img.Table
  PROVE  CutOf(result, img, LastPartition)
<1>1. img.Table = [p \in Partitions |-> img.Table[p]]
  BY DEF IsImage
<1>2. \A p \in Partitions : p <= LastPartition
  BY PartitionFacts
<1>3. img.Table = [p \in Partitions |-> IF p <= LastPartition THEN img.Table[p] ELSE Absent]
  BY <1>1, <1>2
<1> QED
  BY <1>3 DEF CutOf

LEMMA TrimmedFacts ==
  ASSUME NEW img, IsImage(img), Packed(img, LastPartition + 1), NEW last \in Partitions
  PROVE  LET t == Trimmed(img, last) IN
         /\ IsImage(t) /\ CutOf(t, img, last) /\ Complete(t, "trimmed")
         /\ t.Valid \in Nat /\ FirstNcch <= t.Valid /\ Length(t) = t.Valid
         /\ t.Valid = End(t, LastPartition + 1)
         /\ \A k \in 1 .. (t.Valid - FirstNcch) : k <= Len(img.Bytes) => t.Bytes[k] = img.Bytes[k]
<1> DEFINE drop == Dropped(last)
           table == [p \in Partitions |-> IF p \in drop THEN Absent ELSE img.Table[p]]
           cut == [img EXCEPT !.Table = table, !.Ncch  = IF 0 \in drop THEN 0 ELSE @]
           size == ValidSize(cut)
           t == [cut EXCEPT !.Valid = size, !.MediaSize = size \div cut.MediaUnit,
                            !.Bytes = Resized(@, size)]
<1>1. Trimmed(img, last) = t
  BY DEF Trimmed
<1>2. last \in Nat /\ \A p \in Partitions : p \in Nat
  BY PartitionFacts
<1>3. 0 \notin drop /\ table = [p \in Partitions |-> IF p <= last THEN img.Table[p] ELSE Absent]
  BY <1>2 DEF Dropped
<1>4. table \in [Partitions -> Entry]
  BY <1>3 DEF IsImage, Entry, Absent
<1> HIDE DEF drop, table
<1>5. /\ cut = [f \in Fields |-> cut[f]]
      /\ cut.Card = img.Card /\ cut.MediaUnit = img.MediaUnit /\ cut.Valid = img.Valid
      /\ cut.MediaSize = img.MediaSize /\ cut.Ncch = img.Ncch /\ cut.Bytes = img.Bytes
      /\ cut.Table = table
  <2>1. img = [f \in Fields |-> img[f]]
    BY DEF IsImage
  <2> QED
    BY <1>3, <2>1 DEF Fields
<1> HIDE DEF cut
<1>6. IsImage(cut)
  BY <1>4, <1>5 DEF IsImage
<1>7. CutOf(cut, img, last)
  BY <1>3, <1>5 DEF CutOf
<1>8. Packed(cut, LastPartition + 1)
  BY <1>6, <1>7, CutFacts
<1>9. size = End(cut, LastPartition + 1)
  BY <1>6, ValidSizeIsEnd
<1>10. LastPartition + 1 \in Nat
  BY ConstantFacts
<1>11. size \in Nat /\ FirstNcch <= size /\ Multiple(size, cut.MediaUnit)
  BY <1>6, <1>8, <1>9, <1>10, EndFacts, EndMultiple
<1> HIDE DEF size
<1>12. /\ t = [f \in Fields |-> t[f]]
       /\ t.Card = cut.Card /\ t.MediaUnit = cut.MediaUnit /\ t.Valid = size
       /\ t.MediaSize = size \div cut.MediaUnit
       /\ t.Ncch = cut.Ncch /\ t.Bytes = Resized(cut.Bytes, size) /\ t.Table = cut.Table
  BY <1>5 DEF Fields
<1> HIDE DEF t
<1>13. cut.Bytes \in Seq(Nat) /\ cut.MediaUnit \in Nat \ {0}
  BY <1>6, ConstantFacts DEF IsImage
<1>14. size \div cut.MediaUnit \in Nat
  BY <1>11, <1>13, MultipleDivided
<1>15. /\ t.Bytes \in Seq(Nat) /\ Len(t.Bytes) = size - FirstNcch
       /\ \A k \in 1 .. (size - FirstNcch) : k <= Len(cut.Bytes) => t.Bytes[k] = cut.Bytes[k]
  <2> DEFINE old == cut.Bytes
  <2>1. old \in Seq(Nat)
    BY <1>13
  <2> HIDE DEF old
  <2>2. /\ Resized(old, size) \in Seq(Nat) /\ Len(Resized(old, size)) = size - FirstNcch
        /\ \A k \in 1 .. (size - FirstNcch) :
             k <= Len(old) => Resized(old, size)[k] = old[k]
    BY <1>11, <2>1, ResizedFacts
  <2> QED
    BY <1>12, <2>2 DEF old
<1>16. IsImage(t)
  BY <1>6, <1>11, <1>12, <1>14, <1>15 DEF IsImage
<1>17. CutOf(t, img, last)
  BY <1>7, <1>12 DEF CutOf
<1>18. Length(t) = size
  BY <1>11, <1>15, ConstantFacts DEF Length
<1>19. End(t, LastPartition + 1) = End(cut, LastPartition + 1)
  BY <1>12, EndSame
<1>20. \A k \in DOMAIN t.Bytes : FirstNcch + k > size => t.Bytes[k] = Filling
  <2>1. DOMAIN t.Bytes = 1 .. (size - FirstNcch)
    BY <1>15
  <2>2. \A k \in 1 .. (size - FirstNcch) : ~ FirstNcch + k > size
    BY <1>11, ConstantFacts
  <2> QED
    BY <2>1, <2>2
<1>21. Complete(t, "trimmed")
  BY <1>9, <1>11, <1>12, <1>18, <1>19, <1>20 DEF Complete
<1> QED
  BY <1>1, <1>5, <1>9, <1>11, <1>12, <1>15, <1>16, <1>17, <1>18, <1>19, <1>21

LEMMA PaddedFacts ==
  ASSUME NEW img, IsImage(img), Packed(img, LastPartition + 1), img.Card = "CARD1"
  PROVE  LET t == Padded(img) IN
         /\ IsImage(t) /\ CutOf(t, img, LastPartition) /\ Complete(t, "padded")
         /\ t.Valid \in Nat /\ FirstNcch <= t.Valid /\ t.Valid <= Length(t)
         /\ t.Valid = End(img, LastPartition + 1)
         /\ \A k \in 1 .. (t.Valid - FirstNcch) : k <= Len(img.Bytes) => t.Bytes[k] = img.Bytes[k]
<1> DEFINE size == ValidSize(img)
           card == CardFor(Card1, size)
           filled == Filled(img, card)
           t == [img EXCEPT !.Valid = size, !.MediaSize = card \div img.MediaUnit,
                            !.Bytes = Resized(filled, card)]
<1>1. Padded(img) = t
  BY DEF Padded
<1>2. size = End(img, LastPartition + 1)
  BY ValidSizeIsEnd
<1>3. LastPartition + 1 \in Nat
  BY ConstantFacts
<1>4. size \in Nat /\ FirstNcch <= size /\ size <= Limit(LastPartition + 1)
  BY <1>2, <1>3, EndFacts
<1> HIDE DEF size
<1>5. card \in Nat /\ size <= card /\ Multiple(card, BlockSize)
  BY <1>4, CardForFacts
<1>6. img.MediaUnit \in MediaUnits /\ img.MediaUnit \in Nat \ {0}
  BY ConstantFacts DEF IsImage
<1>7. Capacities(img) = Card1
  BY DEF Capacities
<1> HIDE DEF card
<1>8. Multiple(card, img.MediaUnit)
  BY <1>5, <1>6, ConstantFacts, UnitFacts, MultipleOfMultiple
<1>9. card \div img.MediaUnit \in Nat
  BY <1>5, <1>6, <1>8, MultipleDivided
<1>10. FirstNcch <= card
  BY <1>4, <1>5, ConstantFacts
<1>11. /\ filled \in Seq(Nat) /\ card <= FirstNcch + Len(filled)
       /\ \A k \in 1 .. Len(img.Bytes) : FirstNcch + k <= size => filled[k] = img.Bytes[k]
       /\ \A k \in 1 .. Len(filled) :
            size < FirstNcch + k /\ FirstNcch + k <= card => filled[k] = Filling
  BY <1>2, <1>5, <1>10, FilledFacts
<1> HIDE DEF filled
<1>12. /\ t = [f \in Fields |-> t[f]]
       /\ t.Card = img.Card /\ t.MediaUnit = img.MediaUnit /\ t.Valid = size
       /\ t.MediaSize = card \div img.MediaUnit
       /\ t.Ncch = img.Ncch /\ t.Bytes = Resized(filled, card) /\ t.Table = img.Table
  <2>1. img = [f \in Fields |-> img[f]]
    BY DEF IsImage
  <2> QED
    BY <2>1 DEF Fields
<1> HIDE DEF t
<1>13. /\ t.Bytes \in Seq(Nat) /\ Len(t.Bytes) = card - FirstNcch
       /\ \A k \in 1 .. (card - FirstNcch) : k <= Len(filled) => t.Bytes[k] = filled[k]
  <2>1. /\ Resized(filled, card) \in Seq(Nat) /\ Len(Resized(filled, card)) = card - FirstNcch
        /\ \A k \in 1 .. (card - FirstNcch) :
             k <= Len(filled) => Resized(filled, card)[k] = filled[k]
    BY <1>5, <1>10, <1>11, ResizedFacts
  <2> QED
    BY <1>12, <2>1
<1>14. IsImage(t)
  BY <1>4, <1>9, <1>12, <1>13 DEF IsImage
<1>15. CutOf(t, img, LastPartition)
  BY <1>12, CutNothing
<1>16. Length(t) = card
  BY <1>5, <1>13, ConstantFacts DEF Length
<1>17. End(t, LastPartition + 1) = size
  BY <1>2, <1>12, EndSame
<1>18. Len(filled) \in Nat /\ Len(img.Bytes) \in Nat
  BY <1>11 DEF IsImage
<1>19. \A k \in 1 .. (card - FirstNcch) : t.Bytes[k] = filled[k] /\ k \in 1 .. Len(filled)
  BY <1>5, <1>11, <1>13, <1>18, ConstantFacts
<1>20. \A k \in DOMAIN t.Bytes : FirstNcch + k > size => t.Bytes[k] = Filling
  <2>1. DOMAIN t.Bytes = 1 .. (card - FirstNcch)
    BY <1>13
  <2>2. \A k \in 1 .. (card - FirstNcch) :
          FirstNcch + k > size => size < FirstNcch + k /\ FirstNcch + k <= card
    BY <1>4, <1>5, ConstantFacts
  <2> QED
    BY <1>11, <1>19, <2>1, <2>2
<1>21. Complete(t, "padded")
  BY <1>7, <1>8, <1>12, <1>16, <1>17, <1>20 DEF Complete, Capacities, card
<1>22. ASSUME NEW k \in 1 .. (size - FirstNcch), k <= Len(img.Bytes)
       PROVE  t.Bytes[k] = img.Bytes[k]
  <2>1. k \in 1 .. (card - FirstNcch) /\ k \in 1 .. Len(img.Bytes) /\ FirstNcch + k <= size
    BY <1>4, <1>5, <1>18, <1>22, ConstantFacts
  <2> QED
    BY <1>11, <1>19, <2>1
<1>23. t.Valid = End(img, LastPartition + 1) /\ size <= Length(t)
  BY <1>2, <1>5, <1>12, <1>16
<1> QED
  BY <1>1, <1>4, <1>12, <1>14, <1>15, <1>21, <1>22, <1>23

-----------------------------------------------------------------------------
(* What is left of an image                                                *)

LEMMA MixedFacts ==
  ASSUME NEW img, IsImage(img), NEW result, IsImage(result), NEW n \in Partitions,
         CutOf(result, img, n), NEW bytes \in Seq(Nat), NEW t \in Mixed(img, result, bytes),
         FirstNcch <= img.Valid, FirstNcch <= result.Valid
  PROVE  /\ IsImage(t) /\ t.Bytes = bytes /\ FirstNcch <= t.Valid
         /\ CutOf(t, img, n) \/ CutOf(t, img, LastPartition)
<1>1. PICK h \in {img, result}, c \in {img, result} :
        t = [img EXCEPT !.Table = h.Table, !.MediaSize = h.MediaSize,
                        !.Valid = c.Valid, !.Ncch = c.Ncch, !.Bytes = bytes]
  BY DEF Mixed
<1>2. IsImage(h) /\ IsImage(c)
  OBVIOUS
<1>3. h.Table \in [Partitions -> Entry] /\ h.MediaSize \in Nat /\ c.Valid \in Nat
  BY <1>2 DEF IsImage
<1>4. /\ IsImage(t) /\ t.Card = img.Card /\ t.MediaUnit = img.MediaUnit
      /\ t.Table = h.Table /\ t.Valid = c.Valid /\ t.Ncch = c.Ncch /\ t.Bytes = bytes
  <2>1. img = [f \in Fields |-> img[f]]
    BY DEF IsImage
  <2>2. /\ t = [f \in Fields |-> t[f]]
        /\ t.Card = img.Card /\ t.MediaUnit = img.MediaUnit
        /\ t.Table = h.Table /\ t.MediaSize = h.MediaSize
        /\ t.Valid = c.Valid /\ t.Ncch = c.Ncch /\ t.Bytes = bytes
    BY <1>1, <2>1 DEF Fields
  <2> QED
    BY <1>3, <2>2 DEF IsImage
<1>5. c.Ncch = img.Ncch
  BY DEF CutOf
<1>6. CASE h = img
  <2>1. CutOf(t, img, LastPartition)
    BY <1>4, <1>5, <1>6, CutNothing
  <2> QED
    BY <1>4, <2>1
<1>7. CASE h = result
  <2>1. CutOf(t, img, n)
    BY <1>4, <1>5, <1>7 DEF CutOf
  <2> QED
    BY <1>4, <2>1
<1> QED
  BY <1>6, <1>7

LEMMA LeftIf ==
  ASSUME NEW m, IsImage(m), Packed(m, LastPartition + 1),
         NEW r \in Partitions, NEW img, Left(img, m, r),
         NEW s \in Partitions, s <= r, NEW last \in Partitions, s <= last,
         NEW t, IsImage(t), FirstNcch <= t.Valid, CutOf(t, img, last),
         End(m, s + 1) <= Length(t),
         \A k \in 1 .. (End(m, s + 1) - FirstNcch) : t.Bytes[k] = img.Bytes[k]
  PROVE  Left(t, m, s)
<1>1. PICK n \in r .. LastPartition : CutOf(img, m, n)
  BY DEF Left
<1>2. n \in Partitions /\ s <= n /\ n \in Nat /\ s \in Nat /\ last \in Nat /\ r \in Nat
  BY <1>1, PartitionFacts, ConstantFacts DEF Partitions
<1>3. \E i \in s .. LastPartition : CutOf(t, m, i)
  <2>1. CASE n <= last
    <3>1. CutOf(t, m, n)
      BY <1>1, <1>2, <2>1, CutTwice
    <3>2. n \in s .. LastPartition
      BY <1>2, PartitionFacts, ConstantFacts
    <3> QED
      BY <3>1, <3>2
  <2>2. CASE last <= n
    <3>1. CutOf(t, m, last)
      BY <1>1, <1>2, <2>2, CutTwice
    <3>2. last \in s .. LastPartition
      BY <1>2, PartitionFacts, ConstantFacts
    <3> QED
      BY <3>1, <3>2
  <2> QED
    BY <1>2, <2>1, <2>2
<1> DEFINE a == s + 1  b == r + 1
<1>4. a \in Nat /\ b \in Nat /\ a <= b /\ LastPartition + 1 \in Nat /\ b <= LastPartition + 1
  BY <1>2, PartitionFacts, ConstantFacts
<1>5. Agree(img, m, End(m, b))
  BY DEF Left
<1>6. End(m, a) <= Length(t)
  OBVIOUS
<1>7. \A k \in 1 .. (End(m, a) - FirstNcch) : t.Bytes[k] = img.Bytes[k]
  OBVIOUS
<1> HIDE DEF a, b
<1>8. Packed(m, a) /\ Packed(m, b)
  BY <1>4, PackedLess
<1>9. End(m, a) \in Nat /\ End(m, b) \in Nat /\ End(m, a) <= End(m, b)
  BY <1>4, <1>8, EndFacts, EndGrows
<1>10. Length(m) \in Nat
  BY LengthFacts DEF IsImage
<1>11. End(m, a) <= Length(m)
  BY <1>5, <1>9, <1>10 DEF Agree
<1>12. \A k \in 1 .. (End(m, a) - FirstNcch) : img.Bytes[k] = m.Bytes[k]
  <2>1. \A k \in 1 .. (End(m, a) - FirstNcch) : k \in 1 .. (End(m, b) - FirstNcch)
    BY <1>9, ConstantFacts
  <2> QED
    BY <1>5, <2>1 DEF Agree
<1>13. Agree(t, m, End(m, a))
  BY <1>6, <1>7, <1>11, <1>12 DEF Agree
<1>14. t.Valid >= FirstNcch
  BY ConstantFacts DEF IsImage
<1> QED
  BY <1>3, <1>13, <1>14 DEF Left, a

\* The end of what is reserved lies within the image, and before all its partitions end.
LEMMA LeftFacts ==
  ASSUME NEW m, IsImage(m), Packed(m, LastPartition + 1),
         NEW r \in Partitions, NEW img, Left(img, m, r), NEW s \in Partitions, s <= r
  PROVE  /\ IsImage(img) /\ Packed(img, LastPartition + 1) /\ FirstNcch <= img.Valid
         /\ End(m, s + 1) \in Nat /\ FirstNcch <= End(m, s + 1)
         /\ End(img, s + 1) = End(m, s + 1)
         /\ End(m, s + 1) <= Length(img) /\ End(m, s + 1) <= End(img, LastPartition + 1)
         /\ End(img, LastPartition + 1) \in Nat
<1>1. IsImage(img) /\ FirstNcch <= img.Valid
  BY ConstantFacts DEF Left, IsImage
<1>2. PICK n \in r .. LastPartition : CutOf(img, m, n)
  BY DEF Left
<1>3. n \in Partitions /\ s <= n /\ r <= n /\ n \in Nat /\ s \in Nat /\ r \in Nat
  BY <1>2, PartitionFacts, ConstantFacts DEF Partitions
<1>4. Packed(img, LastPartition + 1)
  BY <1>1, <1>2, <1>3, CutFacts
<1>5. /\ End(m, s + 1) \in Nat /\ FirstNcch <= End(m, s + 1)
      /\ End(img, s + 1) = End(m, s + 1)
      /\ End(m, s + 1) <= End(img, LastPartition + 1)
      /\ End(img, LastPartition + 1) \in Nat
  BY <1>1, <1>2, <1>3, CutEnds
<1>6. End(m, s + 1) <= Length(img)
  <2> DEFINE a == s + 1  b == r + 1
  <2>1. a \in Nat /\ b \in Nat /\ a <= b /\ LastPartition + 1 \in Nat /\ b <= LastPartition + 1
    BY <1>3, PartitionFacts, ConstantFacts
  <2>2. End(m, b) <= Length(img)
    BY DEF Left, Agree
  <2> HIDE DEF a, b
  <2>3. Packed(m, a) /\ Packed(m, b)
    BY <2>1, PackedLess
  <2>4. End(m, a) \in Nat /\ End(m, b) \in Nat /\ End(m, a) <= End(m, b)
    BY <2>1, <2>3, EndFacts, EndGrows
  <2>5. Length(img) \in Nat
    BY <1>1, LengthFacts DEF IsImage
  <2>6. End(m, a) <= Length(img)
    BY <2>2, <2>4, <2>5
  <2> QED
    BY <2>6 DEF a
<1> QED
  BY <1>1, <1>4, <1>5, <1>6

\* The reserved bytes, below e, are among those that are not touched, below n.
LEMMA Untouched ==
  ASSUME NEW e \in Nat, NEW n \in Nat, e <= n, NEW img, IsImage(img), e <= Length(img)
  PROVE  \A k \in 1 .. (e - FirstNcch) :
           /\ k \in 1 .. (n - FirstNcch) /\ k \in 1 .. Len(img.Bytes)
           /\ k <= Len(img.Bytes) /\ FirstNcch + k <= n
<1>1. Len(img.Bytes) \in Nat /\ Length(img) = FirstNcch + Len(img.Bytes)
  BY LengthFacts DEF IsImage
<1> QED
  BY <1>1, ConstantFacts

LEMMA TrimmedLeft ==
  ASSUME NEW m, IsImage(m), Packed(m, LastPartition + 1),
         NEW r \in Partitions, NEW img, Left(img, m, r),
         NEW last \in Partitions, NEW s \in Partitions, s <= r, s <= last
  PROVE  /\ Left(Trimmed(img, last), m, s) /\ Complete(Trimmed(img, last), "trimmed")
         /\ \A t \in KilledTrims(img, last) : Left(t, m, s)
<1> DEFINE result == Trimmed(img, last)
           e == End(m, s + 1)
<1>1. /\ IsImage(img) /\ Packed(img, LastPartition + 1) /\ FirstNcch <= img.Valid
      /\ e \in Nat /\ e <= Length(img) /\ e = End(img, s + 1)
  BY LeftFacts
<1>2. /\ IsImage(result) /\ CutOf(result, img, last) /\ Complete(result, "trimmed")
      /\ result.Valid \in Nat /\ FirstNcch <= result.Valid /\ Length(result) = result.Valid
      /\ result.Valid = End(result, LastPartition + 1)
      /\ \A k \in 1 .. (result.Valid - FirstNcch) :
           k <= Len(img.Bytes) => result.Bytes[k] = img.Bytes[k]
  BY <1>1, TrimmedFacts
<1> HIDE DEF result
<1>3. End(img, s + 1) <= End(result, LastPartition + 1)
  BY <1>1, <1>2, CutEnds
<1>4. e <= Length(result) /\ e <= result.Valid
  BY <1>1, <1>2, <1>3
<1>5. \A k \in 1 .. (e - FirstNcch) : result.Bytes[k] = img.Bytes[k]
  <2> DEFINE n == result.Valid
  <2>1. n \in Nat /\ e <= n
    BY <1>2, <1>4
  <2> HIDE DEF e, n
  <2>2. \A k \in 1 .. (e - FirstNcch) : k \in 1 .. (n - FirstNcch) /\ k <= Len(img.Bytes)
    BY <1>1, <2>1, Untouched
  <2> QED
    BY <1>2, <2>2 DEF n
<1>6. Left(result, m, s)
  BY <1>2, <1>4, <1>5, LeftIf
<1>7. ASSUME NEW t \in KilledTrims(img, last)
      PROVE  Left(t, m, s)
  <2>1. s <= LastPartition /\ LastPartition \in Partitions
    BY PartitionFacts
  <2>2. CASE t \in Mixed(img, result, img.Bytes)
    <3>1. img.Bytes \in Seq(Nat)
      BY <1>1 DEF IsImage
    <3>2. /\ IsImage(t) /\ t.Bytes = img.Bytes /\ FirstNcch <= t.Valid
          /\ CutOf(t, img, last) \/ CutOf(t, img, LastPartition)
      BY <1>1, <1>2, <2>2, <3>1, MixedFacts
    <3>3. e <= Length(t)
      BY <1>1, <3>2 DEF Length
    <3>4. \A k \in 1 .. (e - FirstNcch) : t.Bytes[k] = img.Bytes[k]
      BY <3>2
    <3> QED
      BY <2>1, <3>2, <3>3, <3>4, LeftIf
  <2>3. CASE t \in Mixed(img, result, result.Bytes)
    <3>1. result.Bytes \in Seq(Nat)
      BY <1>2 DEF IsImage
    <3>2. /\ IsImage(t) /\ t.Bytes = result.Bytes /\ FirstNcch <= t.Valid
          /\ CutOf(t, img, last) \/ CutOf(t, img, LastPartition)
      BY <1>1, <1>2, <2>3, <3>1, MixedFacts
    <3>3. e <= Length(t)
      BY <1>4, <3>2 DEF Length
    <3>4. \A k \in 1 .. (e - FirstNcch) : t.Bytes[k] = img.Bytes[k]
      BY <1>5, <3>2
    <3> QED
      BY <2>1, <3>2, <3>3, <3>4, LeftIf
  <2> QED
    BY <2>2, <2>3 DEF KilledTrims, result
<1> QED
  BY <1>2, <1>6, <1>7 DEF result

LEMMA PaddedLeft ==
  ASSUME NEW m, IsImage(m), Packed(m, LastPartition + 1),
         NEW r \in Partitions, NEW img, Left(img, m, r), img.Card = "CARD1"
  PROVE  /\ Left(Padded(img), m, r) /\ Complete(Padded(img), "padded")
         /\ \A t \in KilledPads(img) : Left(t, m, r)
<1> DEFINE result == Padded(img)
           e == End(m, r + 1)
           size == End(img, LastPartition + 1)
           last == LastPartition
<1>1. r \in Nat /\ r <= r /\ r <= last /\ last \in Partitions
  BY PartitionFacts
<1>2. /\ IsImage(img) /\ Packed(img, LastPartition + 1) /\ FirstNcch <= img.Valid
      /\ e \in Nat /\ FirstNcch <= e /\ e <= Length(img) /\ e <= size /\ size \in Nat
  BY <1>1, LeftFacts
<1>3. /\ IsImage(result) /\ CutOf(result, img, last) /\ Complete(result, "padded")
      /\ result.Valid \in Nat /\ FirstNcch <= result.Valid /\ result.Valid <= Length(result)
      /\ result.Valid = size
      /\ \A k \in 1 .. (result.Valid - FirstNcch) :
           k <= Len(img.Bytes) => result.Bytes[k] = img.Bytes[k]
  BY <1>2, PaddedFacts
<1> HIDE DEF result
<1>4. Length(result) \in Nat
  BY <1>3, LengthFacts DEF IsImage
<1>5. e <= Length(result) /\ FirstNcch <= Length(result)
  BY <1>2, <1>3, <1>4, ConstantFacts
<1>6. \A k \in 1 .. (e - FirstNcch) :
        /\ k \in 1 .. (size - FirstNcch) /\ k \in 1 .. Len(img.Bytes)
        /\ k <= Len(img.Bytes) /\ FirstNcch + k <= size
  <2> HIDE DEF e, size
  <2> QED
    BY <1>2, Untouched
<1>7. \A k \in 1 .. (e - FirstNcch) : result.Bytes[k] = img.Bytes[k]
  BY <1>3, <1>6
<1>8. Left(result, m, r)
  <2>1. IsImage(result) /\ FirstNcch <= result.Valid /\ CutOf(result, img, LastPartition)
    BY <1>3
  <2> QED
    BY <1>1, <1>5, <1>7, <2>1, LeftIf
<1>9. ASSUME NEW n \in Nat, FirstNcch <= n
      PROVE  /\ Filled(img, n) \in Seq(Nat) /\ e <= FirstNcch + Len(Filled(img, n))
             /\ \A k \in 1 .. (e - FirstNcch) : Filled(img, n)[k] = img.Bytes[k]
  <2> DEFINE b == Filled(img, n)
  <2>1. /\ b \in Seq(Nat) /\ Length(img) <= FirstNcch + Len(b)
        /\ \A k \in 1 .. Len(img.Bytes) :
             FirstNcch + k <= size => b[k] = img.Bytes[k]
    BY <1>2, <1>9, FilledFacts
  <2> HIDE DEF b
  <2>2. Len(b) \in Nat /\ Length(img) \in Nat
    BY <1>2, <2>1, LengthFacts DEF IsImage
  <2>3. e <= FirstNcch + Len(b)
    BY <1>2, <2>1, <2>2, ConstantFacts
  <2>4. \A k \in 1 .. (e - FirstNcch) : b[k] = img.Bytes[k]
    BY <1>6, <2>1
  <2> QED
    BY <2>1, <2>3, <2>4 DEF b
<1>10. ASSUME NEW bytes \in Seq(Nat), e <= FirstNcch + Len(bytes),
              \A k \in 1 .. (e - FirstNcch) : bytes[k] = img.Bytes[k],
              NEW t \in Mixed(img, result, bytes)
       PROVE  Left(t, m, r)
  <2>1. /\ IsImage(t) /\ t.Bytes = bytes /\ FirstNcch <= t.Valid
        /\ CutOf(t, img, LastPartition)
    BY <1>1, <1>2, <1>3, <1>10, MixedFacts
  <2>2. e <= Length(t)
    BY <1>10, <2>1 DEF Length
  <2>3. \A k \in 1 .. (e - FirstNcch) : t.Bytes[k] = img.Bytes[k]
    BY <1>10, <2>1
  <2> QED
    BY <1>1, <2>1, <2>2, <2>3, LeftIf
<1>11. ASSUME NEW t \in KilledPads(img)
       PROVE  Left(t, m, r)
  <2> DEFINE card == Length(result)
  <2>1. CASE \E n \in ValidSize(img) .. card : t = [img EXCEPT !.Bytes = Filled(img, n)]
    <3>1. PICK n \in ValidSize(img) .. card : t = [img EXCEPT !.Bytes = Filled(img, n)]
      BY <2>1
    <3>2. ValidSize(img) = size
      BY <1>2, ValidSizeIsEnd
    <3>3. n \in Nat /\ FirstNcch <= n
      <4> HIDE DEF size, e, card
      <4>1. FirstNcch <= size
        BY <1>2, ConstantFacts
      <4> QED
        BY <1>2, <3>1, <3>2, <4>1, ConstantFacts
    <3> DEFINE b == Filled(img, n)
    <3>4. /\ b \in Seq(Nat) /\ e <= FirstNcch + Len(b)
          /\ \A k \in 1 .. (e - FirstNcch) : b[k] = img.Bytes[k]
      BY <1>9, <3>3
    <3>5. t = [img EXCEPT !.Bytes = b]
      BY <3>1
    <3> HIDE DEF b
    <3>6. /\ t = [f \in Fields |-> t[f]]
          /\ t.Card = img.Card /\ t.MediaUnit = img.MediaUnit /\ t.Valid = img.Valid
          /\ t.MediaSize = img.MediaSize /\ t.Ncch = img.Ncch
          /\ t.Bytes = b /\ t.Table = img.Table
      <4>1. img = [f \in Fields |-> img[f]]
        BY <1>2 DEF IsImage
      <4> QED
        BY <3>5, <4>1 DEF Fields
    <3>7. IsImage(t)
      BY <1>2, <3>4, <3>6 DEF IsImage
    <3>8. CutOf(t, img, LastPartition)
      BY <1>2, <3>6, CutNothing
    <3>9. e <= Length(t) /\ FirstNcch <= t.Valid
      BY <1>2, <3>4, <3>6 DEF Length
    <3>10. \A k \in 1 .. (e - FirstNcch) : t.Bytes[k] = img.Bytes[k]
      BY <3>4, <3>6
    <3> QED
      BY <1>1, <3>7, <3>8, <3>9, <3>10, LeftIf
  <2>2. CASE t \in Mixed(img, result, Filled(img, card))
    <3>1. card \in Nat /\ FirstNcch <= card
      BY <1>4, <1>5
    <3> HIDE DEF card
    <3> QED
      BY <1>9, <1>10, <2>2, <3>1
  <2>3. CASE t \in Mixed(img, result, result.Bytes)
    <3>1. result.Bytes \in Seq(Nat)
      BY <1>3 DEF IsImage
    <3>2. e <= FirstNcch + Len(result.Bytes)
      BY <1>5 DEF Length
    <3> QED
      BY <1>7, <1>10, <2>3, <3>1, <3>2
  <2>4. \/ t \in {[img EXCEPT !.Bytes = Filled(img, n)] : n \in ValidSize(img) .. card}
        \/ t \in Mixed(img, result, Filled(img, card))
        \/ t \in Mixed(img, result, result.Bytes)
    BY DEF KilledPads, result
  <2> QED
    BY <2>1, <2>2, <2>3, <2>4
<1> QED
  BY <1>3, <1>8, <1>11 DEF result

\* An image with the same table and form as another, and the same partitions, is the same.
LEMMA SameImage ==
  ASSUME NEW b, IsImage(b), Packed(b, LastPartition + 1), NEW a, IsImage(a),
         CutOf(a, b, LastPartition), NEW f \in Finished, Complete(a, f), Complete(b, f),
         Agree(a, b, End(b, LastPartition + 1))
  PROVE  a = b
<1> DEFINE e == End(b, LastPartition + 1)
<1>1. LastPartition \in Partitions /\ \A p \in Partitions : p <= LastPartition
  BY PartitionFacts
<1>2. a.Table = b.Table
  BY <1>1 DEF CutOf, IsImage
<1>3. a.Card = b.Card /\ a.MediaUnit = b.MediaUnit /\ a.Ncch = b.Ncch
  BY DEF CutOf
<1>4. a.Valid = e /\ b.Valid = e /\ e \in Nat
  <2>1. End(a, LastPartition + 1) = e
    BY <1>2, <1>3, EndSame
  <2>2. LastPartition + 1 \in Nat
    BY ConstantFacts
  <2> QED
    BY <2>1, <2>2, EndFacts DEF Complete
<1>5. Length(a) = Length(b)
  BY <1>3, <1>4 DEF Complete, Capacities, Finished
<1>6. a.MediaSize = b.MediaSize
  BY <1>3, <1>5 DEF Complete
<1>7. /\ Len(a.Bytes) = Len(b.Bytes) /\ Len(b.Bytes) \in Nat
      /\ DOMAIN a.Bytes = 1 .. Len(b.Bytes) /\ DOMAIN b.Bytes = 1 .. Len(b.Bytes)
  BY <1>5, LengthFacts, ConstantFacts DEF IsImage
<1>8. ASSUME NEW k \in 1 .. Len(b.Bytes)
      PROVE  a.Bytes[k] = b.Bytes[k]
  <2>1. CASE FirstNcch + k <= e
    <3>1. k \in 1 .. (e - FirstNcch)
      BY <1>4, <1>7, <2>1, ConstantFacts
    <3> QED
      BY <3>1 DEF Agree
  <2>2. CASE FirstNcch + k > e
    BY <1>4, <1>7, <2>2 DEF Complete
  <2> QED
    BY <1>4, <1>7, <2>1, <2>2, ConstantFacts
<1>9. a.Bytes = b.Bytes
  <2>1. a.Bytes \in Seq(Nat) /\ b.Bytes \in Seq(Nat)
    BY DEF IsImage
  <2> QED
    BY <1>7, <1>8, <2>1, SeqEqual
<1>10. a = [i \in Fields |-> a[i]] /\ b = [i \in Fields |-> b[i]]
  BY DEF IsImage
<1> QED
  BY <1>2, <1>3, <1>4, <1>6, <1>9, <1>10 DEF Fields

-----------------------------------------------------------------------------
(* Partitions and their files                                              *)

LEMMA Cancelled ==
  ASSUME NEW m \in Nat, NEW n \in Nat, NEW u \in Nat \ {0}, m * u = n * u
  PROVE  m = n
<1>1. CASE m < n
  <2>1. m + 1 <= n
    BY <1>1
  <2>2. (m + 1) * u <= n * u
    BY <2>1
  <2>3. (m + 1) * u = m * u + u
    OBVIOUS
  <2> QED
    BY <2>2, <2>3
<1>2. CASE n < m
  <2>1. n + 1 <= m
    BY <1>2
  <2>2. (n + 1) * u <= m * u
    BY <2>1
  <2>3. (n + 1) * u = n * u + u
    OBVIOUS
  <2> QED
    BY <2>2, <2>3
<1> QED
  BY <1>1, <1>2

LEMMA PresentFacts ==
  ASSUME NEW img, IsImage(img), NEW n \in Nat, Packed(img, n),
         NEW p \in Partitions, p < n, img.Table[p] # Absent
  PROVE  /\ Begins(img, p) = End(img, p) /\ FirstNcch <= Begins(img, p)
         /\ Ends(img, p) = Begins(img, p) + Room(img, p) /\ Ends(img, p) <= End(img, n)
         /\ 0 < Room(img, p) /\ Room(img, p) <= MaxNcch
<1>1. /\ Begins(img, p) = End(img, p) /\ img.Table[p].Size > 0 /\ Room(img, p) <= MaxNcch
  BY DEF Packed
<1>2. p \in Nat /\ p <= n
  BY PartitionFacts
<1>3. Packed(img, p)
  BY <1>2, PackedLess
<1>4. FirstNcch <= End(img, p)
  BY <1>2, <1>3, EndFacts
<1>5. Ends(img, p) <= End(img, n)
  BY EndFacts
<1>6. 0 < Room(img, p)
  <2>1. img.Table[p].Size \in Nat /\ img.MediaUnit \in Nat \ {0}
    BY EntryFacts DEF Entry
  <2>2. \A a, b \in Nat : a > 0 /\ b > 0 => 0 < a * b
    OBVIOUS
  <2> QED
    BY <1>1, <2>1, <2>2 DEF Room
<1> QED
  BY <1>1, <1>4, <1>5, <1>6 DEF Ends

LEMMA CompleteFits ==
  ASSUME NEW img, IsImage(img), Packed(img, LastPartition + 1),
         NEW f \in Finished, Complete(img, f)
  PROVE  /\ End(img, LastPartition + 1) \in Nat /\ FirstNcch <= End(img, LastPartition + 1)
         /\ End(img, LastPartition + 1) <= Length(img)
         /\ \A p \in Partitions : img.Table[p] # Absent =>
              FirstNcch <= Begins(img, p) /\ Ends(img, p) <= Length(img)
<1> DEFINE e == End(img, LastPartition + 1)
<1>1. LastPartition + 1 \in Nat /\ \A p \in Partitions : p < LastPartition + 1
  BY PartitionFacts, ConstantFacts
<1>2. e \in Nat /\ FirstNcch <= e /\ e <= Limit(LastPartition + 1)
  BY <1>1, EndFacts
<1>3. e <= Length(img)
  <2>1. CASE f = "trimmed"
    BY <1>2, <2>1 DEF Complete
  <2>2. CASE f = "padded"
    <3>1. Length(img) = CardFor(Capacities(img), e)
      BY <2>2 DEF Complete
    <3>2. Capacities(img) \in {Card1, Card2}
      BY DEF Capacities
    <3> HIDE DEF e
    <3> QED
      BY <1>2, <3>1, <3>2, CardForFacts
  <2> QED
    BY <2>1, <2>2 DEF Finished
<1>4. Length(img) \in Nat
  BY LengthFacts DEF IsImage
<1>5. ASSUME NEW p \in Partitions, img.Table[p] # Absent
      PROVE  FirstNcch <= Begins(img, p) /\ Ends(img, p) <= Length(img)
  <2>1. FirstNcch <= Begins(img, p) /\ Ends(img, p) <= e
    BY <1>1, <1>5, PresentFacts
  <2>2. Ends(img, p) \in Nat
    BY EntryFacts
  <2> HIDE DEF e
  <2> QED
    BY <1>2, <1>3, <1>4, <2>1, <2>2
<1> QED
  BY <1>2, <1>3, <1>5

LEMMA SavedFacts ==
  ASSUME NEW img, IsImage(img), NEW p \in Partitions,
         img.Table[p] # Absent => FirstNcch <= Begins(img, p) /\ Ends(img, p) <= Length(img)
  PROVE  /\ Saved(img, p) \in Seq(Nat) /\ Len(Saved(img, p)) = Room(img, p)
         /\ \A i \in 1 .. Room(img, p) :
              Saved(img, p)[i] = img.Bytes[Begins(img, p) - FirstNcch + i]
<1> DEFINE from == Begins(img, p) - FirstNcch
           room == Room(img, p)
           a == from + 1
           b == from + room
           bytes == img.Bytes
<1>1. /\ Begins(img, p) \in Nat /\ room \in Nat
      /\ img.Table[p] = Absent => room = 0
      /\ Ends(img, p) = Begins(img, p) + room
  BY EntryFacts DEF Ends
<1>2. /\ Len(bytes) \in Nat /\ Length(img) = FirstNcch + Len(bytes)
      /\ \A k \in 1 .. Len(bytes) : bytes[k] \in Nat
  BY LengthFacts DEF IsImage
<1>3. Saved(img, p) = SubSeq(bytes, a, b)
  BY DEF Saved
<1>4. from \in Int
  BY <1>1, ConstantFacts
<1>5. img.Table[p] # Absent => 0 <= from /\ from + room <= Len(bytes)
  BY <1>1, <1>2, ConstantFacts
<1> HIDE DEF from, room, bytes
<1>6. a \in Int /\ b \in Int
  BY <1>1, <1>4
<1>7. \A i \in a .. b : bytes[i] \in Nat
  <2>1. CASE img.Table[p] = Absent
    BY <1>1, <1>4, <2>1
  <2>2. CASE img.Table[p] # Absent
    <3>1. \A i \in a .. b : i \in 1 .. Len(bytes)
      BY <1>1, <1>2, <1>4, <1>5, <2>2
    <3> QED
      BY <1>2, <3>1
  <2> QED
    BY <2>1, <2>2
<1>8. b - a + 1 = room /\ (a <= b => b - a + 1 = room) /\ (~ a <= b => room = 0)
  BY <1>1, <1>4
<1>9. \A i \in Int : a + i - 1 = from + i
  BY <1>4
<1> HIDE DEF a, b
<1>10. /\ SubSeq(bytes, a, b) \in Seq(Nat)
       /\ Len(SubSeq(bytes, a, b)) = IF a <= b THEN b - a + 1 ELSE 0
       /\ \A i \in 1 .. b - a + 1 : SubSeq(bytes, a, b)[i] = bytes[a + i - 1]
  BY <1>6, <1>7, SubSeqProperties
<1>11. Len(SubSeq(bytes, a, b)) = room
  BY <1>8, <1>10
<1>12. \A i \in 1 .. room : SubSeq(bytes, a, b)[i] = bytes[from + i]
  BY <1>8, <1>9, <1>10
<1> QED
  BY <1>3, <1>10, <1>11, <1>12 DEF from, room, bytes

\* A partition stays what it is when only bytes behind are put or changed.
LEMMA HoldsStill ==
  ASSUME NEW a, IsImage(a), NEW b, IsImage(b), NEW p \in Partitions, FirstNcch <= Begins(a, p),
         b.Table[p] = a.Table[p], b.MediaUnit = a.MediaUnit,
         NEW file \in Seq(Nat), Holds(a, p, file), Length(a) <= Length(b),
         \A k \in 1 .. Len(a.Bytes) : b.Bytes[k] = a.Bytes[k]
  PROVE  Holds(b, p, file)
<1>1. Begins(b, p) = Begins(a, p) /\ Room(b, p) = Room(a, p) /\ Ends(b, p) = Ends(a, p)
  BY DEF Begins, Room, Ends
<1>2. /\ Begins(a, p) \in Nat /\ Room(a, p) \in Nat /\ Ends(a, p) \in Nat
      /\ Ends(a, p) = Begins(a, p) + Room(a, p)
  BY EntryFacts DEF Ends
<1>3. /\ Length(a) \in Nat /\ Length(b) \in Nat /\ Length(a) = FirstNcch + Len(a.Bytes)
      /\ Len(a.Bytes) \in Nat /\ Len(file) \in Nat
  BY LengthFacts DEF IsImage
<1>4. Len(file) <= Room(a, p) /\ Ends(a, p) <= Length(a)
  BY DEF Holds
<1>5. \A i \in 1 .. Len(file) : Begins(a, p) - FirstNcch + i \in 1 .. Len(a.Bytes)
  BY <1>2, <1>3, <1>4, ConstantFacts
<1>6. \A i \in 1 .. Len(file) : b.Bytes[Begins(b, p) - FirstNcch + i] = file[i]
  BY <1>1, <1>5 DEF Holds
<1>7. Ends(b, p) <= Length(b)
  BY <1>1, <1>2, <1>3, <1>4
<1> QED
  BY <1>1, <1>4, <1>6, <1>7 DEF Holds

LEMMA KeptStill ==
  ASSUME NEW a, IsImage(a), NEW b, IsImage(b), NEW n \in Nat, Packed(a, n),
         NEW files \in [Partitions -> Seq(Nat)], Kept(a, n, files),
         \A p \in Partitions : p < n => b.Table[p] = a.Table[p],
         b.MediaUnit = a.MediaUnit, 0 < n => b.Ncch = a.Ncch, Length(a) <= Length(b),
         \A k \in 1 .. Len(a.Bytes) : b.Bytes[k] = a.Bytes[k]
  PROVE  Kept(b, n, files)
<1> SUFFICES ASSUME NEW p \in Partitions, p < n
             PROVE  /\ files[p] = <<>> => b.Table[p] = Absent /\ (p = 0 => b.Ncch = 0)
                    /\ files[p] # <<>> =>
                         /\ b.Table[p] # Absent /\ Holds(b, p, files[p])
                         /\ p = 0 => NcchHeader <= Len(files[0]) /\ b.Ncch = files[0][NcchHeader]
  BY DEF Kept
<1>1. b.Table[p] = a.Table[p] /\ b.Ncch = a.Ncch
  BY PartitionFacts
<1>2. CASE files[p] = <<>>
  BY <1>1, <1>2 DEF Kept
<1>3. CASE files[p] # <<>>
  <2>1. /\ a.Table[p] # Absent /\ Holds(a, p, files[p])
        /\ p = 0 => NcchHeader <= Len(files[0]) /\ a.Ncch = files[0][NcchHeader]
    BY <1>3 DEF Kept
  <2>2. FirstNcch <= Begins(a, p) /\ files[p] \in Seq(Nat)
    BY <2>1, PresentFacts
  <2>3. Holds(b, p, files[p])
    <3> DEFINE file == files[p]
    <3>1. file \in Seq(Nat) /\ Holds(a, p, file)
      BY <2>1, <2>2
    <3> HIDE DEF file
    <3>2. Holds(b, p, file)
      BY <1>1, <2>2, <3>1, HoldsStill
    <3> QED
      BY <3>2 DEF file
  <2> QED
    BY <1>1, <1>3, <2>1, <2>3
<1> QED
  BY <1>2, <1>3

LEMMA PackedStill ==
  ASSUME NEW a, NEW b, NEW n \in Nat, Packed(a, n), b.MediaUnit = a.MediaUnit,
         \A p \in Partitions : p < n => b.Table[p] = a.Table[p]
  PROVE  Packed(b, n) /\ End(b, n) = End(a, n)
<1>1. End(b, n) = End(a, n)
  BY EndSame
<1>2. ASSUME NEW p \in Partitions, p < n, b.Table[p] # Absent
      PROVE  /\ Begins(b, p) = End(b, p)
             /\ b.Table[p].Size > 0 /\ Room(b, p) <= MaxNcch
             /\ Ends(b, p) <= Limit(p + 1)
  <2>1. b.Table[p] = a.Table[p]
    BY <1>2
  <2>2. Begins(b, p) = Begins(a, p) /\ Room(b, p) = Room(a, p) /\ Ends(b, p) = Ends(a, p)
    BY <2>1 DEF Begins, Room, Ends
  <2>3. \A q \in Partitions : q < p => b.Table[q] = a.Table[q]
    BY <1>2, PartitionFacts
  <2>4. End(b, p) = End(a, p)
    BY <2>3, EndSame
  <2> QED
    BY <1>2, <2>1, <2>2, <2>4 DEF Packed
<1> QED
  BY <1>1, <1>2 DEF Packed

\* The card info of an image is that of the first partition while that one is reserved.
LEMMA NcchIsKnown ==
  ASSUME NEW m, IsImage(m), Packed(m, LastPartition + 1),
         NEW files \in [Partitions -> Seq(Nat)], Kept(m, LastPartition + 1, files),
         NEW r \in Partitions, NEW img, Left(img, m, r)
  PROVE  NcchKnown(img)
<1>1. PICK n \in r .. LastPartition : CutOf(img, m, n)
  BY DEF Left
<1>2. n \in Partitions /\ 0 \in Partitions /\ 0 <= n /\ n \in Nat /\ r \in Nat
      /\ 0 < LastPartition + 1 /\ 0 < r + 1 /\ r + 1 \in Nat /\ LastPartition + 1 \in Nat
      /\ r + 1 <= LastPartition + 1
  BY <1>1, PartitionFacts, ConstantFacts DEF Partitions
<1>3. IsImage(img)
  BY DEF Left
<1>4. img.Table[0] = m.Table[0] /\ Begins(img, 0) = Begins(m, 0) /\ Room(img, 0) = Room(m, 0)
  BY <1>1, <1>2, <1>3, CutFacts
<1>5. img.Ncch = m.Ncch
  BY <1>1 DEF CutOf
<1>6. CASE m.Table[0] = Absent
  <2>1. m.Ncch = 0
    BY <1>2, <1>6 DEF Kept
  <2> QED
    BY <1>4, <1>5, <1>6, <2>1 DEF NcchKnown
<1>7. CASE m.Table[0] # Absent
  <2> DEFINE file == files[0]
  <2>1. /\ Holds(m, 0, file) /\ NcchHeader <= Len(file) /\ m.Ncch = file[NcchHeader]
    BY <1>2, <1>7 DEF Kept
  <2>2. file \in Seq(Nat) /\ Len(file) \in Nat
    BY <1>2
  <2> HIDE DEF file
  <2>3. /\ Len(file) <= Room(m, 0)
        /\ \A i \in 1 .. Len(file) : m.Bytes[Begins(m, 0) - FirstNcch + i] = file[i]
    BY <2>1 DEF Holds
  <2>4. NcchHeader \in 1 .. Len(file)
    BY <2>1, <2>2, ConstantFacts
  <2>5. m.Ncch = m.Bytes[Begins(m, 0) - FirstNcch + NcchHeader]
    BY <2>1, <2>3, <2>4
  <2> DEFINE b == r + 1
  <2>6. b \in Nat /\ 0 < b /\ Packed(m, b)
    BY <1>2, PackedLess
  <2>7. Agree(img, m, End(m, b))
    BY DEF Left
  <2> HIDE DEF b
  <2>8. /\ FirstNcch <= Begins(m, 0) /\ Ends(m, 0) = Begins(m, 0) + Room(m, 0)
        /\ Ends(m, 0) <= End(m, b)
    BY <1>2, <1>7, <2>6, PresentFacts
  <2>9. /\ Begins(m, 0) \in Nat /\ Room(m, 0) \in Nat /\ End(m, b) \in Nat
    BY <1>2, <2>6, EntryFacts, EndFacts
  <2>10. /\ Begins(m, 0) - FirstNcch + NcchHeader \in 1 .. (End(m, b) - FirstNcch)
         /\ NcchHeader <= Room(m, 0)
    BY <2>2, <2>3, <2>4, <2>8, <2>9, ConstantFacts
  <2>11. img.Bytes[Begins(m, 0) - FirstNcch + NcchHeader]
           = m.Bytes[Begins(m, 0) - FirstNcch + NcchHeader]
    BY <2>7, <2>10 DEF Agree
  <2> QED
    BY <1>4, <1>5, <1>7, <2>5, <2>10, <2>11 DEF NcchKnown
<1> QED
  BY <1>6, <1>7

\* An image that has saved the very files it was made from is as it was made.
LEMMA SavedIsSame ==
  ASSUME NEW m, IsImage(m), Packed(m, LastPartition + 1),
         NEW files \in [Partitions -> Seq(Nat)], Kept(m, LastPartition + 1, files),
         NEW r \in Partitions, NEW img, Left(img, m, r),
         NEW f \in Finished, Complete(img, f), Complete(m, f),
         \A p \in Partitions : files[p] = Saved(img, p)
  PROVE  img = m
<1> DEFINE e == End(m, LastPartition + 1)
<1>1. PICK n \in r .. LastPartition : CutOf(img, m, n)
  BY DEF Left
<1>2. n \in Partitions /\ LastPartition + 1 \in Nat /\ \A p \in Partitions : p < LastPartition + 1
  BY <1>1, PartitionFacts, ConstantFacts DEF Partitions
<1>3. r \in Nat /\ r <= r
  BY PartitionFacts
<1>4. IsImage(img) /\ Packed(img, LastPartition + 1)
  BY <1>3, LeftFacts
<1>5. \A p \in Partitions : img.Table[p] # Absent =>
        FirstNcch <= Begins(img, p) /\ Ends(img, p) <= Length(img)
  BY <1>4, CompleteFits
<1>6. ASSUME NEW p \in Partitions
      PROVE  img.Table[p] = m.Table[p]
  <2>1. CASE p <= n
    BY <1>1, <2>1 DEF CutOf
  <2>2. CASE ~ p <= n
    <3>1. img.Table[p] = Absent
      BY <1>1, <2>2 DEF CutOf
    <3>2. Saved(img, p) \in Seq(Nat) /\ Len(Saved(img, p)) = Room(img, p)
      BY <1>4, <1>5, SavedFacts
    <3>3. Room(img, p) = 0
      BY <1>4, <3>1, EntryFacts
    <3>4. files[p] = <<>>
      BY <3>2, <3>3, EmptySeq
    <3> QED
      BY <1>2, <3>1, <3>4 DEF Kept
  <2> QED
    BY <2>1, <2>2
<1>7. img.Card = m.Card /\ img.MediaUnit = m.MediaUnit /\ img.Ncch = m.Ncch
  BY <1>1 DEF CutOf
<1>8. img.Table = m.Table
  <2>1. img.Table \in [Partitions -> Entry] /\ m.Table \in [Partitions -> Entry]
    BY <1>4 DEF IsImage
  <2> QED
    BY <1>6, <2>1
<1>9. CutOf(img, m, LastPartition)
  BY <1>7, <1>8, CutNothing
<1>10. End(img, LastPartition + 1) = e
  BY <1>7, <1>8, EndSame
<1>11. e \in Nat /\ e <= Length(img) /\ e <= Length(m)
  <2>1. e \in Nat /\ e <= Length(m)
    BY CompleteFits
  <2>2. End(img, LastPartition + 1) <= Length(img)
    BY <1>4, CompleteFits
  <2> QED
    BY <1>10, <2>1, <2>2
<1>12. ASSUME NEW k \in 1 .. (e - FirstNcch)
       PROVE  img.Bytes[k] = m.Bytes[k]
  <2> DEFINE j == FirstNcch + k - 1
  <2>1. j \in Nat /\ FirstNcch <= j /\ j < e /\ k \in Int /\ k = j - FirstNcch + 1
    BY <1>11, ConstantFacts
  <2> HIDE DEF j
  <2>2. PICK p \in Partitions : /\ p < LastPartition + 1 /\ m.Table[p] # Absent
                                /\ Begins(m, p) <= j /\ j < Ends(m, p)
    <3>1. LastPartition + 1 <= LastPartition + 1
      BY <1>2
    <3> DEFINE l == LastPartition + 1
    <3>2. l \in Nat /\ l <= LastPartition + 1 /\ Packed(m, l) /\ j < End(m, l)
      BY <1>2, <2>1, <3>1
    <3> HIDE DEF l
    <3>3. \E p \in Partitions : /\ p < l /\ m.Table[p] # Absent
                                /\ Begins(m, p) <= j /\ j < Ends(m, p)
      BY <2>1, <3>2, Covered
    <3> QED
      BY <3>3 DEF l
  <2> DEFINE i == j - Begins(m, p) + 1
             file == files[p]
  <2>3. /\ Begins(img, p) = Begins(m, p) /\ Room(img, p) = Room(m, p)
        /\ Begins(m, p) \in Nat /\ Room(m, p) \in Nat
        /\ Ends(m, p) = Begins(m, p) + Room(m, p)
    BY <1>6, <1>7, EntryFacts DEF Begins, Room, Ends
  <2>4. i \in 1 .. Room(m, p) /\ Begins(m, p) - FirstNcch + i = k
    <3>1. \A b, l, s, h \in Nat : b <= h /\ h < b + l =>
            h - b + 1 \in 1 .. l /\ b - s + (h - b + 1) = h - s + 1
      OBVIOUS
    <3> QED
      BY <2>1, <2>2, <2>3, <3>1, ConstantFacts
  <2>5. /\ file = Saved(img, p) /\ Len(file) = Room(m, p)
        /\ \A h \in 1 .. Room(m, p) : file[h] = img.Bytes[Begins(m, p) - FirstNcch + h]
    BY <1>4, <1>5, <2>3, SavedFacts
  <2>6. file # <<>>
    <3>1. 0 < Room(m, p)
      BY <2>3, <2>4
    <3> HIDE DEF file
    <3> QED
      BY <2>3, <2>5, <3>1
  <2>7. Holds(m, p, file)
    BY <2>2, <2>6 DEF Kept
  <2> HIDE DEF i, file
  <2>8. file[i] = m.Bytes[Begins(m, p) - FirstNcch + i]
    BY <2>4, <2>5, <2>7 DEF Holds
  <2>9. file[i] = img.Bytes[Begins(m, p) - FirstNcch + i]
    BY <2>4, <2>5
  <2> QED
    BY <2>4, <2>8, <2>9
<1>13. Agree(img, m, e)
  BY <1>11, <1>12 DEF Agree
<1> QED
  BY <1>4, <1>9, <1>13, SameImage

-----------------------------------------------------------------------------
(* A partition is put                                                      *)

LEMMA AlignmentFacts ==
  ASSUME NEW img, IsImage(img), NEW a \in {BlockSize, img.MediaUnit}
  PROVE  /\ a \in Nat \ {0} /\ Multiple(a, img.MediaUnit)
         /\ Multiple(FirstNcch, a) /\ Multiple(MaxNcch, a)
<1>1. img.MediaUnit \in MediaUnits /\ img.MediaUnit \in Nat \ {0}
  BY ConstantFacts DEF IsImage
<1>2. CASE a = BlockSize
  BY <1>1, <1>2, ConstantFacts, BlockFacts, UnitFacts
<1>3. CASE a = img.MediaUnit
  <2>1. a = 1 * img.MediaUnit
    BY <1>1, <1>3
  <2>2. Multiple(a, img.MediaUnit)
    BY <2>1 DEF Multiple
  <2> QED
    BY <1>1, <1>3, <2>2, UnitFacts
<1> QED
  BY <1>2, <1>3

\* The image t is img and the file, as partition p.
IsPut(t, img, p, file, a) ==
  /\ t = [f \in Fields |-> t[f]]
  /\ t.Card = img.Card /\ t.MediaUnit = img.MediaUnit
  /\ t.Valid = img.Valid /\ t.MediaSize = img.MediaSize
  /\ t.Bytes = Appended(img.Bytes, file, a)
  /\ LET entry == [Offset |-> Length(img) \div img.MediaUnit,
                   Size   |-> Align(Len(file), a) \div img.MediaUnit]
     IN t.Table = [q \in Partitions |-> IF q = p THEN entry ELSE img.Table[q]]

LEMMA PutFacts ==
  ASSUME NEW img, IsImage(img), NEW p \in Partitions, Packed(img, p),
         NEW a \in {BlockSize, img.MediaUnit}, Multiple(Length(img), a),
         Length(img) = End(img, p), Length(img) <= Limit(p),
         NEW file \in Seq(Nat), file # <<>>, Len(file) <= MaxNcch,
         NEW t, IsPut(t, img, p, file, a)
  PROVE  /\ IsImage(t) /\ Packed(t, p + 1)
         /\ Length(t) = Length(img) + Align(Len(file), a) /\ Length(img) <= Length(t)
         /\ Multiple(Length(t), a) /\ Length(t) = End(t, p + 1) /\ Length(t) <= Limit(p + 1)
         /\ \A q \in Partitions : q < p => t.Table[q] = img.Table[q]
         /\ t.Table[p] # Absent /\ Holds(t, p, file)
         /\ Begins(t, p) = Length(img) /\ Room(t, p) = Align(Len(file), a)
         /\ \A k \in 1 .. Len(img.Bytes) : t.Bytes[k] = img.Bytes[k]
         /\ \A i \in 1 .. Len(file) : t.Bytes[Len(img.Bytes) + i] = file[i]
<1> DEFINE u == img.MediaUnit
           size == Align(Len(file), a)
           here == Length(img)
           entry == [Offset |-> here \div u, Size |-> size \div u]
<1>1. /\ a \in Nat \ {0} /\ Multiple(a, u) /\ Multiple(FirstNcch, a) /\ Multiple(MaxNcch, a)
  BY AlignmentFacts
<1>2. u \in Nat \ {0}
  BY ConstantFacts DEF IsImage
<1>3. /\ here \in Nat /\ here = FirstNcch + Len(img.Bytes) /\ FirstNcch <= here
      /\ Len(img.Bytes) \in Nat /\ img.Bytes \in Seq(Nat) /\ Multiple(here, a)
  BY LengthFacts DEF IsImage
<1>4. Len(file) \in Nat /\ Len(file) # 0
  BY EmptySeq
<1>5. size \in Nat /\ Len(file) <= size /\ Multiple(size, a) /\ size <= MaxNcch
  BY <1>1, <1>4, ConstantFacts, AlignProperties, AlignWithin
<1>6. p \in Nat /\ p + 1 \in Nat /\ p < p + 1
  BY PartitionFacts
<1>7. /\ t.Bytes \in Seq(Nat) /\ Len(t.Bytes) = Len(img.Bytes) + size
      /\ \A k \in 1 .. Len(img.Bytes) : t.Bytes[k] = img.Bytes[k]
      /\ \A i \in 1 .. Len(file) : t.Bytes[Len(img.Bytes) + i] = file[i]
  <2> DEFINE old == img.Bytes
  <2>1. old \in Seq(Nat) /\ Multiple(FirstNcch + Len(old), a) /\ t.Bytes = Appended(old, file, a)
    BY <1>3 DEF IsPut
  <2> HIDE DEF old
  <2>2. /\ Appended(old, file, a) \in Seq(Nat)
        /\ Len(Appended(old, file, a)) = Len(old) + size
        /\ \A k \in 1 .. Len(old) : Appended(old, file, a)[k] = old[k]
        /\ \A i \in 1 .. Len(file) : Appended(old, file, a)[Len(old) + i] = file[i]
    BY <1>1, <2>1, AppendedFacts
  <2> QED
    BY <2>1, <2>2 DEF old
<1> HIDE DEF size, here, u
<1>8. Multiple(here, u) /\ Multiple(size, u)
  BY <1>1, <1>2, <1>3, <1>5, MultipleOfMultiple
<1>9. /\ here \div u \in Nat /\ (here \div u) * u = here
      /\ size \div u \in Nat /\ (size \div u) * u = size
  BY <1>2, <1>3, <1>5, <1>8, MultipleDivided
<1>10. entry \in Entry /\ entry.Offset = here \div u /\ entry.Size = size \div u
  BY <1>9 DEF Entry
<1>11. t.Table = [q \in Partitions |-> IF q = p THEN entry ELSE img.Table[q]]
  BY DEF IsPut, here, size, u
<1> HIDE DEF entry
<1>12. /\ t.Table \in [Partitions -> Entry] /\ t.Table[p] = entry
       /\ \A q \in Partitions : q # p => t.Table[q] = img.Table[q]
  BY <1>10, <1>11 DEF IsImage
<1>13. \A q \in Partitions : q < p => t.Table[q] = img.Table[q]
  BY <1>6, <1>12
<1>14. IsImage(t)
  BY <1>7, <1>12 DEF IsImage, IsPut
<1>15. t.MediaUnit = u
  BY DEF u, IsPut
<1>16. /\ Begins(t, p) = here /\ Room(t, p) = size /\ Ends(t, p) = here + size
  BY <1>9, <1>10, <1>12, <1>15 DEF Begins, Room, Ends
<1>17. Length(t) = here + size
  BY <1>3, <1>5, <1>7, ConstantFacts DEF Length
<1>18. size > 0
  BY <1>4, <1>5
<1>19. entry.Size > 0
  BY <1>2, <1>9, <1>10, <1>18
<1>20. t.Table[p] # Absent
  BY <1>12, <1>19 DEF Absent
<1>21. Packed(t, p) /\ End(t, p) = here
  <2>1. t.MediaUnit = img.MediaUnit
    BY DEF IsPut
  <2> QED
    BY <1>6, <1>13, <2>1, PackedStill DEF here
<1>22. Limit(p + 1) \in Nat /\ Limit(p + 1) = Limit(p) + MaxNcch /\ Limit(p) \in Nat
  BY <1>6, LimitFacts
<1>23. here <= Limit(p)
  BY DEF here
<1>24. here + size <= Limit(p + 1)
  BY <1>3, <1>5, <1>22, <1>23, ConstantFacts
<1>25. Packed(t, p + 1)
  <2> SUFFICES ASSUME NEW q \in Partitions, q < p + 1, t.Table[q] # Absent
               PROVE  /\ Begins(t, q) = End(t, q)
                      /\ t.Table[q].Size > 0 /\ Room(t, q) <= MaxNcch
                      /\ Ends(t, q) <= Limit(q + 1)
    BY DEF Packed
  <2>1. CASE q = p
    BY <1>5, <1>12, <1>16, <1>19, <1>21, <1>24, <2>1
  <2>2. CASE q # p
    <3>1. q < p
      BY <1>6, <2>2, PartitionFacts
    <3> QED
      BY <1>21, <3>1 DEF Packed
  <2> QED
    BY <2>1, <2>2
<1>26. End(t, p + 1) = here + size
  BY <1>14, <1>16, <1>20, <1>25, EndNext
<1>27. Multiple(here + size, a)
  <2>1. here \in Int /\ size \in Int /\ a \in Nat
    BY <1>1, <1>3, <1>5
  <2>2. Multiple(here, a) /\ Multiple(size, a)
    BY <1>3, <1>5
  <2> QED
    BY <2>1, <2>2, MultipleSum
<1>28. Holds(t, p, file)
  <2>1. here - FirstNcch = Len(img.Bytes)
    BY <1>3, ConstantFacts
  <2>2. Ends(t, p) <= Length(t)
    BY <1>3, <1>5, <1>16, <1>17
  <2> QED
    BY <1>5, <1>7, <1>16, <2>1, <2>2 DEF Holds
<1>29. here <= here + size
  BY <1>3, <1>5
<1> QED
  BY <1>7, <1>13, <1>14, <1>16, <1>17, <1>20, <1>24, <1>25, <1>26, <1>27, <1>28, <1>29
     DEF here, size

\* The partition is where it was in the image that the file is from.
LEMMA PutAgain ==
  ASSUME NEW o, IsImage(o), Packed(o, LastPartition + 1),
         NEW f \in Finished, Complete(o, f), NcchKnown(o),
         NEW img, IsImage(img), NEW p \in Partitions, Packed(img, p),
         img.MediaUnit = o.MediaUnit, Length(img) = End(img, p),
         \A q \in Partitions : q < p => img.Table[q] = o.Table[q],
         NEW a, a = IF AlignToBlockSize(o) THEN BlockSize ELSE o.MediaUnit,
         NEW file, file = Saved(o, p), file # <<>>
  PROVE  /\ file \in Seq(Nat) /\ Align(Len(file), a) = Len(file)
         /\ Len(file) = Room(o, p) /\ Begins(o, p) = Length(img)
         /\ Ends(o, p) <= Length(o)
         /\ \A i \in 1 .. Len(file) : file[i] = o.Bytes[Len(img.Bytes) + i]
         /\ p = 0 => o.Ncch = file[NcchHeader]
<1>1. \A q \in Partitions : o.Table[q] # Absent =>
        FirstNcch <= Begins(o, q) /\ Ends(o, q) <= Length(o)
  BY CompleteFits
<1>2. /\ file \in Seq(Nat) /\ Len(file) = Room(o, p)
      /\ \A i \in 1 .. Room(o, p) : file[i] = o.Bytes[Begins(o, p) - FirstNcch + i]
  BY <1>1, SavedFacts
<1>3. o.Table[p] # Absent
  <2>1. Len(file) # 0
    BY <1>2, EmptySeq
  <2> QED
    BY <1>2, <2>1, EntryFacts
<1>4. p \in Nat /\ LastPartition + 1 \in Nat /\ p < LastPartition + 1
  BY PartitionFacts, ConstantFacts
<1>5. Begins(o, p) = End(o, p) /\ FirstNcch <= Begins(o, p) /\ Room(o, p) <= MaxNcch
  BY <1>3, <1>4, PresentFacts
<1>6. End(o, p) = End(img, p)
  BY EndSame
<1>7. Begins(o, p) = Length(img)
  BY <1>5, <1>6
<1>8. /\ Len(img.Bytes) \in Nat /\ Length(img) = FirstNcch + Len(img.Bytes)
      /\ Length(img) \in Nat
  BY LengthFacts DEF IsImage
<1>9. Begins(o, p) - FirstNcch = Len(img.Bytes)
  BY <1>7, <1>8, ConstantFacts
<1>10. \A i \in 1 .. Len(file) : file[i] = o.Bytes[Len(img.Bytes) + i]
  BY <1>2, <1>9
<1>11. Multiple(Room(o, p), a) /\ a \in Nat \ {0}
  <2> DEFINE s == o.Table[p].Size  u == o.MediaUnit
  <2>1. u \in MediaUnits /\ u \in Nat \ {0} /\ s \in Nat /\ Room(o, p) = s * u
    BY ConstantFacts, EntryFacts DEF IsImage, Entry, Room
  <2>2. CASE AlignToBlockSize(o)
    <3>1. a = BlockSize /\ s % UnitsPerBlock = 0
      BY <2>2 DEF AlignToBlockSize
    <3> HIDE DEF s, u
    <3>2. Multiple(s, UnitsPerBlock)
      BY <2>1, <3>1, ConstantFacts, MultipleModulo
    <3>3. PICK k \in Int : s = k * UnitsPerBlock
      BY <3>2 DEF Multiple
    <3> DEFINE b == UnitsPerBlock * u
    <3>4. b \in Nat /\ s * u = k * b
      BY <2>1, <3>3, ConstantFacts
    <3>5. Multiple(b, BlockSize)
      BY <2>1, UnitFacts
    <3> HIDE DEF b
    <3>6. Multiple(k * b, BlockSize)
      <4> DEFINE n == k * b
      <4>1. n \in Int /\ Multiple(n, b)
        BY <3>4 DEF Multiple
      <4> HIDE DEF n
      <4>2. Multiple(n, BlockSize)
        BY <3>4, <3>5, <4>1, ConstantFacts, MultipleOfMultiple
      <4> QED
        BY <4>2 DEF n
    <3> QED
      BY <2>1, <3>1, <3>4, <3>6, ConstantFacts
  <2>3. CASE ~ AlignToBlockSize(o)
    <3>1. a = u
      BY <2>3
    <3> HIDE DEF s, u
    <3>2. Multiple(s * u, u)
      <4>1. s \in Int /\ u \in Nat
        BY <2>1
      <4> QED
        BY <4>1, MultipleProduct
    <3> QED
      BY <2>1, <3>1, <3>2
  <2> QED
    BY <2>2, <2>3
<1>12. Align(Len(file), a) = Len(file)
  <2> DEFINE n == Len(file)
  <2>1. n \in Nat /\ Multiple(n, a)
    BY <1>2, <1>11
  <2> HIDE DEF n
  <2>2. Align(n, a) = n
    BY <1>11, <2>1, AlignMultiple
  <2> QED
    BY <2>2 DEF n
<1>13. ASSUME p = 0
       PROVE  o.Ncch = file[NcchHeader]
  <2>1. NcchHeader <= Room(o, 0) /\ o.Ncch = o.Bytes[Begins(o, 0) - FirstNcch + NcchHeader]
    BY <1>3, <1>13 DEF NcchKnown
  <2>2. Room(o, 0) \in Nat
    BY <1>13, EntryFacts
  <2>3. NcchHeader \in 1 .. Room(o, 0)
    BY <2>1, <2>2, ConstantFacts
  <2> QED
    BY <1>2, <1>13, <2>1, <2>3
<1> QED
  BY <1>1, <1>2, <1>3, <1>7, <1>10, <1>12, <1>13

-----------------------------------------------------------------------------
(* The invariant holds                                                     *)

LEMMA HeadersAreImages ==
  ASSUME NEW h \in Headers
  PROVE  IsImage(h) /\ h.Bytes = <<>>
<1>1. PICK card \in {"CARD1", "CARD2"}, unit \in MediaUnits,
           entry \in {Absent, [Offset |-> UnitsPerBlock, Size |-> 1]} :
        h = [Card |-> card, MediaUnit |-> unit, Valid |-> 0, MediaSize |-> 0, Ncch |-> 0,
             Bytes |-> <<>>, Table |-> [p \in Partitions |-> entry]]
  BY DEF Headers
<1>2. entry \in Entry
  BY ConstantFacts DEF Entry, Absent
<1>3. /\ h = [f \in Fields |-> h[f]]
      /\ h.Card = card /\ h.MediaUnit = unit /\ h.Valid = 0 /\ h.MediaSize = 0
      /\ h.Bytes = <<>> /\ h.Table = [p \in Partitions |-> entry]
  BY <1>1 DEF Fields
<1>4. h.Table \in [Partitions -> Entry]
  BY <1>2, <1>3
<1>5. h.Bytes \in Seq(Nat)
  BY <1>3, EmptySeq
<1> QED
  BY <1>3, <1>4, <1>5 DEF IsImage

LEMMA NcchFilesAreFiles ==
  ASSUME NEW p \in Partitions, NEW file \in NcchFiles(p)
  PROVE  file \in Seq(Nat) /\ Len(file) <= MaxNcch
<1>1. CASE file = <<>>
  BY <1>1, EmptySeq, ConstantFacts
<1>2. CASE file # <<>>
  <2>1. PICK s \in Sizes : file = [k \in 1 .. s |-> NcchByte(p, k)]
    BY <1>2 DEF NcchFiles
  <2>2. s \in Nat /\ s <= MaxNcch /\ p \in Nat
    BY ConstantFacts, PartitionFacts
  <2>3. \A k \in 1 .. s : NcchByte(p, k) \in Nat
    BY <2>2 DEF NcchByte
  <2>4. file \in [1 .. s -> Nat]
    BY <2>1, <2>3
  <2>5. file \in Seq(Nat) /\ Len(file) = s
    BY <2>1, <2>2, <2>4
  <2> QED
    BY <2>2, <2>5
<1> QED
  BY <1>1, <1>2

LEMMA InitInv == Init => Inv
<1> SUFFICES ASSUME Init PROVE Inv
  OBVIOUS
<1> USE DEF Init
<1>1. TypeInv
  <2>1. source \in [Partitions -> Seq(Nat)]
    BY EmptySeq
  <2>2. part \in 0 .. (LastPartition + 1) /\ kills \in 0 .. MaxKills /\ rebuilds \in 0 .. MaxRebuilds
    BY ConstantFacts
  <2>3. reserved \in Partitions
    BY PartitionFacts
  <2> QED
    BY <2>1, <2>2, <2>3 DEF TypeInv
<1>2. InputInv
  <2>1. IsImage(header) /\ header.Bytes = <<>>
    BY HeadersAreImages
  <2>2. \A p \in Partitions : ncch[p] \in Seq(Nat) /\ Len(ncch[p]) <= MaxNcch
    BY NcchFilesAreFiles
  <2>3. ncch = [p \in Partitions |-> ncch[p]]
    OBVIOUS
  <2> QED
    BY <2>1, <2>2, <2>3 DEF InputInv
<1>3. CreateInv /\ RebuildInv
  BY DEF CreateInv, RebuildInv
<1>4. MadeInv
  BY DEF MadeInv
<1>5. ImageInv
  BY DEF ImageInv
<1>6. RebuiltIsSame
  BY DEF RebuiltIsSame
<1> QED
  BY <1>1, <1>2, <1>3, <1>4, <1>5, <1>6 DEF Inv

LEMMA InputStays ==
  ASSUME InputInv, UNCHANGED inputVars
  PROVE  InputInv'
BY DEF InputInv, inputVars

LEMMA InvBeginCreate ==
  ASSUME Inv, BeginCreate
  PROVE  Inv'
<1>1. /\ phase' = "create" /\ notPad' \in BOOLEAN /\ alignToBlock' = AlignToBlockSize(header)
      /\ part' = 0 /\ image' = header /\ source' = [p \in Partitions |-> <<>>]
      /\ form' = "none" /\ reserved' = LastPartition
      /\ UNCHANGED inputVars /\ header' = header /\ origin' = origin
      /\ kills' = kills /\ rebuilds' = rebuilds
  BY DEF BeginCreate, inputVars
<1>2. TypeInv /\ InputInv
  BY DEF Inv
<1>3. TypeInv'
  <2>1. source' \in [Partitions -> Seq(Nat)]
    BY <1>1, EmptySeq
  <2>2. alignToBlock' \in BOOLEAN
    BY <1>1 DEF AlignToBlockSize
  <2> QED
    BY <1>1, <1>2, <2>1, <2>2, ConstantFacts, PartitionFacts DEF TypeInv
<1>4. InputInv'
  BY <1>1, <1>2, InputStays
<1>5. IsImage(header) /\ header.Bytes = <<>>
  BY <1>2 DEF InputInv
<1>6. Length(header) = FirstNcch
  BY <1>5, EmptySeq, ConstantFacts DEF Length
<1>7. End(header, 0) = FirstNcch
  BY <1>5, EndFirst
<1>8. \A p \in Partitions : ~ p < 0
  BY PartitionFacts
<1>9. Packed(header, 0) /\ Kept(header, 0, source')
  BY <1>8 DEF Packed, Kept
<1>10. Limit(0) \in Nat /\ FirstNcch <= Limit(0)
  BY LimitFacts
<1>11. Multiple(FirstNcch, Alignment')
  <2>1. Alignment' \in {BlockSize, header.MediaUnit}
    BY <1>1 DEF Alignment
  <2> QED
    BY <1>5, <2>1, AlignmentFacts
<1>12. CreateInv'
  BY <1>1, <1>5, <1>6, <1>7, <1>9, <1>10, <1>11 DEF CreateInv
<1>13. RebuildInv'
  <2> SUFFICES ASSUME origin # Nothing
               PROVE  Agree(header, origin.Image, Length(header))
    BY <1>1, <1>8 DEF RebuildInv
  <2>1. IsImage(origin.Image)
    BY <1>2 DEF InputInv
  <2>2. FirstNcch <= Length(origin.Image)
    BY <2>1, LengthFacts DEF IsImage
  <2>3. \A k \in 1 .. (FirstNcch - FirstNcch) : FALSE
    BY ConstantFacts
  <2> QED
    BY <1>6, <2>2, <2>3, ConstantFacts DEF Agree
<1>14. MadeInv' /\ ImageInv' /\ RebuiltIsSame'
  BY <1>1 DEF MadeInv, ImageInv, RebuiltIsSame
<1> QED
  BY <1>3, <1>4, <1>12, <1>13, <1>14 DEF Inv

\* What both ways to deal with a partition have in common.
LEMMA InvCreateNcchRest ==
  ASSUME Inv, CreateNcch
  PROVE  /\ phase = "create" /\ part \in Partitions /\ part' = part + 1 /\ phase' = "create"
         /\ UNCHANGED <<header, ncch, origin, alignToBlock>>
         /\ InputInv' /\ MadeInv' /\ ImageInv' /\ RebuiltIsSame'
         /\ source' \in [Partitions -> Seq(Nat)] => TypeInv'
         /\ TypeInv /\ InputInv /\ CreateInv /\ RebuildInv
<1>1. TypeInv /\ InputInv /\ CreateInv /\ RebuildInv
  BY DEF Inv
<1>2. /\ phase = "create" /\ part \in Partitions /\ part' = part + 1 /\ phase' = "create"
      /\ UNCHANGED inputVars
      /\ UNCHANGED <<header, ncch, origin, notPad, alignToBlock, form, reserved, kills, rebuilds>>
  BY DEF CreateNcch, inputVars
<1>3. InputInv'
  BY <1>1, <1>2, InputStays
<1>4. MadeInv' /\ ImageInv' /\ RebuiltIsSame'
  BY <1>2 DEF MadeInv, ImageInv, RebuiltIsSame
<1>5. part' \in 0 .. (LastPartition + 1)
  BY <1>2, ConstantFacts DEF Partitions
<1>6. source' \in [Partitions -> Seq(Nat)] => TypeInv'
  BY <1>1, <1>2, <1>5 DEF TypeInv
<1> QED
  BY <1>1, <1>2, <1>3, <1>4, <1>6

\* The image that the files are from, while they are put again.
LEMMA OriginFacts ==
  ASSUME InputInv, origin # Nothing
  PROVE  LET o == origin.Image IN
         /\ IsImage(o) /\ Packed(o, LastPartition + 1)
         /\ origin.Form \in Finished /\ Complete(o, origin.Form) /\ NcchKnown(o)
         /\ header.Card = o.Card /\ header.MediaUnit = o.MediaUnit
         /\ AlignToBlockSize(header) = AlignToBlockSize(o)
         /\ \A p \in Partitions : ncch[p] = Saved(o, p)
<1> DEFINE o == origin.Image
<1>1. /\ IsImage(o) /\ Packed(o, LastPartition + 1)
      /\ origin.Form \in Finished /\ Complete(o, origin.Form) /\ NcchKnown(o)
      /\ header = [o EXCEPT !.Bytes = <<>>]
      /\ \A p \in Partitions : ncch[p] = Saved(o, p)
  BY DEF InputInv
<1> HIDE DEF o
<1>2. header.Card = o.Card /\ header.MediaUnit = o.MediaUnit /\ header.Table = o.Table
  <2>1. o = [f \in Fields |-> o[f]]
    BY <1>1 DEF IsImage
  <2> QED
    BY <1>1, <2>1 DEF Fields
<1>3. AlignToBlockSize(header) = AlignToBlockSize(o)
  BY <1>2 DEF AlignToBlockSize
<1> QED
  BY <1>1, <1>2, <1>3 DEF o

LEMMA InvPut ==
  ASSUME Inv, CreateNcch, ncch[part] # <<>>,
         part = 0 => Len(ncch[part]) >= NcchHeader, PutNcch
  PROVE  Inv'
<1> DEFINE p == part
           file == ncch[p]
           a == Alignment
           t == image'
<1>1. /\ p \in Partitions /\ part' = p + 1 /\ phase' = "create" /\ phase = "create"
      /\ UNCHANGED <<header, ncch, origin, alignToBlock>>
      /\ InputInv' /\ MadeInv' /\ ImageInv' /\ RebuiltIsSame'
      /\ source' \in [Partitions -> Seq(Nat)] => TypeInv'
      /\ TypeInv /\ InputInv /\ CreateInv /\ RebuildInv
  BY InvCreateNcchRest
<1>2. file \in Seq(Nat) /\ file # <<>> /\ Len(file) <= MaxNcch /\ Len(file) \in Nat
      /\ (p = 0 => NcchHeader <= Len(file))
  BY <1>1, ConstantFacts DEF InputInv
<1>3. source' = [source EXCEPT ![p] = file] /\ source \in [Partitions -> Seq(Nat)]
  BY <1>1 DEF PutNcch, TypeInv
<1>4. source' \in [Partitions -> Seq(Nat)]
  BY <1>1, <1>2, <1>3
<1>5. /\ IsImage(image) /\ Packed(image, p) /\ Kept(image, p, source)
      /\ \A q \in Partitions : p <= q => source[q] = <<>>
      /\ image.Card = header.Card /\ image.MediaUnit = header.MediaUnit
      /\ alignToBlock = AlignToBlockSize(header)
      /\ Multiple(Length(image), a)
      /\ Length(image) = End(image, p) /\ Length(image) <= Limit(p)
  BY <1>1 DEF CreateInv
<1>6. a \in {BlockSize, image.MediaUnit}
  BY DEF Alignment
<1>7. IsPut(t, image, p, file, a) /\ t.Ncch = IF p = 0 THEN file[NcchHeader] ELSE image.Ncch
  <2> DEFINE entry == [Offset |-> Length(image) \div image.MediaUnit,
                       Size   |-> Align(Len(file), a) \div image.MediaUnit]
             bytes == Appended(image.Bytes, file, a)
             table == [image.Table EXCEPT ![p] = entry]
  <2>1. t = [image EXCEPT !.Table = table,
                          !.Ncch  = IF p = 0 THEN file[NcchHeader] ELSE @, !.Bytes = bytes]
    <3>1. t = [image EXCEPT !.Table[p] = entry,
                            !.Ncch  = IF p = 0 THEN file[NcchHeader] ELSE @, !.Bytes = bytes]
      BY DEF PutNcch, Alignment
    <3> HIDE DEF entry, bytes
    <3>2. image = [f \in Fields |-> image[f]]
      BY <1>5 DEF IsImage
    <3> QED
      BY <3>1, <3>2 DEF Fields
  <2>2. table = [q \in Partitions |-> IF q = p THEN entry ELSE image.Table[q]]
    <3> HIDE DEF entry
    <3>1. image.Table \in [Partitions -> Entry]
      BY <1>5 DEF IsImage
    <3> QED
      BY <1>1, <3>1
  <2> HIDE DEF table, bytes
  <2>3. /\ t = [f \in Fields |-> t[f]]
        /\ t.Card = image.Card /\ t.MediaUnit = image.MediaUnit
        /\ t.Valid = image.Valid /\ t.MediaSize = image.MediaSize
        /\ t.Bytes = bytes /\ t.Table = table
        /\ t.Ncch = IF p = 0 THEN file[NcchHeader] ELSE image.Ncch
    <3>1. image = [f \in Fields |-> image[f]]
      BY <1>5 DEF IsImage
    <3> QED
      BY <2>1, <3>1 DEF Fields
  <2> QED
    BY <2>2, <2>3 DEF IsPut, bytes
<1> HIDE DEF p, file, a, t
<1>8. /\ IsImage(t) /\ Packed(t, p + 1)
      /\ Length(t) = Length(image) + Align(Len(file), a) /\ Length(image) <= Length(t)
      /\ Multiple(Length(t), a) /\ Length(t) = End(t, p + 1) /\ Length(t) <= Limit(p + 1)
      /\ \A q \in Partitions : q < p => t.Table[q] = image.Table[q]
      /\ t.Table[p] # Absent /\ Holds(t, p, file)
      /\ Begins(t, p) = Length(image) /\ Room(t, p) = Align(Len(file), a)
      /\ \A k \in 1 .. Len(image.Bytes) : t.Bytes[k] = image.Bytes[k]
      /\ \A i \in 1 .. Len(file) : t.Bytes[Len(image.Bytes) + i] = file[i]
  BY <1>1, <1>2, <1>5, <1>6, <1>7, PutFacts
<1>9. p \in Nat /\ p + 1 \in Nat /\ 0 < p + 1 /\ \A q \in Partitions : q < p + 1 => q < p \/ q = p
  BY <1>1, PartitionFacts
<1>10. t.MediaUnit = image.MediaUnit /\ t.Card = image.Card
  BY <1>7 DEF IsPut
<1>11. Kept(t, p, source)
  <2>1. 0 < p => t.Ncch = image.Ncch
    BY <1>7, <1>9
  <2> QED
    BY <1>3, <1>5, <1>8, <1>9, <1>10, <2>1, KeptStill
<1>12. source'[p] = file /\ \A q \in Partitions : q # p => source'[q] = source[q]
  BY <1>1, <1>3
<1>13. Kept(t, p + 1, source')
  <2> SUFFICES ASSUME NEW q \in Partitions, q < p + 1
               PROVE  /\ source'[q] = <<>> => t.Table[q] = Absent /\ (q = 0 => t.Ncch = 0)
                      /\ source'[q] # <<>> =>
                           /\ t.Table[q] # Absent /\ Holds(t, q, source'[q])
                           /\ q = 0 => NcchHeader <= Len(source'[0]) /\ t.Ncch = source'[0][NcchHeader]
    BY DEF Kept
  <2>1. CASE q = p
    BY <1>2, <1>7, <1>8, <1>12, <2>1
  <2>2. CASE q # p
    <3>1. q < p
      BY <1>9, <2>2
    <3>2. source'[q] = source[q] /\ (q = 0 => source'[0] = source[0])
      BY <1>12, <2>2
    <3> QED
      BY <1>11, <3>1, <3>2 DEF Kept
  <2> QED
    BY <2>1, <2>2
<1>14. \A q \in Partitions : p + 1 <= q => source'[q] = <<>>
  BY <1>5, <1>9, <1>12, PartitionFacts
<1>15. Alignment' = a
  BY <1>1, <1>10 DEF Alignment, a, t
<1>16. CreateInv'
  <2>1. /\ IsImage(t) /\ Packed(t, part') /\ Kept(t, part', source')
        /\ \A q \in Partitions : part' <= q => source'[q] = <<>>
        /\ t.Card = header' .Card /\ t.MediaUnit = header' .MediaUnit
        /\ alignToBlock' = AlignToBlockSize(header')
        /\ Multiple(Length(t), Alignment')
        /\ Length(t) = End(t, part') /\ Length(t) <= Limit(part')
    BY <1>1, <1>5, <1>8, <1>10, <1>13, <1>14, <1>15
  <2> QED
    BY <2>1 DEF CreateInv, t
<1>17. RebuildInv'
  <2> DEFINE o == origin.Image
  <2> SUFFICES ASSUME origin # Nothing, \A q \in Partitions : q < p + 1 => source'[q] = ncch[q]
               PROVE  /\ \A q \in Partitions : q < p + 1 => t.Table[q] = o.Table[q]
                      /\ t.Ncch = o.Ncch
                      /\ Agree(t, o, Length(t))
    BY <1>1 DEF RebuildInv, t
  <2>1. /\ IsImage(o) /\ Packed(o, LastPartition + 1)
        /\ origin.Form \in Finished /\ Complete(o, origin.Form) /\ NcchKnown(o)
        /\ header.Card = o.Card /\ header.MediaUnit = o.MediaUnit
        /\ AlignToBlockSize(header) = AlignToBlockSize(o)
        /\ \A q \in Partitions : ncch[q] = Saved(o, q)
    BY <1>1, OriginFacts
  <2>2. \A q \in Partitions : q < p => source[q] = ncch[q]
    BY <1>9, <1>12, PartitionFacts
  <2>3. /\ \A q \in Partitions : q < p => image.Table[q] = o.Table[q]
        /\ 0 < p => image.Ncch = o.Ncch
        /\ Agree(image, o, Length(image))
    BY <1>1, <2>2 DEF RebuildInv, p
  <2> HIDE DEF o
  <2>4. a = IF AlignToBlockSize(o) THEN BlockSize ELSE o.MediaUnit
    BY <1>5, <2>1 DEF Alignment, a
  <2>5. image.MediaUnit = o.MediaUnit /\ file = Saved(o, p)
    BY <1>1, <1>5, <2>1 DEF file
  <2>6. /\ Align(Len(file), a) = Len(file)
        /\ Len(file) = Room(o, p) /\ Begins(o, p) = Length(image)
        /\ Ends(o, p) <= Length(o)
        /\ \A i \in 1 .. Len(file) : file[i] = o.Bytes[Len(image.Bytes) + i]
        /\ p = 0 => o.Ncch = file[NcchHeader]
    BY <1>1, <1>2, <1>5, <2>1, <2>3, <2>4, <2>5, PutAgain
  <2>7. t.Table[p] = o.Table[p]
    <3> DEFINE e == t.Table[p]  g == o.Table[p]  u == o.MediaUnit
    <3>1. e \in Entry /\ g \in Entry /\ u \in Nat \ {0}
      BY <1>1, <1>8, <2>1, EntryFacts
    <3>2. e.Offset * u = g.Offset * u /\ e.Size * u = g.Size * u
      <4>1. Begins(t, p) = Begins(o, p) /\ Room(t, p) = Room(o, p)
        BY <1>8, <2>6
      <4>2. t.MediaUnit = u
        BY <1>10, <2>5
      <4> QED
        BY <4>1, <4>2 DEF Begins, Room
    <3> HIDE DEF e, g, u
    <3>3. e.Offset \in Nat /\ e.Size \in Nat /\ g.Offset \in Nat /\ g.Size \in Nat
      BY <3>1 DEF Entry
    <3>4. e.Offset = g.Offset /\ e.Size = g.Size
      BY <3>1, <3>2, <3>3, Cancelled
    <3>5. e = g
      BY <3>1, <3>4 DEF Entry
    <3> QED
      BY <3>5 DEF e, g
  <2>8. \A q \in Partitions : q < p + 1 => t.Table[q] = o.Table[q]
    BY <1>8, <1>9, <2>3, <2>7
  <2>9. t.Ncch = o.Ncch
    BY <1>7, <1>9, <2>3, <2>6
  <2>10. Agree(t, o, Length(t))
    <3> DEFINE n == Len(image.Bytes)
    <3>1. /\ n \in Nat /\ Length(image) = FirstNcch + n /\ Length(image) \in Nat
          /\ Length(t) \in Nat /\ Length(o) \in Nat
      BY <1>5, <1>8, <2>1, LengthFacts DEF IsImage
    <3>2. Length(t) = Length(image) + Len(file)
      BY <1>8, <2>6
    <3>3. Length(t) - FirstNcch = n + Len(file)
      BY <1>2, <3>1, <3>2, ConstantFacts
    <3>4. Length(t) <= Length(o)
      <4>1. Ends(o, p) = Length(image) + Len(file)
        BY <2>6 DEF Ends
      <4> QED
        BY <2>6, <3>2, <4>1
    <3>5. ASSUME NEW k \in 1 .. (n + Len(file))
          PROVE  t.Bytes[k] = o.Bytes[k]
      <4>1. CASE k <= n
        <5>1. k \in 1 .. n /\ k \in 1 .. (Length(image) - FirstNcch)
          BY <1>2, <3>1, <4>1, ConstantFacts
        <5>2. image.Bytes[k] = o.Bytes[k]
          BY <2>3, <5>1 DEF Agree
        <5>3. t.Bytes[k] = image.Bytes[k]
          BY <1>8, <5>1
        <5> QED
          BY <5>2, <5>3
      <4>2. CASE n < k
        <5>1. k - n \in 1 .. Len(file) /\ n + (k - n) = k
          <6>1. \A b, l \in Nat : \A j \in 1 .. (b + l) : b < j => j - b \in 1 .. l /\ b + (j - b) = j
            OBVIOUS
          <6> HIDE DEF n
          <6> QED
            BY <1>2, <3>1, <4>2, <6>1
        <5> DEFINE i == k - n
        <5>2. i \in 1 .. Len(file) /\ n + i = k
          BY <5>1
        <5> HIDE DEF i
        <5>3. t.Bytes[n + i] = file[i] /\ file[i] = o.Bytes[n + i]
          BY <1>8, <2>6, <5>2
        <5> QED
          BY <5>2, <5>3
      <4> QED
        BY <1>2, <3>1, <4>1, <4>2
    <3> QED
      BY <3>1, <3>3, <3>4, <3>5 DEF Agree
  <2> QED
    BY <2>8, <2>9, <2>10
<1> QED
  BY <1>1, <1>4, <1>16, <1>17 DEF Inv

LEMMA InvClear ==
  ASSUME Inv, CreateNcch, image' = Cleared(image, part), UNCHANGED source
  PROVE  Inv'
<1> DEFINE p == part
           t == image'
<1>1. /\ p \in Partitions /\ part' = p + 1 /\ phase' = "create" /\ phase = "create"
      /\ UNCHANGED <<header, ncch, origin, alignToBlock>>
      /\ InputInv' /\ MadeInv' /\ ImageInv' /\ RebuiltIsSame'
      /\ source' \in [Partitions -> Seq(Nat)] => TypeInv'
      /\ TypeInv /\ InputInv /\ CreateInv /\ RebuildInv
  BY InvCreateNcchRest
<1>2. source' = source /\ source \in [Partitions -> Seq(Nat)]
  BY <1>1 DEF TypeInv
<1>3. /\ IsImage(image) /\ Packed(image, p) /\ Kept(image, p, source)
      /\ \A q \in Partitions : p <= q => source[q] = <<>>
      /\ image.Card = header.Card /\ image.MediaUnit = header.MediaUnit
      /\ alignToBlock = AlignToBlockSize(header)
      /\ Multiple(Length(image), Alignment)
      /\ Length(image) = End(image, p) /\ Length(image) <= Limit(p)
  BY <1>1 DEF CreateInv
<1>4. /\ t = [f \in Fields |-> t[f]]
      /\ t.Card = image.Card /\ t.MediaUnit = image.MediaUnit
      /\ t.Valid = image.Valid /\ t.MediaSize = image.MediaSize /\ t.Bytes = image.Bytes
      /\ t.Table = [image.Table EXCEPT ![p] = Absent]
      /\ t.Ncch = IF p = 0 THEN 0 ELSE image.Ncch
  <2>1. image = [f \in Fields |-> image[f]]
    BY <1>3 DEF IsImage
  <2> QED
    BY <2>1 DEF Fields, Cleared
<1> HIDE DEF p, t
<1>5. /\ t.Table \in [Partitions -> Entry] /\ t.Table[p] = Absent
      /\ \A q \in Partitions : q # p => t.Table[q] = image.Table[q]
  <2>1. image.Table \in [Partitions -> Entry] /\ Absent \in Entry
    BY <1>3 DEF IsImage, Entry, Absent
  <2> QED
    BY <1>1, <1>4, <2>1
<1>6. IsImage(t)
  BY <1>3, <1>4, <1>5 DEF IsImage
<1>7. p \in Nat /\ p + 1 \in Nat /\ 0 < p + 1 /\ (p = 0 \/ 0 < p)
      /\ \A q \in Partitions : q < p + 1 => q < p \/ q = p
  BY <1>1, PartitionFacts
<1>8. \A q \in Partitions : q < p => t.Table[q] = image.Table[q]
  BY <1>5, <1>7
<1>9. Packed(t, p) /\ End(t, p) = End(image, p)
  BY <1>3, <1>4, <1>7, <1>8, PackedStill
<1>10. Packed(t, p + 1)
  BY <1>5, <1>7, <1>9 DEF Packed
<1>11. End(t, p + 1) = End(image, p)
  BY <1>1, <1>5, <1>6, <1>9, <1>10, EndNext
<1>12. Length(t) = Length(image)
  BY <1>4 DEF Length
<1>13. Length(t) <= Limit(p + 1)
  <2>1. Limit(p + 1) = Limit(p) + MaxNcch /\ Limit(p) \in Nat
    BY <1>7, LimitFacts
  <2>2. Length(image) \in Nat
    BY <1>3, LengthFacts DEF IsImage
  <2> QED
    BY <1>3, <1>12, <2>1, <2>2, ConstantFacts
<1>14. Kept(t, p, source)
  <2>1. 0 < p => t.Ncch = image.Ncch
    BY <1>4, <1>7
  <2>2. Length(image) <= Length(t)
    BY <1>3, <1>12, LengthFacts DEF IsImage
  <2> QED
    BY <1>2, <1>3, <1>4, <1>6, <1>7, <1>8, <2>1, <2>2, KeptStill
<1>15. Kept(t, p + 1, source)
  <2> SUFFICES ASSUME NEW q \in Partitions, q < p + 1
               PROVE  /\ source[q] = <<>> => t.Table[q] = Absent /\ (q = 0 => t.Ncch = 0)
                      /\ source[q] # <<>> =>
                           /\ t.Table[q] # Absent /\ Holds(t, q, source[q])
                           /\ q = 0 => NcchHeader <= Len(source[0]) /\ t.Ncch = source[0][NcchHeader]
    BY DEF Kept
  <2>1. CASE q = p
    <3>1. source[q] = <<>>
      BY <1>3, <1>7, <2>1
    <3> QED
      BY <1>4, <1>5, <2>1, <3>1
  <2>2. CASE q # p
    <3>1. q < p
      BY <1>7, <2>2
    <3> QED
      BY <1>14, <3>1 DEF Kept
  <2> QED
    BY <2>1, <2>2
<1>16. Alignment' = Alignment
  BY <1>1, <1>4 DEF Alignment, t
<1>17. CreateInv'
  <2>1. /\ IsImage(t) /\ Packed(t, part') /\ Kept(t, part', source')
        /\ \A q \in Partitions : part' <= q => source'[q] = <<>>
        /\ t.Card = header' .Card /\ t.MediaUnit = header' .MediaUnit
        /\ alignToBlock' = AlignToBlockSize(header')
        /\ Multiple(Length(t), Alignment')
        /\ Length(t) = End(t, part') /\ Length(t) <= Limit(part')
    <3>1. \A q \in Partitions : p + 1 <= q => p <= q
      BY <1>7, PartitionFacts
    <3> QED
      BY <1>1, <1>2, <1>3, <1>4, <1>6, <1>10, <1>11, <1>12, <1>13, <1>15, <1>16, <3>1
  <2> QED
    BY <2>1 DEF CreateInv, t
<1>18. RebuildInv'
  <2> DEFINE o == origin.Image
  <2> SUFFICES ASSUME origin # Nothing, \A q \in Partitions : q < p + 1 => source[q] = ncch[q]
               PROVE  /\ \A q \in Partitions : q < p + 1 => t.Table[q] = o.Table[q]
                      /\ t.Ncch = o.Ncch
                      /\ Agree(t, o, Length(t))
    BY <1>1, <1>2 DEF RebuildInv, t
  <2>1. /\ IsImage(o) /\ Packed(o, LastPartition + 1)
        /\ origin.Form \in Finished /\ Complete(o, origin.Form) /\ NcchKnown(o)
        /\ \A q \in Partitions : ncch[q] = Saved(o, q)
    BY <1>1, OriginFacts
  <2>2. \A q \in Partitions : q < p => source[q] = ncch[q]
    BY <1>7, PartitionFacts
  <2>3. /\ \A q \in Partitions : q < p => image.Table[q] = o.Table[q]
        /\ 0 < p => image.Ncch = o.Ncch
        /\ Agree(image, o, Length(image))
    BY <1>1, <2>2 DEF RebuildInv, p
  <2> HIDE DEF o
  <2>4. o.Table[p] = Absent
    <3> SUFFICES ASSUME o.Table[p] # Absent PROVE FALSE
      OBVIOUS
    <3>1. LastPartition + 1 \in Nat /\ p < LastPartition + 1
      BY <1>1, PartitionFacts, ConstantFacts
    <3>2. 0 < Room(o, p)
      BY <1>1, <2>1, <3>1, PresentFacts
    <3>3. FirstNcch <= Begins(o, p) /\ Ends(o, p) <= Length(o)
      BY <1>1, <2>1, CompleteFits
    <3>4. Len(Saved(o, p)) = Room(o, p)
      BY <1>1, <2>1, <3>3, SavedFacts
    <3>5. source[p] = <<>> /\ source[p] = Saved(o, p)
      BY <1>1, <1>3, <1>7, <2>1
    <3> QED
      BY <3>2, <3>4, <3>5, EmptySeq
  <2>5. t.Ncch = o.Ncch
    BY <1>4, <1>7, <2>1, <2>3, <2>4 DEF NcchKnown
  <2>6. \A q \in Partitions : q < p + 1 => t.Table[q] = o.Table[q]
    BY <1>5, <1>7, <1>8, <2>3, <2>4
  <2>7. Agree(t, o, Length(t))
    BY <1>4, <1>12, <2>3 DEF Agree
  <2> QED
    BY <2>5, <2>6, <2>7
<1> QED
  BY <1>1, <1>2, <1>17, <1>18 DEF Inv

LEMMA InvCreateNcch ==
  ASSUME Inv, CreateNcch
  PROVE  Inv'
<1>1. \/ /\ ncch[part] # <<>>
         /\ part = 0 => Len(ncch[part]) >= NcchHeader
         /\ PutNcch
      \/ /\ image' = Cleared(image, part)
         /\ UNCHANGED source
  BY DEF CreateNcch
<1> QED
  BY <1>1, InvPut, InvClear

LEMMA InvCloseImage ==
  ASSUME Inv, CloseImage
  PROVE  Inv'
<1> DEFINE size == Length(image)
           card == CardFor(Capacities(image), size)
           trimmed == notPad /\ image.Card = "CARD1"
           length == IF trimmed THEN size ELSE card
           bytes == IF trimmed THEN image.Bytes ELSE image.Bytes \o Filler(card - size, Filling)
           t == image'
           last == LastPartition + 1
<1>1. TypeInv /\ InputInv /\ CreateInv /\ RebuildInv
  BY DEF Inv
<1>2. /\ phase = "create" /\ part \notin Partitions /\ phase' = "idle"
      /\ form' = IF trimmed THEN "trimmed" ELSE "padded"
      /\ made' = [Image |-> t, Form |-> form']
      /\ part' = 0 /\ notPad' = FALSE /\ alignToBlock' = FALSE
      /\ UNCHANGED inputVars
      /\ UNCHANGED <<header, ncch, origin, source, reserved, kills, rebuilds>>
  BY DEF CloseImage, inputVars
<1>3. part = last /\ last \in Nat /\ \A q \in Partitions : q < last
  BY <1>1, <1>2, ConstantFacts DEF TypeInv, Partitions
<1>4. /\ IsImage(image) /\ Packed(image, last) /\ Kept(image, last, source)
      /\ image.Card = header.Card /\ image.MediaUnit = header.MediaUnit
      /\ size = End(image, last) /\ size <= Limit(last)
  BY <1>1, <1>2, <1>3 DEF CreateInv
<1>5. /\ size \in Nat /\ FirstNcch <= size /\ size = FirstNcch + Len(image.Bytes)
      /\ Len(image.Bytes) \in Nat /\ image.Bytes \in Seq(Nat)
  BY <1>4, LengthFacts DEF IsImage
<1>6. t = [image EXCEPT !.Valid = size, !.MediaSize = length \div image.MediaUnit,
                        !.Bytes = bytes]
  <2>1. image = [f \in Fields |-> image[f]]
    BY <1>4 DEF IsImage
  <2> QED
    BY <2>1 DEF CloseImage, Fields
<1>7. Capacities(image) \in {Card1, Card2}
  BY DEF Capacities
<1>8. image.MediaUnit \in MediaUnits /\ image.MediaUnit \in Nat \ {0}
  BY <1>4, ConstantFacts DEF IsImage
<1> HIDE DEF size, last
<1>9. card \in Nat /\ size <= card /\ Multiple(card, image.MediaUnit)
  <2>1. card \in Nat /\ size <= card /\ Multiple(card, BlockSize)
    BY <1>4, <1>5, <1>7, CardForFacts DEF last
  <2> HIDE DEF card
  <2> QED
    BY <1>8, <2>1, UnitFacts, ConstantFacts, MultipleOfMultiple
<1>10. Multiple(size, image.MediaUnit)
  BY <1>3, <1>4, EndMultiple
<1> HIDE DEF card
<1>11. length \in Nat /\ size <= length /\ Multiple(length, image.MediaUnit)
  BY <1>5, <1>9, <1>10
<1>12. /\ bytes \in Seq(Nat) /\ FirstNcch + Len(bytes) = length
       /\ \A k \in 1 .. Len(image.Bytes) : bytes[k] = image.Bytes[k]
       /\ \A k \in 1 .. Len(bytes) : FirstNcch + k > size => bytes[k] = Filling
  <2>1. CASE trimmed
    <3>1. bytes = image.Bytes /\ length = size
      BY <2>1
    <3>2. \A k \in 1 .. Len(image.Bytes) : ~ FirstNcch + k > size
      BY <1>5, ConstantFacts
    <3> HIDE DEF bytes, length
    <3> QED
      BY <1>5, <3>1, <3>2
  <2>2. CASE ~ trimmed
    <3> DEFINE n == card - size
               fill == Filler(n, Filling)
               old == image.Bytes
    <3>1. n \in Nat /\ card = size + n
      BY <1>5, <1>9
    <3>2. bytes = old \o fill /\ length = card
      BY <2>2
    <3> HIDE DEF n, bytes, length
    <3>3. fill \in Seq(Nat) /\ Len(fill) = n /\ \A k \in 1 .. n : fill[k] = Filling
      BY <3>1, FillerFacts DEF Filling
    <3>4. old \in Seq(Nat) /\ Len(old) \in Nat /\ size = FirstNcch + Len(old)
      BY <1>5
    <3> HIDE DEF fill, old
    <3>5. /\ old \o fill \in Seq(Nat) /\ Len(old \o fill) = Len(old) + Len(fill)
          /\ \A i \in 1 .. Len(old) + Len(fill) :
               (old \o fill)[i] = IF i <= Len(old) THEN old[i] ELSE fill[i - Len(old)]
      BY <3>3, <3>4, ConcatProperties
    <3>6. \A k \in 1 .. Len(old) : k \in 1 .. Len(old) + Len(fill) /\ k <= Len(old)
      BY <3>1, <3>3, <3>4
    <3>7. \A k \in 1 .. Len(old) + Len(fill) : FirstNcch + k > size =>
            ~ k <= Len(old) /\ k - Len(old) \in 1 .. n
      BY <3>1, <3>3, <3>4, ConstantFacts
    <3>8. \A k \in 1 .. Len(old) : bytes[k] = old[k]
      BY <3>2, <3>5, <3>6
    <3>9. \A k \in 1 .. Len(old) + Len(fill) : FirstNcch + k > size => bytes[k] = Filling
      BY <3>2, <3>3, <3>5, <3>7
    <3>10. FirstNcch + Len(bytes) = length
      BY <3>1, <3>2, <3>3, <3>4, <3>5, ConstantFacts
    <3> QED
      BY <3>2, <3>5, <3>8, <3>9, <3>10 DEF old
  <2> QED
    BY <2>1, <2>2
<1>13. length \div image.MediaUnit \in Nat
  BY <1>8, <1>11, MultipleDivided
<1>14. form' \in Finished /\ (form' = "trimmed" => length = size)
       /\ (form' = "padded" => length = card)
  BY <1>2 DEF Finished
<1> HIDE DEF bytes, length, t
<1>15. /\ t = [f \in Fields |-> t[f]]
       /\ t.Card = image.Card /\ t.MediaUnit = image.MediaUnit /\ t.Valid = size
       /\ t.MediaSize = length \div image.MediaUnit /\ t.Ncch = image.Ncch
       /\ t.Bytes = bytes /\ t.Table = image.Table
  <2>1. image = [f \in Fields |-> image[f]]
    BY <1>4 DEF IsImage
  <2> QED
    BY <1>6, <2>1 DEF Fields
<1>16. IsImage(t)
  BY <1>4, <1>5, <1>12, <1>13, <1>15 DEF IsImage
<1>17. Packed(t, last) /\ End(t, last) = size
  BY <1>3, <1>4, <1>15, PackedStill
<1>18. Length(t) = length
  BY <1>12, <1>15 DEF Length
<1>19. Complete(t, form')
  <2>1. Capacities(t) = Capacities(image)
    BY <1>15 DEF Capacities
  <2>2. DOMAIN t.Bytes = 1 .. Len(bytes)
    BY <1>12, <1>15
  <2>3. form' = "padded" => Length(t) = CardFor(Capacities(t), t.Valid)
    BY <1>14, <1>15, <1>18, <2>1 DEF card
  <2> QED
    BY <1>11, <1>12, <1>14, <1>15, <1>17, <1>18, <2>2, <2>3 DEF Complete, last
<1>20. Kept(t, last, source)
  <2>1. source \in [Partitions -> Seq(Nat)]
    BY <1>1 DEF TypeInv
  <2>2. size <= Length(t)
    BY <1>11, <1>18
  <2> QED
    BY <1>3, <1>4, <1>12, <1>15, <1>16, <2>1, <2>2, KeptStill DEF size
<1>21. made' .Image = t /\ made' .Form = form'
  BY <1>2
<1>22. MadeInv'
  <2>1. /\ IsImage(made' .Image) /\ Packed(made' .Image, LastPartition + 1)
        /\ Kept(made' .Image, LastPartition + 1, source')
        /\ made' .Form \in Finished /\ Complete(made' .Image, made' .Form)
    BY <1>2, <1>14, <1>16, <1>17, <1>19, <1>20, <1>21 DEF last
  <2> QED
    BY <2>1 DEF MadeInv
<1>23. Left(t, t, reserved)
  <2>1. reserved \in Partitions /\ reserved \in Nat /\ LastPartition \in reserved .. LastPartition
    BY <1>1, PartitionFacts, ConstantFacts DEF TypeInv, Partitions
  <2>2. CutOf(t, t, LastPartition)
    BY <1>16, CutNothing
  <2> DEFINE b == reserved + 1
  <2>3. b \in Nat /\ b <= last
    BY <1>3, <2>1, PartitionFacts DEF last
  <2> HIDE DEF b
  <2>4. End(t, b) \in Nat /\ End(t, b) <= size
    <3>1. Packed(t, b)
      BY <1>3, <1>17, <2>3, PackedLess
    <3> QED
      BY <1>3, <1>16, <1>17, <2>3, <3>1, EndFacts, EndGrows
  <2>5. End(t, b) <= Length(t)
    BY <1>5, <1>11, <1>18, <2>4
  <2>6. Agree(t, t, End(t, b))
    BY <2>5 DEF Agree
  <2>7. t.Valid >= FirstNcch
    BY <1>5, <1>15, ConstantFacts
  <2> QED
    BY <1>16, <2>1, <2>2, <2>6, <2>7 DEF Left, b
<1>24. ImageInv'
  <2>1. /\ Left(t, made' .Image, reserved') /\ form' \in Finished \cup {"killed"}
        /\ form' \in Finished => Complete(t, form')
    BY <1>2, <1>14, <1>19, <1>21, <1>23
  <2> QED
    BY <2>1 DEF ImageInv, t
<1>25. RebuiltIsSame'
  <2> DEFINE o == origin.Image
  <2> SUFFICES ASSUME origin # Nothing, source = ncch, form' = origin.Form
               PROVE  t = o
    BY <1>2, <1>21 DEF RebuiltIsSame
  <2>1. /\ IsImage(o) /\ Packed(o, LastPartition + 1)
        /\ origin.Form \in Finished /\ Complete(o, origin.Form) /\ NcchKnown(o)
        /\ header.Card = o.Card /\ header.MediaUnit = o.MediaUnit
    BY <1>1, OriginFacts
  <2>2. /\ \A q \in Partitions : q < last => image.Table[q] = o.Table[q]
        /\ image.Ncch = o.Ncch
        /\ Agree(image, o, size)
    <3>1. 0 < last
      BY ConstantFacts DEF last
    <3> QED
      BY <1>1, <1>2, <1>3, <3>1 DEF RebuildInv, size
  <2> HIDE DEF o
  <2>3. t.Table = o.Table
    <3>1. t.Table \in [Partitions -> Entry] /\ o.Table \in [Partitions -> Entry]
      BY <1>16, <2>1 DEF IsImage
    <3>2. \A q \in Partitions : t.Table[q] = o.Table[q]
      BY <1>3, <1>15, <2>2
    <3> QED
      BY <3>1, <3>2
  <2>4. CutOf(t, o, LastPartition)
    BY <1>4, <1>15, <2>1, <2>2, <2>3, CutNothing
  <2>5. End(o, last) = size
    <3>1. o.MediaUnit = t.MediaUnit
      BY <1>4, <1>15, <2>1
    <3>2. End(o, last) = End(t, last)
      BY <2>3, <3>1, EndSame
    <3> QED
      BY <1>17, <3>2
  <2>6. Agree(t, o, size)
    <3>1. size <= Length(t)
      BY <1>11, <1>18
    <3>2. \A k \in 1 .. (size - FirstNcch) : k \in 1 .. Len(image.Bytes)
      BY <1>5, ConstantFacts
    <3>3. \A k \in 1 .. (size - FirstNcch) : t.Bytes[k] = o.Bytes[k]
      BY <1>12, <1>15, <2>2, <3>2 DEF Agree
    <3> QED
      BY <2>2, <3>1, <3>3 DEF Agree
  <2> QED
    BY <1>16, <1>19, <2>1, <2>4, <2>5, <2>6, SameImage DEF last
<1>26. InputInv'
  BY <1>1, <1>2, InputStays
<1>27. TypeInv'
  <2>1. form' \in {"none", "padded", "trimmed", "killed"} /\ part' \in 0 .. (LastPartition + 1)
    BY <1>2, <1>14, ConstantFacts DEF Finished
  <2> QED
    BY <1>1, <1>2, <2>1 DEF TypeInv
<1>28. CreateInv' /\ RebuildInv'
  BY <1>2 DEF CreateInv, RebuildInv
<1> QED
  BY <1>22, <1>24, <1>25, <1>26, <1>27, <1>28 DEF Inv

\* What trimming and padding have in common.
LEMMA InPlaceFacts ==
  ASSUME Inv, NEW result, NEW killed, NEW name, InPlace(result, killed, name)
  PROVE  /\ TypeInv /\ InputInv /\ RebuiltIsSame /\ phase = "idle" /\ phase' = "idle"
         /\ image # NoImage /\ image.Card = "CARD1" /\ Left(image, made.Image, reserved)
         /\ IsImage(made.Image) /\ Packed(made.Image, LastPartition + 1)
         /\ Kept(made.Image, LastPartition + 1, source)
         /\ made.Form \in Finished /\ Complete(made.Image, made.Form)
         /\ \/ image' = result /\ form' = name /\ kills' = kills
            \/ image' \in killed /\ form' = "killed" /\ kills' \in 0 .. MaxKills
         /\ UNCHANGED <<header, ncch, origin, phase, notPad, alignToBlock, part, made, source, rebuilds>>
<1>1. /\ TypeInv /\ InputInv /\ RebuiltIsSame /\ MadeInv /\ ImageInv
  BY DEF Inv
<1>2. /\ phase = "idle" /\ image # NoImage /\ image.Card # "CARD2"
      /\ \/ image' = result /\ form' = name /\ kills' = kills
         \/ image' \in killed /\ form' = "killed" /\ kills < MaxKills /\ kills' = kills + 1
      /\ UNCHANGED <<header, ncch, origin, phase, notPad, alignToBlock, part, made, source, rebuilds>>
  BY DEF InPlace, inputVars, createVars
<1>3. /\ IsImage(made.Image) /\ Packed(made.Image, LastPartition + 1)
      /\ Kept(made.Image, LastPartition + 1, source)
      /\ made.Form \in Finished /\ Complete(made.Image, made.Form)
  BY <1>1, <1>2 DEF MadeInv
<1>4. Left(image, made.Image, reserved)
  BY <1>1, <1>2 DEF ImageInv
<1>5. image.Card = "CARD1"
  BY <1>2, <1>4 DEF Left, IsImage
<1>6. kills < MaxKills => kills + 1 \in 0 .. MaxKills
  BY <1>1, ConstantFacts DEF TypeInv
<1> QED
  BY <1>1, <1>2, <1>3, <1>4, <1>5, <1>6

LEMMA InvInPlace ==
  ASSUME Inv, NEW result, NEW killed, NEW name \in Finished, InPlace(result, killed, name),
         reserved' \in Partitions, Complete(result, name),
         \A t \in {result} \cup killed : Left(t, made.Image, reserved')
  PROVE  Inv'
<1>1. /\ TypeInv /\ InputInv /\ RebuiltIsSame /\ phase = "idle" /\ phase' = "idle"
      /\ image # NoImage
      /\ IsImage(made.Image) /\ Packed(made.Image, LastPartition + 1)
      /\ Kept(made.Image, LastPartition + 1, source)
      /\ made.Form \in Finished /\ Complete(made.Image, made.Form)
      /\ \/ image' = result /\ form' = name /\ kills' = kills
         \/ image' \in killed /\ form' = "killed" /\ kills' \in 0 .. MaxKills
      /\ UNCHANGED <<header, ncch, origin, phase, notPad, alignToBlock, part, made, source, rebuilds>>
  BY InPlaceFacts
<1>2. form' \in Finished \cup {"killed"} /\ form' \in {"none", "padded", "trimmed", "killed"}
      /\ kills' \in 0 .. MaxKills
  BY <1>1 DEF Finished, TypeInv
<1>3. TypeInv'
  BY <1>1, <1>2 DEF TypeInv
<1>4. InputInv'
  BY <1>1, InputStays DEF inputVars
<1>5. CreateInv' /\ RebuildInv'
  BY <1>1 DEF CreateInv, RebuildInv
<1>6. MadeInv'
  BY <1>1 DEF MadeInv
<1>8. ImageInv'
  <2>1. Left(image', made.Image, reserved')
    BY <1>1
  <2>2. form' \in Finished => Complete(image', form')
    BY <1>1 DEF Finished
  <2>3. made' .Image = made.Image
    BY <1>1
  <2> QED
    BY <1>2, <2>1, <2>2, <2>3 DEF ImageInv
<1>9. RebuiltIsSame'
  BY <1>1 DEF RebuiltIsSame
<1> QED
  BY <1>3, <1>4, <1>5, <1>6, <1>8, <1>9 DEF Inv

LEMMA InvTrimFile ==
  ASSUME Inv, TrimFile
  PROVE  Inv'
<1>1. PICK last \in Partitions :
        /\ InPlace(Trimmed(image, last), KilledTrims(image, last), "trimmed")
        /\ reserved' = Min({reserved, last})
  BY DEF TrimFile
<1> DEFINE result == Trimmed(image, last)
           killed == KilledTrims(image, last)
           s == reserved'
<1>2. InPlace(result, killed, "trimmed") /\ "trimmed" \in Finished
  BY <1>1 DEF Finished
<1>3. s \in Partitions /\ reserved \in Partitions /\ s <= reserved /\ s <= last
  <2> DEFINE S == {reserved, last}
  <2>1. reserved \in Partitions
    BY DEF Inv, TypeInv
  <2>2. S \subseteq Nat /\ S # {} /\ S \subseteq Partitions /\ reserved \in S /\ last \in S
    BY <2>1, PartitionFacts
  <2>3. s = Min(S)
    BY <1>1
  <2> HIDE DEF S, s
  <2>4. Min(S) \in S /\ \A y \in S : Min(S) <= y
    BY <2>2, MinProperties
  <2> QED
    BY <2>1, <2>2, <2>3, <2>4
<1> HIDE DEF s
<1>4. /\ IsImage(made.Image) /\ Packed(made.Image, LastPartition + 1)
      /\ Left(image, made.Image, reserved)
  <2> HIDE DEF result, killed
  <2> QED
    BY <1>2, InPlaceFacts
<1>5. /\ Left(result, made.Image, s) /\ Complete(result, "trimmed")
      /\ \A t \in killed : Left(t, made.Image, s)
  <2> DEFINE m == made.Image  img == image  r == reserved
  <2>1. IsImage(m) /\ Packed(m, LastPartition + 1) /\ Left(img, m, r) /\ r \in Partitions /\ s <= r
    BY <1>3, <1>4
  <2> HIDE DEF m, img, r
  <2>2. /\ Left(Trimmed(img, last), m, s) /\ Complete(Trimmed(img, last), "trimmed")
        /\ \A t \in KilledTrims(img, last) : Left(t, m, s)
    BY <1>3, <2>1, TrimmedLeft
  <2> QED
    BY <2>2 DEF m, img
<1> HIDE DEF result, killed
<1> QED
  BY <1>2, <1>3, <1>5, InvInPlace DEF s

LEMMA InvPadFile ==
  ASSUME Inv, PadFile
  PROVE  Inv'
<1> DEFINE result == Padded(image)
           killed == KilledPads(image)
<1>1. InPlace(result, killed, "padded") /\ "padded" \in Finished /\ reserved' = reserved
  BY DEF PadFile, Finished
<1>2. reserved \in Partitions
  BY DEF Inv, TypeInv
<1>3. /\ IsImage(made.Image) /\ Packed(made.Image, LastPartition + 1)
      /\ Left(image, made.Image, reserved) /\ image.Card = "CARD1"
  <2> HIDE DEF result, killed
  <2> QED
    BY <1>1, InPlaceFacts
<1>4. /\ Left(result, made.Image, reserved) /\ Complete(result, "padded")
      /\ \A t \in killed : Left(t, made.Image, reserved)
  <2> DEFINE m == made.Image  img == image  r == reserved
  <2>1. /\ IsImage(m) /\ Packed(m, LastPartition + 1) /\ Left(img, m, r) /\ r \in Partitions
        /\ img.Card = "CARD1"
    BY <1>2, <1>3
  <2> HIDE DEF m, img, r
  <2>2. /\ Left(Padded(img), m, r) /\ Complete(Padded(img), "padded")
        /\ \A t \in KilledPads(img) : Left(t, m, r)
    BY <2>1, PaddedLeft
  <2> QED
    BY <2>2 DEF m, img, r
<1> HIDE DEF result, killed
<1> QED
  BY <1>1, <1>2, <1>4, InvInPlace

LEMMA InvExtractFile ==
  ASSUME Inv, ExtractFile
  PROVE  Inv'
<1> DEFINE m == made.Image
           img == image
<1>1. /\ TypeInv /\ InputInv /\ MadeInv /\ ImageInv
  BY DEF Inv
<1>2. /\ phase = "idle" /\ form \in Finished /\ rebuilds < MaxRebuilds
      /\ rebuilds' = rebuilds + 1
      /\ header' = [img EXCEPT !.Bytes = <<>>]
      /\ origin' = [Image |-> img, Form |-> form]
      /\ UNCHANGED <<phase, notPad, alignToBlock, part, image, form, made, source, reserved, kills>>
  BY DEF ExtractFile, createVars, historyVars, Finished
<1>3. ncch' = [p \in Partitions |-> Saved(img, p)]
  BY DEF ExtractFile, Saved, Begins, Room
<1>4. Left(img, m, reserved) /\ Complete(img, form) /\ image # NoImage
  <2>1. form # "none"
    BY <1>2 DEF Finished
  <2>2. Left(img, m, reserved) /\ Complete(img, form)
    BY <1>1, <1>2, <2>1 DEF ImageInv
  <2>3. image = [f \in Fields |-> image[f]]
    BY <2>2 DEF Left, IsImage
  <2>4. image # NoImage
    BY <2>3 DEF Fields, NoImage
  <2> QED
    BY <2>2, <2>4
<1>5. /\ IsImage(m) /\ Packed(m, LastPartition + 1) /\ Kept(m, LastPartition + 1, source)
      /\ made.Form \in Finished /\ Complete(m, made.Form)
  BY <1>1, <1>2, <1>4 DEF MadeInv
<1>6. reserved \in Partitions /\ reserved \in Nat /\ source \in [Partitions -> Seq(Nat)]
  BY <1>1, PartitionFacts DEF TypeInv
<1> HIDE DEF m, img
<1>7. IsImage(img) /\ Packed(img, LastPartition + 1)
  <2>1. reserved <= reserved
    BY <1>6
  <2> QED
    BY <1>4, <1>5, <1>6, <2>1, LeftFacts
<1>8. NcchKnown(img)
  BY <1>4, <1>5, <1>6, NcchIsKnown
<1>9. ASSUME NEW p \in Partitions
      PROVE  Saved(img, p) \in Seq(Nat) /\ Len(Saved(img, p)) <= MaxNcch
  <2>1. img.Table[p] # Absent => FirstNcch <= Begins(img, p) /\ Ends(img, p) <= Length(img)
    BY <1>2, <1>4, <1>7, CompleteFits
  <2>2. Saved(img, p) \in Seq(Nat) /\ Len(Saved(img, p)) = Room(img, p)
    BY <1>7, <2>1, SavedFacts
  <2>3. Room(img, p) <= MaxNcch
    <3>1. CASE img.Table[p] = Absent
      BY <1>7, <3>1, EntryFacts, ConstantFacts
    <3>2. CASE img.Table[p] # Absent
      <4>1. LastPartition + 1 \in Nat /\ p < LastPartition + 1
        BY PartitionFacts, ConstantFacts
      <4> QED
        BY <1>7, <3>2, <4>1, PresentFacts
    <3> QED
      BY <3>1, <3>2
  <2> QED
    BY <2>2, <2>3
<1>10. IsImage(header') /\ header' .Bytes = <<>>
  <2> DEFINE h == header'
  <2>1. /\ h = [f \in Fields |-> h[f]]
        /\ h.Card = img.Card /\ h.MediaUnit = img.MediaUnit /\ h.Valid = img.Valid
        /\ h.MediaSize = img.MediaSize /\ h.Bytes = <<>> /\ h.Table = img.Table
    <3>1. img = [f \in Fields |-> img[f]]
      BY <1>7 DEF IsImage
    <3> QED
      BY <1>2, <3>1 DEF Fields
  <2> HIDE DEF h
  <2>2. h.Bytes \in Seq(Nat)
    BY <2>1, EmptySeq
  <2>3. IsImage(h)
    BY <1>7, <2>1, <2>2 DEF IsImage
  <2> QED
    BY <2>1, <2>3 DEF h
<1>11. origin' .Image = img /\ origin' .Form = form
  BY <1>2
<1>12. InputInv'
  <2>1. /\ ncch' \in [Partitions -> Seq(Nat)]
        /\ \A p \in Partitions : ncch'[p] = Saved(img, p) /\ Len(ncch'[p]) <= MaxNcch
    BY <1>3, <1>9
  <2>2. /\ IsImage(origin' .Image) /\ Packed(origin' .Image, LastPartition + 1)
        /\ origin' .Form \in Finished /\ Complete(origin' .Image, origin' .Form)
        /\ NcchKnown(origin' .Image)
        /\ header' = [origin' .Image EXCEPT !.Bytes = <<>>]
        /\ \A p \in Partitions : ncch'[p] = Saved(origin' .Image, p)
    BY <1>2, <1>4, <1>7, <1>8, <1>11, <2>1
  <2> QED
    BY <1>10, <2>1, <2>2 DEF InputInv
<1>13. RebuiltIsSame'
  <2> SUFFICES ASSUME source = ncch', made.Form = form
               PROVE  m = img
    BY <1>2, <1>11 DEF RebuiltIsSame, m
  <2>1. \A p \in Partitions : source[p] = Saved(img, p)
    BY <1>3
  <2>2. Complete(m, form)
    BY <1>5
  <2> QED
    BY <1>2, <1>4, <1>5, <1>6, <2>1, <2>2, SavedIsSame
<1>14. TypeInv'
  <2>1. rebuilds' \in 0 .. MaxRebuilds
    BY <1>1, <1>2, ConstantFacts DEF TypeInv
  <2> QED
    BY <1>1, <1>2, <2>1 DEF TypeInv
<1>15. CreateInv' /\ RebuildInv'
  BY <1>2 DEF CreateInv, RebuildInv
<1>16. MadeInv' /\ ImageInv'
  BY <1>1, <1>2 DEF MadeInv, ImageInv
<1> QED
  BY <1>12, <1>13, <1>14, <1>15, <1>16 DEF Inv

LEMMA InvNext ==
  ASSUME Inv, [Next]_vars
  PROVE  Inv'
<1>1. CASE Next
  BY <1>1, InvBeginCreate, InvCreateNcch, InvCloseImage, InvTrimFile, InvPadFile,
     InvExtractFile DEF Next
<1>2. CASE UNCHANGED vars
  <2>1. /\ UNCHANGED <<header, ncch, origin, phase, notPad, alignToBlock, part, image, form>>
        /\ UNCHANGED <<made, source, reserved, kills, rebuilds>>
    BY <1>2 DEF vars, inputVars, createVars, historyVars
  <2>2. TypeInv'
    BY <2>1 DEF Inv, TypeInv
  <2>3. InputInv'
    BY <2>1, InputStays DEF Inv, inputVars
  <2>4. CreateInv' /\ RebuildInv'
    BY <2>1 DEF Inv, CreateInv, RebuildInv, Alignment
  <2>5. MadeInv' /\ ImageInv' /\ RebuiltIsSame'
    BY <2>1 DEF Inv, MadeInv, ImageInv, RebuiltIsSame
  <2> QED
    BY <2>2, <2>3, <2>4, <2>5 DEF Inv
<1> QED
  BY <1>1, <1>2

LEMMA InvAlways == Spec => []Inv
BY InitInv, InvNext, PTL DEF Spec

-----------------------------------------------------------------------------
(* What it says                                                            *)

\* The image of an idle state in which there is one.
LEMMA IdleImage ==
  ASSUME Inv, phase = "idle", image # NoImage
  PROVE  /\ IsImage(image) /\ Packed(image, LastPartition + 1) /\ image.Valid >= FirstNcch
         /\ Left(image, made.Image, reserved) /\ reserved \in Partitions
         /\ form \in Finished => Complete(image, form)
         /\ IsImage(made.Image) /\ Packed(made.Image, LastPartition + 1)
         /\ Kept(made.Image, LastPartition + 1, source) /\ source \in [Partitions -> Seq(Nat)]
         /\ made.Form \in Finished /\ Complete(made.Image, made.Form)
<1>1. TypeInv /\ MadeInv /\ ImageInv
  BY DEF Inv
<1>2. /\ IsImage(made.Image) /\ Packed(made.Image, LastPartition + 1)
      /\ Kept(made.Image, LastPartition + 1, source)
      /\ made.Form \in Finished /\ Complete(made.Image, made.Form)
  BY <1>1 DEF MadeInv
<1>3. Left(image, made.Image, reserved) /\ (form \in Finished => Complete(image, form))
  BY <1>1 DEF ImageInv
<1>4. reserved \in Partitions /\ reserved \in Nat /\ reserved <= reserved
      /\ source \in [Partitions -> Seq(Nat)]
  BY <1>1, PartitionFacts DEF TypeInv
<1>5. IsImage(image) /\ Packed(image, LastPartition + 1)
  BY <1>2, <1>3, <1>4, LeftFacts
<1>6. image.Valid >= FirstNcch
  BY <1>3 DEF Left
<1> QED
  BY <1>2, <1>3, <1>4, <1>5, <1>6

\* Every state of the images, of the files and of the creation is a proper one.
THEOREM TypeCorrect == Spec => []TypeOK
<1>1. ASSUME Inv
      PROVE  TypeOK
  <2>1. TypeInv
    BY <1>1 DEF Inv
  <2>2. ASSUME phase = "idle", image # NoImage
        PROVE  /\ image.Valid >= FirstNcch
               /\ \A p \in Partitions : image.Table[p].Offset \in Nat /\ image.Table[p].Size \in Nat
    <3>1. IsImage(image) /\ image.Valid >= FirstNcch
      BY <1>1, <2>2, IdleImage
    <3> QED
      BY <3>1, EntryFacts DEF Entry
  <2> QED
    BY <2>1, <2>2 DEF TypeInv, TypeOK
<1> QED
  BY <1>1, InvAlways, PTL

LEMMA PlacesFacts ==
  ASSUME NEW p \in Partitions
  PROVE  Top(p) = Begins(image, p) /\ Bottom(p) = Ends(image, p)
BY DEF Top, Bottom, Begins, Room, Ends

\* Every image that an operation has left complete agrees with its header (ImageWellFormed),
\* for any number of partitions, sizes of files, media units and cards.
THEOREM ImagesAreWellFormed == Spec => []ImageWellFormed
<1>1. ASSUME Inv
      PROVE  ImageWellFormed
  <2> SUFFICES ASSUME phase = "idle", form \in Finished
               PROVE  /\ \A p \in Present : FirstNcch <= Top(p) /\ Bottom(p) <= image.Valid
                      /\ \A p, q \in Present : p < q => Bottom(p) <= Top(q)
                      /\ image.Valid = Max({FirstNcch} \cup {Bottom(p) : p \in Present})
                      /\ image.MediaSize * image.MediaUnit = Length(image)
                      /\ \A k \in DOMAIN image.Bytes :
                           FirstNcch + k > image.Valid => image.Bytes[k] = Filling
    BY DEF ImageWellFormed, Finished
  <2> DEFINE img == image
             last == LastPartition + 1
             e == End(img, last)
  <2>1. image # NoImage
    <3>1. ImageInv /\ form # "none"
      BY <1>1 DEF Inv, Finished
    <3>2. IsImage(image)
      BY <3>1 DEF ImageInv, Left
    <3>3. image = [f \in Fields |-> image[f]]
      BY <3>2 DEF IsImage
    <3> QED
      BY <3>3 DEF Fields, NoImage
  <2>2. IsImage(img) /\ Packed(img, last) /\ Complete(img, form)
    BY <1>1, <2>1, IdleImage
  <2>3. \A p \in Partitions : Top(p) = Begins(img, p) /\ Bottom(p) = Ends(img, p)
    BY PlacesFacts
  <2>4. Present = {p \in Partitions : img.Table[p] # Absent}
    BY DEF Present
  <2>5. last \in Nat /\ \A p \in Partitions : p < last /\ p \in Nat
    BY PartitionFacts, ConstantFacts
  <2>6. img.Valid = e
    BY <2>2 DEF Complete
  <2> HIDE DEF img, last
  <2>7. /\ e \in Nat /\ FirstNcch <= e
        /\ \A p \in Partitions : p < last => Ends(img, p) <= e
        /\ e = FirstNcch \/ \E p \in Partitions : p < last /\ e = Ends(img, p)
    BY <2>2, <2>5, EndFacts
  <2>8. \A p \in Present : FirstNcch <= Top(p) /\ Bottom(p) <= img.Valid
    BY <2>2, <2>3, <2>4, <2>5, <2>6, PresentFacts
  <2>9. ASSUME NEW p \in Present, NEW q \in Present, p < q
        PROVE  Bottom(p) <= Top(q)
    <3>1. p \in Partitions /\ q \in Partitions /\ q \in Nat /\ q <= last
      BY <2>4, <2>5
    <3>2. Top(q) = End(img, q)
      BY <2>2, <2>3, <2>4, <2>5, <3>1, PresentFacts
    <3>3. Packed(img, q)
      BY <2>2, <2>5, <3>1, PackedLess
    <3>4. Ends(img, p) <= End(img, q)
      BY <2>2, <2>9, <3>1, <3>3, EndFacts
    <3> QED
      BY <2>3, <3>1, <3>2, <3>4
  <2>10. img.Valid = Max({FirstNcch} \cup {Bottom(p) : p \in Present})
    <3> DEFINE S == {FirstNcch} \cup {Bottom(p) : p \in Present}
    <3>1. \A p \in Present : Bottom(p) \in Nat /\ Bottom(p) <= e
      BY <2>2, <2>3, <2>4, <2>5, <2>7, EntryFacts
    <3>2. S \subseteq Nat /\ S # {} /\ \A x \in S : x <= e
      BY <2>7, <3>1, ConstantFacts
    <3>3. e \in S
      <4>1. CASE e = FirstNcch
        BY <4>1
      <4>2. CASE e # FirstNcch
        <5>1. PICK p \in Partitions : p < last /\ e = Ends(img, p)
          BY <2>7, <4>2
        <5>2. img.Table[p] # Absent
          <6>1. e # 0
            BY <2>7, ConstantFacts
          <6> QED
            BY <2>2, <5>1, <6>1, EntryFacts
        <5>3. p \in Present /\ e = Bottom(p)
          BY <2>3, <2>4, <5>1, <5>2
        <5> QED
          BY <5>3
      <4> QED
        BY <4>1, <4>2
    <3> HIDE DEF S, e
    <3> DEFINE max == Max(S)
    <3>4. max \in S /\ \A y \in S : y <= max
      BY <2>7, <3>2, MaxProperties
    <3> HIDE DEF max
    <3>5. max \in Nat /\ max <= e /\ e <= max
      BY <3>2, <3>3, <3>4
    <3>6. max = e
      BY <2>7, <3>5
    <3> QED
      BY <2>6, <3>6 DEF max, S
  <2>11. img.MediaSize * img.MediaUnit = Length(img)
    <3>1. Length(img) \in Nat /\ img.MediaUnit \in Nat \ {0}
      BY <2>2, LengthFacts, ConstantFacts DEF IsImage
    <3>2. Multiple(Length(img), img.MediaUnit) /\ img.MediaSize = Length(img) \div img.MediaUnit
      BY <2>2 DEF Complete
    <3> DEFINE n == Length(img)
    <3> HIDE DEF n
    <3>3. (n \div img.MediaUnit) * img.MediaUnit = n
      BY <3>1, <3>2, MultipleDivided DEF n
    <3> QED
      BY <3>2, <3>3 DEF n
  <2>12. \A k \in DOMAIN img.Bytes : FirstNcch + k > img.Valid => img.Bytes[k] = Filling
    BY <2>2 DEF Complete
  <2> QED
    BY <2>8, <2>9, <2>10, <2>11, <2>12 DEF img
<1> QED
  BY <1>1, InvAlways, PTL

\* No trim, pad or kill costs a byte of a partition that was to be reserved (PartitionsKept),
\* however often images are trimmed, padded and killed.
THEOREM PartitionsAlwaysKept == Spec => []PartitionsKept
<1>1. ASSUME Inv
      PROVE  PartitionsKept
  <2> SUFFICES ASSUME phase = "idle", image # NoImage,
                      NEW p \in 0 .. reserved, source[p] # <<>>
               PROVE  /\ Bottom(p) - Top(p) >= Len(source[p])
                      /\ SubSeq(image.Bytes, Top(p) - FirstNcch + 1,
                                Top(p) - FirstNcch + Len(source[p])) = source[p]
                      /\ p = 0 => image.Ncch = source[0][NcchHeader]
    BY DEF PartitionsKept
  <2> DEFINE img == image
             m == made.Image
             file == source[p]
             r == reserved
             b == r + 1
  <2>1. /\ IsImage(img) /\ Left(img, m, r) /\ r \in Partitions
        /\ IsImage(m) /\ Packed(m, LastPartition + 1)
        /\ Kept(m, LastPartition + 1, source) /\ source \in [Partitions -> Seq(Nat)]
    BY <1>1, IdleImage
  <2>2. /\ p \in Partitions /\ p \in Nat /\ p <= r /\ r \in Nat /\ b \in Nat /\ p < b
        /\ LastPartition + 1 \in Nat /\ p < LastPartition + 1 /\ b <= LastPartition + 1
    BY <2>1, PartitionFacts, ConstantFacts DEF Partitions
  <2>3. file \in Seq(Nat) /\ Len(file) \in Nat
    BY <2>1, <2>2
  <2>4. /\ m.Table[p] # Absent /\ Holds(m, p, file)
        /\ p = 0 => m.Ncch = source[0][NcchHeader]
    BY <2>1, <2>2 DEF Kept
  <2>5. PICK n \in r .. LastPartition : CutOf(img, m, n)
    BY <2>1 DEF Left
  <2>6. n \in Partitions /\ p <= n
    BY <2>2, <2>5, ConstantFacts DEF Partitions
  <2>7. Top(p) = Begins(img, p) /\ Bottom(p) = Ends(img, p)
    BY <2>2, PlacesFacts
  <2>8. Agree(img, m, End(m, b))
    BY <2>1 DEF Left
  <2> HIDE DEF img, m, file, r, b
  <2>9. Begins(img, p) = Begins(m, p) /\ Ends(img, p) = Ends(m, p)
    BY <2>1, <2>2, <2>5, <2>6, CutFacts
  <2>10. Packed(m, b)
    BY <2>1, <2>2, PackedLess
  <2>11. /\ FirstNcch <= Begins(m, p) /\ Ends(m, p) = Begins(m, p) + Room(m, p)
         /\ Ends(m, p) <= End(m, b)
         /\ Begins(m, p) \in Nat /\ Room(m, p) \in Nat /\ End(m, b) \in Nat
    BY <2>1, <2>2, <2>4, <2>10, PresentFacts, EntryFacts, EndFacts
  <2>12. /\ Len(file) <= Room(m, p)
         /\ \A i \in 1 .. Len(file) : m.Bytes[Begins(m, p) - FirstNcch + i] = file[i]
    BY <2>4 DEF Holds
  <2> DEFINE from == Begins(m, p) - FirstNcch
             end == End(m, b) - FirstNcch
             bytes == img.Bytes
             l == Len(file)
             sub == SubSeq(bytes, from + 1, from + l)
  <2>13. from \in Nat /\ end \in Nat /\ from + l <= end /\ l \in Nat
    BY <2>3, <2>11, <2>12, ConstantFacts
  <2>14. bytes \in Seq(Nat) /\ Len(bytes) \in Nat /\ Length(img) = FirstNcch + Len(bytes)
    BY <2>1, LengthFacts DEF IsImage
  <2>15. end <= Len(bytes)
    BY <2>8, <2>11, <2>14, ConstantFacts DEF Agree
  <2>16. \A i \in 1 .. l : m.Bytes[from + i] = file[i]
    BY <2>12
  <2>17. \A k \in 1 .. end : bytes[k] = m.Bytes[k]
    BY <2>8 DEF Agree
  <2>18. sub = SubSeq(img.Bytes, Top(p) - FirstNcch + 1, Top(p) - FirstNcch + Len(file))
    BY <2>7, <2>9
  <2> HIDE DEF from, end, bytes, l
  <2>19. \A i \in 1 .. l : from + i \in 1 .. end
    BY <2>13
  <2>20. \A i \in 1 .. l : bytes[from + i] = file[i]
    BY <2>16, <2>17, <2>19
  <2>21. from + l <= Len(bytes)
    BY <2>13, <2>14, <2>15
  <2>22. /\ sub \in Seq(Nat) /\ Len(sub) = l
         /\ \A i \in 1 .. l : sub[i] = bytes[from + i]
    BY <2>13, <2>14, <2>21, PieceFacts
  <2> HIDE DEF sub
  <2>23. Len(sub) = Len(file) /\ \A i \in 1 .. Len(sub) : sub[i] = file[i]
    BY <2>20, <2>22 DEF l
  <2>24. sub = file
    BY <2>3, <2>22, <2>23, SeqEqual
  <2>25. Bottom(p) - Top(p) >= Len(file)
    BY <2>3, <2>7, <2>9, <2>11, <2>12
  <2>26. img.Ncch = m.Ncch
    BY <2>5 DEF CutOf
  <2> QED
    BY <2>4, <2>18, <2>24, <2>25, <2>26 DEF img, file
<1> QED
  BY <1>1, InvAlways, PTL

\* As long as no partition is dropped, trimming and padding give back the image that was
\* created, byte for byte (PadUndoesTrim), kills between them or not.
THEOREM PadAlwaysUndoesTrim == Spec => []PadUndoesTrim
<1>1. ASSUME Inv
      PROVE  PadUndoesTrim
  <2> SUFFICES ASSUME phase = "idle", reserved = LastPartition, form = made.Form
               PROVE  image = made.Image
    BY DEF PadUndoesTrim
  <2>1. ImageInv
    BY <1>1 DEF Inv
  <2>2. CASE image = NoImage
    <3>1. CASE made = Nothing
      BY <2>2, <3>1 DEF Nothing
    <3>2. CASE made # Nothing
      <4>1. IsImage(image)
        BY <2>1, <3>2 DEF ImageInv, Left
      <4>2. image = [f \in Fields |-> image[f]]
        BY <4>1 DEF IsImage
      <4> QED
        BY <2>2, <4>2 DEF Fields, NoImage
    <3> QED
      BY <3>1, <3>2
  <2>3. CASE image # NoImage
    <3> DEFINE img == image  m == made.Image
    <3>1. /\ IsImage(img) /\ Left(img, m, reserved)
          /\ form \in Finished => Complete(img, form)
          /\ IsImage(m) /\ Packed(m, LastPartition + 1)
          /\ made.Form \in Finished /\ Complete(m, made.Form)
      BY <1>1, <2>3, IdleImage
    <3>2. PICK n \in LastPartition .. LastPartition : CutOf(img, m, n)
      BY <3>1 DEF Left
    <3>3. n = LastPartition
      BY <3>2, ConstantFacts
    <3>4. CutOf(img, m, LastPartition)
      BY <3>2, <3>3
    <3>5. Agree(img, m, End(m, LastPartition + 1))
      BY <3>1 DEF Left
    <3> HIDE DEF img, m
    <3>6. img = m
      BY <3>1, <3>4, <3>5, SameImage
    <3> QED
      BY <3>6 DEF img, m
  <2> QED
    BY <2>2, <2>3
<1> QED
  BY <1>1, InvAlways, PTL

\* An image that is made of what was saved from another is that other, header, card info
\* and all bytes (RebuiltIsSame), for every media unit and either alignment.
THEOREM RebuiltIsAlwaysSame == Spec => []RebuiltIsSame
<1>1. Inv => RebuiltIsSame
  BY DEF Inv
<1> QED
  BY <1>1, InvAlways, PTL
====
