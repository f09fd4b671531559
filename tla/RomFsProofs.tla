-------------------------- MODULE RomFsProofs -----------------------------
(***************************************************************************)
(* How a RomFS is written.  Of RomFsLevels: the levels stay in their       *)
(* regions, their blocks are hashed and the files are in their places, for *)
(* all sizes of blocks, hashes and metadata, any number of files of any    *)
(* size, packed or remapped, and whichever of them cannot be read.         *)
(* IsWritten relates the buffers and the file to S: for each level, all    *)
(* the cells that were ever handed to it.  In terms of S a level only      *)
(* grows at its end, and what the code does with buffers, blocks and       *)
(* places in the file is the business of one lemma, TakenIs.               *)
(*                                                                         *)
(* Of RomFsTree, in the second half: the links of the tables lead to all   *)
(* the children of a directory and to nothing else, and a lookup in the    *)
(* hash tables finds every entry, for all trees of any depth.  Table says  *)
(* what a table is whose entries are linked by their positions: the        *)
(* children of an entry stand side by side, each linked to the next.       *)
(* Listing a directory, removing one and placing the entries keep it.      *)
(* Image says how the tables that are written are made of such a one, with *)
(* every position put into bytes and every entry led to by the later ones  *)
(* of its bucket.                                                          *)
(***************************************************************************)
EXTENDS RomFsLevels, RomFsTree, SequenceTheorems, FiniteSetTheorems, WellFoundedInduction,
        TLAPS

-----------------------------------------------------------------------------
(* Numbers                                                                 *)

Less == {ss \in Nat \X Nat : ss[1] < ss[2]}

LEMMA Smallest ==
  ASSUME NEW S, S \subseteq Nat, S # {}
  PROVE  \E x \in S : \A y \in S : x <= y
<1>1. IsWellFoundedOn(Less, Nat)
  BY NatLessThanWellFounded DEF OpToRel, Less
<1>2. PICK x \in S : \A y \in S : <<y, x>> \notin Less
  BY <1>1, WFMin, Zenon
<1>3. ASSUME NEW y \in S
      PROVE  x <= y
  <2>1. x \in Nat /\ y \in Nat
    OBVIOUS
  <2>2. y < x => <<y, x>> \in Less
    BY <2>1 DEF Less
  <2> QED
    BY <1>2, <2>1, <2>2
<1> QED
  BY <1>3

LEMMA MaxProperties ==
  ASSUME NEW S, S \subseteq Nat, S # {}, NEW bound \in Nat, \A x \in S : x <= bound
  PROVE  Max(S) \in S /\ \A y \in S : y <= Max(S)
<1> DEFINE B == {b \in Nat : \A x \in S : x <= b}
<1>1. B \subseteq Nat /\ bound \in B
  OBVIOUS
<1>2. PICK m \in B : \A b \in B : m <= b
  BY <1>1, Smallest
<1>3. m \in S
  <2> SUFFICES ASSUME m \notin S PROVE FALSE
    OBVIOUS
  <2>1. PICK x \in S : TRUE
    OBVIOUS
  <2>2. m \in Nat /\ m - 1 \in Nat
    BY <2>1
  <2>3. m - 1 \in B
    BY <2>2
  <2> QED
    BY <1>2, <2>2, <2>3
<1>4. \A y \in S : y <= m
  OBVIOUS
<1>5. \E x \in S : \A y \in S : x >= y
  BY <1>3, <1>4
<1>6. Max(S) \in S /\ \A y \in S : Max(S) >= y
  BY <1>5 DEF Max
<1> QED
  BY <1>6

\* What holds of 0 and of the number behind each one it holds of, up to n.
LEMMA UpTo ==
  ASSUME NEW n \in Nat, NEW S, 0 \in S, \A k \in 0 .. (n - 1) : k \in S => k + 1 \in S
  PROVE  \A k \in 0 .. n : k \in S
<1> SUFFICES ASSUME {k \in 0 .. n : k \notin S} # {} PROVE FALSE
  OBVIOUS
<1> DEFINE Rest == {k \in 0 .. n : k \notin S}
<1>1. Rest \subseteq Nat /\ Rest # {}
  OBVIOUS
<1> HIDE DEF Rest
<1>2. PICK m \in Rest : \A k \in Rest : m <= k
  BY <1>1, Smallest
<1>3. m \in 0 .. n /\ m \notin S /\ m # 0
  BY <1>2 DEF Rest
<1>4. m - 1 \in 0 .. (n - 1) /\ m - 1 \notin Rest
  BY <1>2, <1>3
<1>5. m - 1 \in S
  BY <1>3, <1>4 DEF Rest
<1>6. (m - 1) + 1 \in S
  BY <1>4, <1>5
<1> QED
  BY <1>3, <1>6

LEMMA DivIs ==
  ASSUME NEW D \in Nat, NEW d \in Nat, NEW e \in Nat, e < D
  PROVE  (D * d + e) \div D = d /\ (D * d + e) % D = e
<1> DEFINE x == D * d + e
           q == x \div D
           r == x % D
<1>1. x \in Nat /\ D > 0
  OBVIOUS
<1>2. q \in Nat /\ r \in 0 .. (D - 1) /\ x = D * q + r
  BY <1>1
<1> HIDE DEF q, r
<1>3. D * d + e = D * q + r /\ D * d \in Nat /\ D * q \in Nat
  BY <1>2
<1> HIDE DEF x
<1>4. ASSUME q < d
      PROVE  FALSE
  <2>1. D * (q + 1) <= D * d /\ D * (q + 1) = D * q + D
    BY <1>2, <1>4
  <2> QED
    BY <1>2, <1>3, <2>1
<1>5. ASSUME d < q
      PROVE  FALSE
  <2>1. D * (d + 1) <= D * q /\ D * (d + 1) = D * d + D
    BY <1>2, <1>5
  <2> QED
    BY <1>2, <1>3, <2>1
<1>6. q = d
  BY <1>2, <1>4, <1>5
<1>7. r = e
  BY <1>2, <1>3, <1>6
<1> QED
  BY <1>6, <1>7 DEF q, r, x

IsMultiple(n, a) == \E k \in Int : n = k * a

LEMMA AlignIs ==
  ASSUME NEW n \in Nat, NEW a \in Nat \ {0}
  PROVE  /\ Align(n, a) \in Nat /\ Align(n, a) >= n /\ Align(n, a) < n + a
         /\ IsMultiple(Align(n, a), a)
<1> DEFINE k == (n + a - 1) \div a
<1>1. n + a - 1 \in Nat /\ a > 0
  OBVIOUS
<1>2. k \in Nat
  BY <1>1
<1>3. k * a <= n + a - 1 /\ n + a - 1 < k * a + a
  BY <1>1
<1>4. Align(n, a) = k * a
  BY DEF Align
<1> HIDE DEF k
<1>5. k * a \in Nat
  BY <1>2
<1>6. k * a >= n /\ k * a < n + a
  BY <1>3, <1>5
<1>7. IsMultiple(k * a, a)
  BY <1>2 DEF IsMultiple
<1> QED
  BY <1>4, <1>5, <1>6, <1>7

LEMMA MultiplesSum ==
  ASSUME NEW a \in Nat \ {0}, NEW m \in Int, NEW n \in Int, IsMultiple(m, a), IsMultiple(n, a)
  PROVE  IsMultiple(m + n, a) /\ IsMultiple(m - n, a)
<1>1. PICK j \in Int : m = j * a
  BY DEF IsMultiple
<1>2. PICK k \in Int : n = k * a
  BY DEF IsMultiple
<1>3. m + n = (j + k) * a /\ m - n = (j - k) * a
  BY <1>1, <1>2
<1>4. j + k \in Int /\ j - k \in Int
  OBVIOUS
<1> QED
  BY <1>3, <1>4 DEF IsMultiple

\* Between two multiples there is room for whole units only.
LEMMA MultiplesApart ==
  ASSUME NEW a \in Nat \ {0}, NEW m \in Int, NEW n \in Int, IsMultiple(m, a), IsMultiple(n, a),
         m < n + a
  PROVE  m <= n
<1>1. PICK j \in Int : m = j * a
  BY DEF IsMultiple
<1>2. PICK k \in Int : n = k * a
  BY DEF IsMultiple
<1>3. CASE j <= k
  BY <1>1, <1>2, <1>3
<1>4. CASE j >= k + 1
  <2>1. j * a >= (k + 1) * a
    BY <1>4
  <2>2. (k + 1) * a = k * a + a
    OBVIOUS
  <2> QED
    BY <1>1, <1>2, <2>1, <2>2
<1> QED
  BY <1>3, <1>4

LEMMA AlignSame ==
  ASSUME NEW n \in Nat, NEW a \in Nat \ {0}, IsMultiple(n, a)
  PROVE  Align(n, a) = n
<1> DEFINE x == Align(n, a)
<1>1. x \in Nat /\ x >= n /\ x < n + a /\ IsMultiple(x, a)
  BY AlignIs
<1> HIDE DEF x
<1>2. x <= n
  BY <1>1, MultiplesApart
<1>3. x = n
  BY <1>1, <1>2
<1> QED
  BY <1>3 DEF x

LEMMA AlignMonotone ==
  ASSUME NEW m \in Nat, NEW n \in Nat, NEW a \in Nat \ {0}, m <= n
  PROVE  Align(m, a) <= Align(n, a)
<1> DEFINE x == Align(m, a)
           y == Align(n, a)
<1>1. x \in Nat /\ x < m + a /\ IsMultiple(x, a) /\ y \in Nat /\ y >= n /\ IsMultiple(y, a)
  BY AlignIs
<1> HIDE DEF x, y
<1>2. x <= y
  BY <1>1, MultiplesApart
<1> QED
  BY <1>2 DEF x, y

\* Less than one unit above n, a multiple is the aligned n.
LEMMA AlignedIs ==
  ASSUME NEW n \in Nat, NEW a \in Nat \ {0}, NEW x \in Int, IsMultiple(x, a), n <= x, x < n + a
  PROVE  Align(n, a) = x
<1> DEFINE y == Align(n, a)
<1>1. y \in Nat /\ y >= n /\ y < n + a /\ IsMultiple(y, a)
  BY AlignIs
<1> HIDE DEF y
<1>2. y <= x /\ x <= y
  BY <1>1, MultiplesApart
<1>3. y = x
  BY <1>1, <1>2
<1> QED
  BY <1>3 DEF y

LEMMA AlignSum ==
  ASSUME NEW m \in Nat, NEW n \in Nat, NEW a \in Nat \ {0}, IsMultiple(m, a)
  PROVE  Align(m + n, a) = m + Align(n, a)
<1> DEFINE y == Align(n, a)
           x == m + y
           s == m + n
<1>1. y \in Nat /\ y >= n /\ y < n + a /\ IsMultiple(y, a)
  BY AlignIs
<1> HIDE DEF y
<1>2. x \in Int /\ IsMultiple(x, a)
  BY <1>1, MultiplesSum
<1>3. s \in Nat /\ s <= x /\ x < s + a
  BY <1>1
<1> HIDE DEF x, s
<1>4. Align(s, a) = x
  BY <1>2, <1>3, AlignedIs
<1> QED
  BY <1>4 DEF x, y, s

LEMMA AlignBetween ==
  ASSUME NEW m \in Nat, NEW n \in Nat, NEW x \in Nat, NEW a \in Nat \ {0},
         m <= x, x <= n, Align(m, a) = Align(n, a)
  PROVE  Align(x, a) = Align(n, a)
<1> DEFINE p == Align(m, a)
           q == Align(x, a)
           r == Align(n, a)
<1>1. p <= q /\ q <= r
  BY AlignMonotone
<1>2. p \in Nat /\ q \in Nat /\ r \in Nat
  BY AlignIs
<1>3. p = r
  OBVIOUS
<1> HIDE DEF p, q, r
<1>4. q = r
  BY <1>1, <1>2, <1>3
<1> QED
  BY <1>4 DEF q, r

-----------------------------------------------------------------------------
(* Sequences                                                               *)

IsSeq(s) == \E S : s \in Seq(S)

LEMMA SeqProperties ==
  ASSUME NEW s, IsSeq(s)
  PROVE  Len(s) \in Nat /\ DOMAIN s = 1 .. Len(s)
BY DEF IsSeq

LEMMA OneSeq ==
  ASSUME NEW c
  PROVE  IsSeq(<<c>>) /\ Len(<<c>>) = 1 /\ <<c>>[1] = c
<1>1. <<c>> \in Seq({c})
  OBVIOUS
<1> QED
  BY <1>1 DEF IsSeq

LEMMA NoSeq == IsSeq(<<>>) /\ Len(<<>>) = 0
<1>1. <<>> \in Seq({})
  OBVIOUS
<1> QED
  BY <1>1 DEF IsSeq

IsConcat(w, a, b) ==
  /\ IsSeq(w) /\ Len(w) = Len(a) + Len(b)
  /\ \A i \in 1 .. Len(a) : w[i] = a[i]
  /\ \A i \in 1 .. Len(b) : w[Len(a) + i] = b[i]

LEMMA ConcatSeq ==
  ASSUME NEW a, NEW b, IsSeq(a), IsSeq(b)
  PROVE  IsConcat(a \o b, a, b)
<1>1. PICK S, T : a \in Seq(S) /\ b \in Seq(T)
  BY DEF IsSeq
<1>2. a \in Seq(S \cup T) /\ b \in Seq(S \cup T)
  BY <1>1, SeqMonotonic
<1>3. /\ a \o b \in Seq(S \cup T) /\ Len(a \o b) = Len(a) + Len(b)
      /\ \A i \in 1 .. Len(a) + Len(b) :
           (a \o b)[i] = IF i <= Len(a) THEN a[i] ELSE b[i - Len(a)]
  BY <1>2, ConcatProperties
<1>4. Len(a) \in Nat /\ Len(b) \in Nat
  BY <1>1
<1>5. IsSeq(a \o b)
  BY <1>3 DEF IsSeq
<1>6. \A i \in 1 .. Len(a) : (a \o b)[i] = a[i]
  BY <1>3, <1>4
<1>7. ASSUME NEW i \in 1 .. Len(b)
      PROVE  (a \o b)[Len(a) + i] = b[i]
  <2>1. Len(a) + i \in 1 .. Len(a) + Len(b) /\ ~(Len(a) + i <= Len(a)) /\ (Len(a) + i) - Len(a) = i
    BY <1>4
  <2> QED
    BY <1>3, <2>1
<1> QED
  BY <1>3, <1>5, <1>6, <1>7 DEF IsConcat

LEMMA TupleSeq ==
  ASSUME NEW n \in Nat, NEW f, f = [i \in 1 .. n |-> f[i]]
  PROVE  IsSeq(f) /\ Len(f) = n
<1> DEFINE S == {f[i] : i \in 1 .. n}
<1>1. \A i \in 1 .. n : f[i] \in S
  OBVIOUS
<1> HIDE DEF S
<1>2. f \in [1 .. n -> S]
  BY <1>1
<1>3. f \in Seq(S)
  BY <1>2
<1>4. Len(f) = n
  BY <1>2, <1>3
<1> QED
  BY <1>3, <1>4 DEF IsSeq

LEMMA PartSeq ==
  ASSUME NEW f, NEW m \in Int, NEW n \in Int
  PROVE  /\ IsSeq(SubSeq(f, m, n)) /\ Len(SubSeq(f, m, n)) = IF m <= n THEN n - m + 1 ELSE 0
         /\ \A i \in 1 .. n - m + 1 : SubSeq(f, m, n)[i] = f[m + i - 1]
<1> DEFINE S == {f[i] : i \in m .. n}
<1>1. \A i \in m .. n : f[i] \in S
  OBVIOUS
<1> HIDE DEF S
<1>2. /\ SubSeq(f, m, n) \in Seq(S)
      /\ Len(SubSeq(f, m, n)) = IF m <= n THEN n - m + 1 ELSE 0
      /\ \A i \in 1 .. n - m + 1 : SubSeq(f, m, n)[i] = f[m + i - 1]
  BY <1>1, SubSeqProperties
<1> QED
  BY <1>2 DEF IsSeq

-----------------------------------------------------------------------------
(* Where the levels lie                                                    *)

LEMMA Units ==
  /\ Block \in Nat \ {0} /\ Hash \in Nat \ {0} /\ FileAlignment \in Nat \ {0} /\ Header \in Nat \ {0}
  /\ IsMultiple(Block, Hash) /\ IsMultiple(Block, FileAlignment) /\ IsMultiple(Block, Block)
<1>1. /\ Block \in Nat \ {0} /\ Hash \in Nat \ {0} /\ FileAlignment \in Nat \ {0} /\ Header \in Nat \ {0}
      /\ Block % Hash = 0 /\ Block % FileAlignment = 0
  BY RomFsLevelsAssumption
<1>2. ASSUME NEW a \in Nat \ {0}, Block % a = 0
      PROVE  IsMultiple(Block, a)
  <2> DEFINE x == Block
             q == x \div a
             r == x % a
  <2>1. x \in Nat /\ a > 0
    BY <1>1
  <2> HIDE DEF x
  <2>2. q \in Nat /\ r \in 0 .. (a - 1) /\ x = a * q + r
    BY <2>1
  <2>3. r = 0
    BY <1>2 DEF x
  <2> HIDE DEF q, r
  <2>4. x = q * a
    BY <2>1, <2>2, <2>3
  <2> QED
    BY <2>2, <2>4 DEF IsMultiple, x
<1>3. IsMultiple(Block, Hash) /\ IsMultiple(Block, FileAlignment)
  BY <1>1, <1>2
<1>4. Block = 1 * Block
  BY <1>1
<1>5. IsMultiple(Block, Block)
  BY <1>4 DEF IsMultiple
<1> QED
  BY <1>1, <1>3, <1>5

BlocksOf(n) == n \div Block
InBlocks(n) == BlocksOf(n) * Block

LEMMA BlocksIs ==
  ASSUME NEW n \in Nat
  PROVE  /\ BlocksOf(n) \in Nat /\ InBlocks(n) \in Nat /\ InBlocks(n) <= n /\ n < InBlocks(n) + Block
         /\ BlocksOf(n) * Hash \in Nat
<1>1. Block \in Nat /\ Block > 0 /\ Hash \in Nat
  BY Units
<1>2. n \div Block \in Nat /\ (n \div Block) * Block <= n /\ n < (n \div Block) * Block + Block
  BY <1>1
<1> DEFINE q == n \div Block
<1>3. q * Block \in Nat /\ q * Hash \in Nat
  <2> HIDE DEF q
  <2>1. q \in Nat
    BY <1>2 DEF q
  <2> QED
    BY <1>1, <2>1
<1> QED
  BY <1>2, <1>3 DEF BlocksOf, InBlocks

LEMMA InBlocksMultiple ==
  ASSUME NEW n \in Nat, NEW a \in Nat \ {0}, IsMultiple(Block, a)
  PROVE  IsMultiple(InBlocks(n), a)
<1>1. BlocksOf(n) \in Nat /\ Block \in Nat
  BY BlocksIs, Units
<1>2. PICK k \in Int : Block = k * a
  BY DEF IsMultiple
<1> DEFINE q == BlocksOf(n)
<1>3. InBlocks(n) = q * Block /\ q \in Int
  BY <1>1 DEF InBlocks
<1> HIDE DEF q
<1>4. q * (k * a) = (q * k) * a /\ q * k \in Int
  BY <1>3
<1> QED
  BY <1>2, <1>3, <1>4 DEF IsMultiple

LEMMA BlocksMonotone ==
  ASSUME NEW m \in Nat, NEW n \in Nat, m <= n
  PROVE  /\ BlocksOf(m) <= BlocksOf(n) /\ BlocksOf(m) * Hash <= BlocksOf(n) * Hash
         /\ InBlocks(m) <= InBlocks(n)
<1> DEFINE p == BlocksOf(m)
           q == BlocksOf(n)
<1>1. Block \in Nat \ {0} /\ Hash \in Nat
  BY Units
<1>2. p \in Nat /\ q \in Nat /\ p * Block <= m /\ n < q * Block + Block
  BY BlocksIs DEF InBlocks
<1>3. p * Block < q * Block + Block
  <2>1. p * Block \in Nat /\ q * Block \in Nat
    BY BlocksIs DEF InBlocks
  <2> HIDE DEF p, q
  <2> DEFINE x == p * Block
             y == q * Block
  <2>2. x \in Nat /\ y \in Nat /\ x <= m /\ n < y + Block
    BY <1>2, <2>1
  <2> HIDE DEF x, y
  <2>3. x < y + Block
    BY <1>1, <2>2
  <2> QED
    BY <2>3 DEF x, y
<1>4. InBlocks(m) = p * Block /\ InBlocks(n) = q * Block
  BY DEF InBlocks
<1> HIDE DEF p, q
<1>5. p <= q
  <2> SUFFICES ASSUME p >= q + 1 PROVE FALSE
    BY <1>2
  <2>1. p * Block >= (q + 1) * Block
    BY <1>1, <1>2
  <2>2. (q + 1) * Block = q * Block + Block
    BY <1>1, <1>2
  <2>3. p * Block \in Int /\ q * Block \in Int
    BY <1>1, <1>2
  <2> QED
    BY <1>1, <1>3, <2>1, <2>2, <2>3
<1>6. p * Hash <= q * Hash /\ p * Block <= q * Block
  BY <1>1, <1>2, <1>5
<1> QED
  BY <1>4, <1>5, <1>6 DEF p, q

LEMMA WholeBlocks ==
  ASSUME NEW n \in Nat, IsMultiple(n, Block)
  PROVE  InBlocks(n) = n
<1> DEFINE m == InBlocks(n)
<1>1. m \in Nat /\ m <= n /\ n < m + Block
  BY BlocksIs
<1>2. IsMultiple(m, Block)
  BY InBlocksMultiple, Units
<1> HIDE DEF m
<1>3. n <= m
  BY <1>1, <1>2, MultiplesApart, Units
<1>4. m = n
  BY <1>1, <1>3
<1> QED
  BY <1>4 DEF m

-----------------------------------------------------------------------------

\* Where file i ends, counted from the data.
EndOf(i) == IF i = 0 THEN 0 ELSE files[i].Offset + files[i].Size

FileLaid(i) ==
  /\ files[i].Offset \in Nat /\ files[i].Size \in Nat
  /\ EndOf(i - 1) <= files[i].Offset
  /\ ~remapped => files[i].Offset = Align(EndOf(i - 1), FileAlignment)

\* The files follow each other.
FilesLaid == IsSeq(files) /\ \A i \in 1 .. Len(files) : FileLaid(i)

\* The part of a level that is not for the level below it: the header.
Base(k) == IF k = 0 THEN Align(Header, Hash) ELSE 0
Upper(k) == Base(k) + LevelSize(k)
Room(k) == End(k) - Start(k)

InputInv ==
  /\ meta \in Nat /\ remapped \in BOOLEAN
  /\ FilesLaid /\ Level3Size \in Nat /\ DataOffset <= Level3Size
  /\ \A i \in 1 .. Len(files) : DataOffset + EndOf(i) <= Level3Size

LEMMA HashesOfIs ==
  ASSUME NEW n \in Nat
  PROVE  HashesOf(n) = BlocksOf(Align(n, Block)) * Hash /\ HashesOf(n) \in Nat
<1> DEFINE m == Align(n, Block)
<1>1. m \in Nat
  BY AlignIs, Units
<1> HIDE DEF m
<1>2. BlocksOf(m) * Hash \in Nat
  BY <1>1, BlocksIs
<1>3. HashesOf(n) = BlocksOf(m) * Hash
  BY DEF HashesOf, BlocksOf, m
<1> QED
  BY <1>2, <1>3 DEF m

LEMMA SizesAre ==
  ASSUME InputInv
  PROVE  /\ \A k \in Levels : LevelSize(k) \in Nat
         /\ \A k \in 1 .. 3 : LevelSize(k - 1) = HashesOf(LevelSize(k))
<1> DEFINE a == Level3Size
           b == HashesOf(a)
           c == HashesOf(b)
           d == HashesOf(c)
<1>1. a \in Nat
  BY DEF InputInv
<1>2. b \in Nat
  BY <1>1, HashesOfIs
<1>3. c \in Nat
  <2> HIDE DEF b
  <2> QED
    BY <1>2, HashesOfIs
<1>4. d \in Nat
  <2> HIDE DEF c
  <2> QED
    BY <1>3, HashesOfIs
<1>5. LevelSize(3) = a /\ LevelSize(2) = b /\ LevelSize(1) = c /\ LevelSize(0) = d
  BY DEF LevelSize
<1>6. d = HashesOf(c) /\ c = HashesOf(b) /\ b = HashesOf(a)
  OBVIOUS
<1> HIDE DEF a, b, c, d
<1>7. \A k \in Levels : LevelSize(k) \in Nat
  BY <1>1, <1>2, <1>3, <1>4, <1>5 DEF Levels
<1>8. ASSUME NEW k \in 1 .. 3
      PROVE  LevelSize(k - 1) = HashesOf(LevelSize(k))
  <2>1. CASE k = 1
    BY <1>5, <1>6, <2>1
  <2>2. CASE k = 2
    BY <1>5, <1>6, <2>2
  <2>3. CASE k = 3
    BY <1>5, <1>6, <2>3
  <2> QED
    BY <2>1, <2>2, <2>3
<1> QED
  BY <1>7, <1>8

LEMMA PlacesAre ==
  ASSUME InputInv
  PROVE  /\ \A k \in Levels : /\ Start(k) \in Nat /\ Room(k) \in Nat /\ Upper(k) \in Nat
                              /\ Base(k) \in Nat
                              /\ End(k) = Start(k) + Room(k)
                              /\ Room(k) = Align(Upper(k), Block)
         /\ End(0) = Start(3) /\ End(3) = Start(1) /\ End(1) = Start(2) /\ Start(0) = 0
<1>1. \A k \in Levels : LevelSize(k) \in Nat
  BY SizesAre
<1>2. Align(Header, Hash) \in Nat
  BY AlignIs, Units
<1> DEFINE u == Align(Header, Hash) + LevelSize(0)
           a == Align(u, Block)
           b == Align(LevelSize(3), Block)
           c == Align(LevelSize(1), Block)
           d == Align(LevelSize(2), Block)
<1>3. u \in Nat
  BY <1>1, <1>2 DEF Levels
<1>4. a \in Nat
  <2> HIDE DEF u
  <2> QED
    BY <1>3, AlignIs, Units
<1>5. b \in Nat /\ c \in Nat /\ d \in Nat
  BY <1>1, AlignIs, Units DEF Levels
<1>6. /\ Start(0) = 0 /\ Start(3) = a /\ Start(1) = a + b /\ Start(2) = a + b + c
      /\ End(0) = a /\ End(3) = a + b /\ End(1) = a + b + c /\ End(2) = a + b + c + d
  BY DEF Start, End, Level3Offset
<1>7. /\ Base(0) = Align(Header, Hash) /\ Base(1) = 0 /\ Base(2) = 0 /\ Base(3) = 0
      /\ Upper(0) = u /\ Upper(1) = LevelSize(1) /\ Upper(2) = LevelSize(2) /\ Upper(3) = LevelSize(3)
  BY <1>1 DEF Base, Upper, Levels
<1>8. a = Align(Upper(0), Block) /\ b = Align(Upper(3), Block) /\ c = Align(Upper(1), Block)
      /\ d = Align(Upper(2), Block)
  BY <1>7
<1>9. /\ Upper(0) \in Nat /\ Upper(1) \in Nat /\ Upper(2) \in Nat /\ Upper(3) \in Nat
      /\ Base(0) \in Nat /\ Base(1) \in Nat /\ Base(2) \in Nat /\ Base(3) \in Nat
  BY <1>1, <1>2, <1>3, <1>7 DEF Levels
<1> HIDE DEF u, a, b, c, d
<1>10. Room(0) = a /\ Room(1) = c /\ Room(2) = d /\ Room(3) = b
  BY <1>4, <1>5, <1>6 DEF Room
<1>11. ASSUME NEW k \in Levels
       PROVE  /\ Start(k) \in Nat /\ Room(k) \in Nat /\ Upper(k) \in Nat
              /\ Base(k) \in Nat
              /\ End(k) = Start(k) + Room(k)
              /\ Room(k) = Align(Upper(k), Block)
  <2>1. k = 0 \/ k = 1 \/ k = 2 \/ k = 3
    BY DEF Levels
  <2>2. CASE k = 0
    BY <1>4, <1>5, <1>6, <1>8, <1>9, <1>10, <2>2
  <2>3. CASE k = 1
    BY <1>4, <1>5, <1>6, <1>8, <1>9, <1>10, <2>3
  <2>4. CASE k = 2
    BY <1>4, <1>5, <1>6, <1>8, <1>9, <1>10, <2>4
  <2>5. CASE k = 3
    BY <1>4, <1>5, <1>6, <1>8, <1>9, <1>10, <2>5
  <2> QED
    BY <2>1, <2>2, <2>3, <2>4, <2>5
<1> QED
  BY <1>6, <1>11

\* What is written to level k leaves room for its hashes in the level above; when level k
\* is full there are as many of them as the header says.
LEMMA HashesFit ==
  ASSUME InputInv, NEW k \in 1 .. 3, NEW n \in Nat, n <= Room(k)
  PROVE  /\ Base(k - 1) + BlocksOf(n) * Hash <= Upper(k - 1)
         /\ n = Room(k) => Base(k - 1) + BlocksOf(n) * Hash = Upper(k - 1)
<1>1. k \in Levels /\ k - 1 \in Levels
  BY DEF Levels
<1>2. LevelSize(k) \in Nat /\ LevelSize(k - 1) = HashesOf(LevelSize(k)) /\ LevelSize(k - 1) \in Nat
  BY <1>1, SizesAre
<1>3. Base(k) = 0 /\ Upper(k) = LevelSize(k)
  BY <1>2 DEF Base, Upper
<1>4. Room(k) = Align(LevelSize(k), Block) /\ Room(k) \in Nat /\ Base(k - 1) \in Nat
  BY <1>1, <1>3, PlacesAre
<1>5. LevelSize(k - 1) = BlocksOf(Room(k)) * Hash
  BY <1>2, <1>4, HashesOfIs
<1>6. BlocksOf(n) * Hash <= BlocksOf(Room(k)) * Hash /\ BlocksOf(n) * Hash \in Nat
      /\ BlocksOf(Room(k)) * Hash \in Nat
  BY <1>4, BlocksMonotone, BlocksIs
<1> DEFINE x == BlocksOf(n) * Hash
           y == BlocksOf(Room(k)) * Hash
           z == Base(k - 1)
<1>7. x <= y /\ x \in Nat /\ y \in Nat /\ z \in Nat /\ Upper(k - 1) = z + y
  BY <1>4, <1>5, <1>6 DEF Upper
<1>8. n = Room(k) => x = y
  OBVIOUS
<1> HIDE DEF x, y
<1>9. z + x <= z + y /\ (n = Room(k) => z + x = z + y)
  BY <1>7, <1>8
<1> QED
  BY <1>7, <1>9 DEF x, y

-----------------------------------------------------------------------------
(* What the levels hold                                                    *)

LEMMA InBlocksSum ==
  ASSUME NEW m \in Nat, NEW n \in Nat
  PROVE  /\ BlocksOf(InBlocks(m) + n) = BlocksOf(m) + BlocksOf(n)
         /\ InBlocks(InBlocks(m) + n) = InBlocks(m) + InBlocks(n)
<1> DEFINE p == BlocksOf(m)
           q == BlocksOf(n)
           r == n - InBlocks(n)
<1>1. Block \in Nat \ {0} /\ p \in Nat /\ q \in Nat /\ InBlocks(n) \in Nat
      /\ InBlocks(n) <= n /\ n < InBlocks(n) + Block
  BY BlocksIs, Units
<1>2. r \in Nat /\ r < Block /\ n = InBlocks(n) + r
  BY <1>1
<1>3. InBlocks(m) = p * Block /\ InBlocks(n) = q * Block
  BY DEF InBlocks
<1> HIDE DEF p, q, r
<1>4. p * Block + (q * Block + r) = Block * (p + q) + r /\ p + q \in Nat
  BY <1>1, <1>2
<1> DEFINE d == p + q
<1>5. d \in Nat /\ r \in Nat /\ Block \in Nat
  BY <1>1, <1>2, <1>4
<1> HIDE DEF d
<1>6. (Block * d + r) \div Block = d
  BY <1>2, <1>5, DivIs
<1>7. InBlocks(m) + n = Block * d + r
  BY <1>2, <1>3, <1>4 DEF d
<1>8. BlocksOf(InBlocks(m) + n) = d
  BY <1>6, <1>7 DEF BlocksOf
<1>9. d * Block = p * Block + q * Block
  BY <1>1 DEF d
<1>10. InBlocks(InBlocks(m) + n) = InBlocks(m) + InBlocks(n)
  <2>1. InBlocks(InBlocks(m) + n) = d * Block
    BY <1>8 DEF InBlocks
  <2> QED
    BY <2>1, <1>3, <1>9
<1> QED
  BY <1>8, <1>10 DEF d, p, q

\* The cells s went to level k: what filled blocks is in the file, the rest in the buffer.
LevelHolds(w, k, s) ==
  LET n == InBlocks(Len(s))
      data == w.Level[k].Data
  IN /\ IsSeq(s) /\ Len(s) <= Room(k)
     /\ w.Level[k].FilePos = Start(k) + n
     /\ IsSeq(data) /\ Len(data) = Len(s) - n /\ \A i \in 1 .. Len(data) : data[i] = s[n + i]
     /\ \A i \in 1 .. n : w.Out[Start(k) + i - 1] = s[i]

IsWritten(w, S) ==
  /\ w = [Level |-> w.Level, Out |-> w.Out]
  /\ S = [k \in Levels |-> S[k]] /\ w.Level = [k \in Levels |-> w.Level[k]]
  /\ DOMAIN w.Out = 0 .. (End(2) - 1)
  /\ \A k \in Levels : LevelHolds(w, k, S[k])

\* No two levels share a place.
LEMMA LevelsApart ==
  ASSUME InputInv, NEW k \in Levels, NEW i \in 1 .. Room(k)
  PROVE  /\ Start(k) + i - 1 \in 0 .. (End(2) - 1)
         /\ \A l \in Levels \ {k} : ~(Start(l) <= Start(k) + i - 1 /\ Start(k) + i - 1 < End(l))
<1>1. /\ \A j \in Levels : Start(j) \in Nat /\ Room(j) \in Nat /\ End(j) = Start(j) + Room(j)
      /\ End(0) = Start(3) /\ End(3) = Start(1) /\ End(1) = Start(2) /\ Start(0) = 0
  BY PlacesAre
<1> DEFINE a == Start(3)
           b == Start(1)
           c == Start(2)
           d == End(2)
<1>2. /\ Start(0) = 0 /\ End(0) = a /\ Start(3) = a /\ End(3) = b /\ Start(1) = b /\ End(1) = c
      /\ Start(2) = c /\ End(2) = d
  BY <1>1
<1>3. a \in Nat /\ b \in Nat /\ c \in Nat /\ d \in Nat /\ a <= b /\ b <= c /\ c <= d
  <2>1. 0 \in Levels /\ 1 \in Levels /\ 2 \in Levels /\ 3 \in Levels
    BY DEF Levels
  <2> QED
    BY <1>1, <2>1
<1> DEFINE x == Start(k) + i - 1
<1>4. x \in Nat /\ Start(k) <= x /\ x < End(k)
  BY <1>1
<1> HIDE DEF a, b, c, d, x
<1>5. x \in 0 .. (d - 1)
  <2>1. End(k) <= d
    BY <1>2, <1>3 DEF Levels
  <2>2. End(k) \in Nat
    BY <1>2, <1>3 DEF Levels
  <2> QED
    BY <1>3, <1>4, <2>1, <2>2
<1>6. ASSUME NEW l \in Levels \ {k}
      PROVE  ~(Start(l) <= x /\ x < End(l))
  <2>1. CASE k = 0
    BY <1>2, <1>3, <1>4, <2>1 DEF Levels
  <2>2. CASE k = 1
    BY <1>2, <1>3, <1>4, <2>2 DEF Levels
  <2>3. CASE k = 2
    BY <1>2, <1>3, <1>4, <2>3 DEF Levels
  <2>4. CASE k = 3
    BY <1>2, <1>3, <1>4, <2>4 DEF Levels
  <2> QED
    BY <2>1, <2>2, <2>3, <2>4 DEF Levels
<1> QED
  BY <1>2, <1>5, <1>6 DEF x

\* All that is in the buffer is the end of what the level holds then.
Passes(all, s, t) ==
  /\ IsSeq(all) /\ Len(t) = InBlocks(Len(s)) + Len(all)
  /\ \A i \in 1 .. Len(all) : all[i] = t[InBlocks(Len(s)) + i]

LEMMA PassingIs ==
  ASSUME NEW w, NEW l \in Levels, NEW s, LevelHolds(w, l, s), NEW cells, IsSeq(cells),
         NEW t, IsConcat(t, s, cells)
  PROVE  Passes(w.Level[l].Data \o cells, s, t)
<1> DEFINE data == w.Level[l].Data
           all == data \o cells
           m == InBlocks(Len(s))
<1>1. /\ IsSeq(s) /\ IsSeq(data) /\ Len(data) = Len(s) - m
      /\ \A i \in 1 .. Len(data) : data[i] = s[m + i]
  BY DEF LevelHolds
<1>2. Len(s) \in Nat /\ Len(cells) \in Nat /\ Len(data) \in Nat
  BY <1>1, SeqProperties
<1>3. m \in Nat /\ m <= Len(s)
  BY <1>2, BlocksIs
<1> HIDE DEF m, data
<1>4. IsConcat(all, data, cells)
  BY <1>1, ConcatSeq
<1> HIDE DEF all
<1>5. /\ IsSeq(all) /\ Len(all) = Len(data) + Len(cells)
      /\ \A i \in 1 .. Len(data) : all[i] = data[i]
      /\ \A i \in 1 .. Len(cells) : all[Len(data) + i] = cells[i]
  BY <1>4 DEF IsConcat
<1>6. /\ IsSeq(t) /\ Len(t) = Len(s) + Len(cells)
      /\ \A i \in 1 .. Len(s) : t[i] = s[i]
      /\ \A i \in 1 .. Len(cells) : t[Len(s) + i] = cells[i]
  BY DEF IsConcat
<1>7. Len(t) = m + Len(all)
  BY <1>1, <1>2, <1>3, <1>5, <1>6
<1>8. ASSUME NEW i \in 1 .. Len(all)
      PROVE  all[i] = t[m + i]
  <2>1. CASE i <= Len(data)
    <3>1. i \in 1 .. Len(data) /\ m + i \in 1 .. Len(s)
      BY <1>1, <1>2, <1>3, <2>1
    <3> QED
      BY <1>1, <1>5, <1>6, <3>1
  <2>2. CASE i > Len(data)
    <3> DEFINE j == i - Len(data)
    <3>1. j \in 1 .. Len(cells) /\ Len(data) + j = i /\ Len(s) + j = m + i
      BY <1>1, <1>2, <1>3, <1>5, <2>2
    <3> HIDE DEF j
    <3> QED
      BY <1>5, <1>6, <3>1
  <2> QED
    BY <1>2, <2>1, <2>2
<1> QED
  BY <1>5, <1>7, <1>8 DEF all, data, m, Passes

\* A level that takes cells holds them behind what it held before; the others keep theirs.
LEMMA TakenIs ==
  ASSUME InputInv, NEW w, NEW S, IsWritten(w, S), NEW l \in Levels, NEW cells, IsSeq(cells),
         NEW t, IsConcat(t, S[l], cells), Len(t) <= Room(l),
         NEW T, T = [S EXCEPT ![l] = t]
  PROVE  IsWritten(Taken(w, l, cells), T)
<1> DEFINE s == S[l]
           at == w.Level[l].FilePos
           all == w.Level[l].Data \o cells
           m == InBlocks(Len(s))
           n == InBlocks(Len(all))
           rest == SubSeq(all, n + 1, Len(all))
           v == Taken(w, l, cells)
<1>1. /\ S = [k \in Levels |-> S[k]] /\ w.Level = [k \in Levels |-> w.Level[k]]
      /\ DOMAIN w.Out = 0 .. (End(2) - 1)
      /\ \A k \in Levels : LevelHolds(w, k, S[k])
  BY DEF IsWritten
<1>2. LevelHolds(w, l, s)
  BY <1>1
<1>3. IsConcat(t, s, cells)
  OBVIOUS
<1>4. IsSeq(all) /\ Len(t) = m + Len(all) /\ \A i \in 1 .. Len(all) : all[i] = t[m + i]
  <2> HIDE DEF s, all
  <2>1. Passes(all, s, t)
    BY <1>2, <1>3, PassingIs DEF all
  <2> QED
    BY <2>1 DEF Passes
<1>5. /\ IsSeq(s) /\ at = Start(l) + m
      /\ \A i \in 1 .. m : w.Out[Start(l) + i - 1] = s[i]
  BY <1>2 DEF LevelHolds
<1>6. v = [Level |-> [w.Level EXCEPT ![l] = [Data |-> rest, FilePos |-> at + n]],
           Out   |-> [x \in DOMAIN w.Out \cup at .. (at + n - 1) |->
                        IF at <= x /\ x < at + n THEN all[x - at + 1] ELSE w.Out[x]]]
  BY DEF Taken, InBlocks, BlocksOf
<1>7. T = [k \in Levels |-> T[k]] /\ T[l] = t /\ \A k \in Levels \ {l} : T[k] = S[k]
  BY <1>1
<1>8. Len(s) \in Nat /\ Len(all) \in Nat /\ Len(t) \in Nat /\ IsSeq(t)
      /\ Start(l) \in Nat /\ Room(l) \in Nat /\ End(l) = Start(l) + Room(l)
  <2>1. IsSeq(t)
    BY DEF IsConcat
  <2> QED
    BY <1>4, <1>5, <2>1, SeqProperties, PlacesAre
<1>9. m \in Nat /\ n \in Nat /\ m <= Len(s) /\ n <= Len(all)
  BY <1>8, BlocksIs
<1>10. InBlocks(Len(t)) = m + n
  <2> DEFINE a == Len(s)
             b == Len(all)
  <2>1. a \in Nat /\ b \in Nat /\ Len(t) = InBlocks(a) + b
    BY <1>4, <1>8
  <2> HIDE DEF a, b
  <2>2. InBlocks(InBlocks(a) + b) = InBlocks(a) + InBlocks(b)
    BY <2>1, InBlocksSum
  <2> QED
    BY <2>1, <2>2 DEF a, b
<1>11. IsSeq(rest) /\ Len(rest) = Len(all) - n /\ \A i \in 1 .. Len(all) - n : rest[i] = all[n + i]
  <2> DEFINE b == Len(all)
             q == n + 1
  <2>1. b \in Nat /\ q \in Int
    BY <1>8, <1>9
  <2> HIDE DEF b, q, all
  <2>2. /\ IsSeq(SubSeq(all, q, b)) /\ Len(SubSeq(all, q, b)) = IF q <= b THEN b - q + 1 ELSE 0
        /\ \A i \in 1 .. b - q + 1 : SubSeq(all, q, b)[i] = all[q + i - 1]
    BY <2>1, PartSeq
  <2>3. b - q + 1 = b - n /\ (IF q <= b THEN b - q + 1 ELSE 0) = b - n
        /\ \A i \in 1 .. b - n : q + i - 1 = n + i
    BY <1>9, <2>1 DEF q, b
  <2>4. rest = SubSeq(all, q, b)
    BY DEF q, b
  <2> HIDE DEF rest, n
  <2> QED
    BY <2>2, <2>3, <2>4 DEF b
<1>18. v = [Level |-> v.Level, Out |-> v.Out]
  <2> HIDE DEF rest, all, n, at
  <2> QED
    BY <1>6
<1> HIDE DEF v, rest, m, n, all
<1>12. m + n <= Room(l) /\ at = Start(l) + m /\ at \in Nat
  BY <1>4, <1>5, <1>8, <1>9
<1> HIDE DEF at
<1>13. /\ v.Level = [k \in Levels |-> v.Level[k]]
       /\ v.Level[l].Data = rest /\ v.Level[l].FilePos = at + n
       /\ \A k \in Levels \ {l} : v.Level[k] = w.Level[k]
  BY <1>1, <1>6
<1>14. /\ DOMAIN v.Out = 0 .. (End(2) - 1)
       /\ \A x \in 0 .. (End(2) - 1) :
            v.Out[x] = IF at <= x /\ x < at + n THEN all[x - at + 1] ELSE w.Out[x]
  <2>1. at .. (at + n - 1) \subseteq 0 .. (End(2) - 1)
    <3> SUFFICES ASSUME NEW x \in at .. (at + n - 1) PROVE x \in 0 .. (End(2) - 1)
      OBVIOUS
    <3> DEFINE a == Start(l)
               r == Room(l)
               i == x - a + 1
    <3>1. a \in Nat /\ r \in Nat /\ m + n <= r /\ at = a + m
      BY <1>8, <1>12
    <3> HIDE DEF a, r
    <3>2. x \in Int /\ a + m <= x /\ x < a + (m + n)
      BY <1>9, <3>1
    <3>3. i \in 1 .. r /\ a + i - 1 = x
      BY <1>9, <3>1, <3>2
    <3> HIDE DEF i
    <3> QED
      BY <3>3, LevelsApart DEF a, r
  <2> QED
    BY <1>1, <1>6, <2>1
<1>15. ASSUME NEW k \in Levels \ {l}
       PROVE  LevelHolds(v, k, T[k])
  <2>1. LevelHolds(w, k, S[k]) /\ T[k] = S[k] /\ v.Level[k] = w.Level[k]
    BY <1>1, <1>7, <1>13
  <2>2. Len(S[k]) \in Nat /\ Len(S[k]) <= Room(k) /\ Room(k) \in Nat
    BY <2>1, SeqProperties, PlacesAre DEF LevelHolds
  <2>3. InBlocks(Len(S[k])) \in Nat /\ InBlocks(Len(S[k])) <= Len(S[k])
    BY <2>2, BlocksIs
  <2>4. ASSUME NEW i \in 1 .. InBlocks(Len(S[k]))
        PROVE  v.Out[Start(k) + i - 1] = w.Out[Start(k) + i - 1]
    <3> DEFINE x == Start(k) + i - 1
    <3>1. i \in 1 .. Room(k)
      BY <2>2, <2>3
    <3>2. x \in 0 .. (End(2) - 1) /\ ~(Start(l) <= x /\ x < End(l))
      BY <3>1, LevelsApart
    <3> HIDE DEF x
    <3>3. ~(at <= x /\ x < at + n)
      BY <1>4, <1>5, <1>8, <1>9, <3>2
    <3> QED
      BY <1>14, <3>2, <3>3 DEF x
  <2> QED
    BY <2>1, <2>4 DEF LevelHolds
<1>16. LevelHolds(v, l, t)
  <2>1. Len(rest) = Len(t) - InBlocks(Len(t))
    BY <1>4, <1>8, <1>9, <1>10, <1>11
  <2>2. ASSUME NEW i \in 1 .. Len(rest)
        PROVE  rest[i] = t[InBlocks(Len(t)) + i]
    <3>1. i \in 1 .. Len(all) - n /\ n + i \in 1 .. Len(all) /\ m + (n + i) = InBlocks(Len(t)) + i
      BY <1>8, <1>9, <1>10, <1>11
    <3> QED
      BY <1>4, <1>11, <3>1
  <2>3. ASSUME NEW i \in 1 .. InBlocks(Len(t))
        PROVE  v.Out[Start(l) + i - 1] = t[i]
    <3> DEFINE x == Start(l) + i - 1
    <3>1. i \in 1 .. Room(l) /\ i <= m + n /\ i \in Nat
      BY <1>4, <1>8, <1>9, <1>10
    <3>2. x \in 0 .. (End(2) - 1)
      BY <3>1, LevelsApart
    <3>3. CASE i <= m
      <4>1. ~(at <= x /\ x < at + n) /\ i \in 1 .. m /\ i \in 1 .. Len(s)
        BY <1>5, <1>8, <1>9, <3>1, <3>3
      <4>2. v.Out[x] = w.Out[x]
        BY <1>14, <3>2, <4>1
      <4>3. t[i] = s[i]
        BY <1>3, <4>1 DEF IsConcat
      <4> QED
        BY <1>5, <4>1, <4>2, <4>3
    <3>4. CASE i > m
      <4> DEFINE j == x - at + 1
      <4>1. at <= x /\ x < at + n /\ j \in 1 .. Len(all) /\ m + j = i
        <5> DEFINE a == Start(l)
                   b == Len(all)
        <5>1. /\ a \in Nat /\ b \in Nat /\ m \in Nat /\ n \in Nat /\ i \in Nat
              /\ at = a + m /\ x = a + i - 1 /\ n <= b /\ i <= m + n /\ i > m
          BY <1>5, <1>8, <1>9, <3>1, <3>4
        <5> HIDE DEF a, b, x
        <5>2. j = i - m
          BY <5>1
        <5>3. at <= x /\ x < at + n
          BY <5>1
        <5> HIDE DEF j
        <5>4. j \in 1 .. b /\ m + j = i
          BY <5>1, <5>2
        <5> QED
          BY <5>3, <5>4 DEF b
      <4>2. v.Out[x] = all[j]
        BY <1>14, <3>2, <4>1
      <4> HIDE DEF j, x
      <4>3. v.Out[x] = t[i]
        BY <1>4, <4>1, <4>2
      <4> QED
        BY <4>3 DEF x
    <3> QED
      BY <1>9, <3>1, <3>3, <3>4
  <2>4. at + n = Start(l) + InBlocks(Len(t))
    BY <1>5, <1>8, <1>9, <1>10
  <2> QED
    BY <1>8, <1>11, <1>13, <2>1, <2>2, <2>3, <2>4 DEF LevelHolds
<1>17. \A k \in Levels : LevelHolds(v, k, T[k])
  BY <1>7, <1>15, <1>16
<1> QED
  BY <1>7, <1>13, <1>14, <1>17, <1>18 DEF IsWritten, v

-----------------------------------------------------------------------------
(* The hashes                                                              *)

AreHashes(hashes, all) ==
  /\ IsSeq(hashes) /\ Len(hashes) = BlocksOf(Len(all)) * Hash
  /\ \A b \in 0 .. (BlocksOf(Len(all)) - 1) : \A h \in 1 .. Hash :
       hashes[b * Hash + h] = <<h, BlockAt(all, b)>>

\* A place within the parts of a whole.
LEMMA PlaceIn ==
  ASSUME NEW n \in Nat, NEW b \in 0 .. (n - 1), NEW d \in Nat \ {0}, NEW h \in 1 .. d
  PROVE  b * d + h \in 1 .. n * d
<1>1. b * d \in Nat /\ n * d \in Nat
  OBVIOUS
<1>2. (b + 1) * d <= n * d
  <2> DEFINE c == b + 1
  <2>1. c \in Nat /\ c <= n
    OBVIOUS
  <2> HIDE DEF c
  <2>2. c * d <= n * d
    BY <2>1
  <2> QED
    BY <2>2 DEF c
<1>3. (b + 1) * d = b * d + d
  OBVIOUS
<1> DEFINE x == b * d
           y == n * d
<1>4. x \in Nat /\ y \in Nat /\ x + d <= y
  BY <1>1, <1>2, <1>3
<1> HIDE DEF x, y
<1>5. x + h \in 1 .. y
  BY <1>4
<1> QED
  BY <1>5 DEF x, y

LEMMA HashesAre ==
  ASSUME NEW all, IsSeq(all)
  PROVE  AreHashes(Hashes(all), all)
<1> DEFINE q == BlocksOf(Len(all))
           n == q * Hash
           g == Hashes(all)
<1>1. Len(all) \in Nat /\ Hash \in Nat \ {0}
  BY SeqProperties, Units
<1>2. q \in Nat /\ n \in Nat
  BY <1>1, BlocksIs
<1>3. g = [k \in 1 .. n |-> HashOf(BlockAt(all, (k - 1) \div Hash))[((k - 1) % Hash) + 1]]
  BY DEF Hashes, BlocksOf
<1>4. g = [k \in 1 .. n |-> g[k]]
  BY <1>3
<1> HIDE DEF g, n
<1>5. IsSeq(g) /\ Len(g) = n
  BY <1>2, <1>4, TupleSeq
<1> HIDE DEF q
<1>6. ASSUME NEW b \in 0 .. (q - 1), NEW h \in 1 .. Hash
      PROVE  g[b * Hash + h] = <<h, BlockAt(all, b)>>
  <2> DEFINE k == b * Hash + h
             e == h - 1
  <2>1. k \in 1 .. n
    BY <1>1, <1>2, PlaceIn DEF n
  <2>2. e \in Nat /\ e < Hash /\ b \in Nat /\ Hash \in Nat
    BY <1>1, <1>2
  <2>3. k - 1 = Hash * b + e
    BY <1>1, <2>2
  <2> HIDE DEF k, e
  <2>4. (Hash * b + e) \div Hash = b /\ (Hash * b + e) % Hash = e
    BY <2>2, DivIs
  <2>5. g[k] = HashOf(BlockAt(all, b))[e + 1]
    BY <1>3, <2>1, <2>3, <2>4
  <2>6. e + 1 = h
    BY <1>1 DEF e
  <2>7. HashOf(BlockAt(all, b))[h] = <<h, BlockAt(all, b)>>
    BY DEF HashOf
  <2> QED
    BY <2>5, <2>6, <2>7 DEF k
<1> QED
  BY <1>5, <1>6 DEF AreHashes, q, n, g

\* The blocks that fill up in the buffer follow those that did before.
LEMMA BlockMoves ==
  ASSUME NEW all, NEW s, NEW t, Passes(all, s, t), Len(s) \in Nat,
         NEW b \in 0 .. (BlocksOf(Len(all)) - 1)
  PROVE  BlockAt(all, b) = BlockAt(t, BlocksOf(Len(s)) + b)
<1> DEFINE p == BlocksOf(Len(s))
           q == BlocksOf(Len(all))
           m == InBlocks(Len(s))
<1>1. /\ IsSeq(all) /\ \A i \in 1 .. Len(all) : all[i] = t[m + i]
  BY DEF Passes
<1>2. Len(all) \in Nat
  BY <1>1, SeqProperties
<1>3. Block \in Nat \ {0} /\ p \in Nat /\ q \in Nat /\ m \in Nat /\ q * Block \in Nat /\ q * Block <= Len(all)
  BY <1>2, BlocksIs, Units DEF InBlocks
<1>4. m = p * Block
  BY DEF InBlocks
<1> HIDE DEF p, q, m
<1>5. ASSUME NEW k \in 1 .. Block
      PROVE  all[b * Block + k] = t[(p + b) * Block + k]
  <2> DEFINE i == b * Block + k
             j == (p + b) * Block + k
  <2>1. b \in 0 .. (q - 1)
    BY DEF q
  <2>2. i \in 1 .. q * Block
    BY <1>3, <2>1, PlaceIn
  <2>3. i \in 1 .. Len(all)
    BY <1>2, <1>3, <2>2
  <2>4. j = m + i
    BY <1>3, <1>4, <2>1
  <2> HIDE DEF i, j
  <2>5. all[i] = t[j]
    BY <1>1, <2>3, <2>4
  <2> QED
    BY <2>5 DEF i, j
<1> QED
  BY <1>5 DEF BlockAt, p

LEMMA BlockStays ==
  ASSUME NEW s, NEW c, NEW t, IsConcat(t, s, c), Len(s) \in Nat,
         NEW b \in 0 .. (BlocksOf(Len(s)) - 1)
  PROVE  BlockAt(t, b) = BlockAt(s, b)
<1> DEFINE q == BlocksOf(Len(s))
<1>1. Block \in Nat \ {0} /\ q \in Nat /\ q * Block \in Nat /\ q * Block <= Len(s)
  BY BlocksIs, Units DEF InBlocks
<1>2. b \in 0 .. (q - 1)
  OBVIOUS
<1> HIDE DEF q
<1>3. ASSUME NEW k \in 1 .. Block
      PROVE  t[b * Block + k] = s[b * Block + k]
  <2> DEFINE i == b * Block + k
  <2>1. i \in 1 .. q * Block
    BY <1>1, <1>2, PlaceIn
  <2> HIDE DEF i
  <2>2. i \in 1 .. Len(s)
    BY <1>1, <2>1
  <2>3. t[i] = s[i]
    BY <2>2 DEF IsConcat
  <2> QED
    BY <2>3 DEF i
<1> QED
  BY <1>3 DEF BlockAt

-----------------------------------------------------------------------------
(* The chain of the levels                                                 *)

\* How far the hashes of level k reach in the level above.
HashesEnd(S, k) == Base(k - 1) + BlocksOf(Len(S[k])) * Hash

\* Each block that level k has filled is hashed in the level above.
Linked(S, k) ==
  /\ HashesEnd(S, k) <= Len(S[k - 1])
  /\ \A b \in 0 .. (BlocksOf(Len(S[k])) - 1) : \A h \in 1 .. Hash :
       S[k - 1][Base(k - 1) + (b * Hash + h)] = <<h, BlockAt(S[k], b)>>

\* The level above has nothing behind the hashes.
Exact(S, k) == Len(S[k - 1]) = HashesEnd(S, k)

\* The buffers and the file are written up to S, which up to level l has nothing but hashes.
Good(w, S, l) ==
  /\ IsWritten(w, S)
  /\ \A k \in 1 .. 3 : Linked(S, k) /\ (k <= l => Exact(S, k))

\* Level k has yet to take the cells; when it has, the levels hold T.
Going(w, k, cells, S, T, l) ==
  /\ IsWritten(w, S) /\ IsSeq(cells) /\ IsConcat(T[k], S[k], cells) /\ Len(T[k]) <= Room(k)
  /\ T = [S EXCEPT ![k] = T[k]]
  /\ k # 0 => Linked(S, k) /\ Exact(S, k)
  /\ \A j \in (1 .. 3) \ {k} : Linked(T, j) /\ (j <= l => Exact(T, j))

\* Only level l and what is above it has changed.
KeptAbove(T, S, l, t) == T[l] = t /\ \A j \in Levels : j > l => T[j] = S[j]

LEMMA WrittenIs ==
  ASSUME NEW w, NEW S, IsWritten(w, S), NEW k \in Levels
  PROVE  LevelHolds(w, k, S[k]) /\ IsSeq(S[k]) /\ Len(S[k]) \in Nat /\ Len(S[k]) <= Room(k)
<1>1. LevelHolds(w, k, S[k])
  BY DEF IsWritten
<1>2. IsSeq(S[k]) /\ Len(S[k]) <= Room(k)
  BY <1>1 DEF LevelHolds
<1> QED
  BY <1>1, <1>2, SeqProperties

\* A level may grow at its end.
LEMMA LinkedGrows ==
  ASSUME NEW k \in 1 .. 3, NEW S, NEW T, Linked(S, k), T[k] = S[k],
         NEW cells, IsConcat(T[k - 1], S[k - 1], cells), IsSeq(cells),
         Len(S[k - 1]) \in Nat, Len(S[k]) \in Nat, Base(k - 1) \in Nat
  PROVE  Linked(T, k)
<1> DEFINE q == BlocksOf(Len(S[k]))
           o == Base(k - 1)
           s == S[k - 1]
           t == T[k - 1]
<1>1. Len(cells) \in Nat /\ q \in Nat /\ Hash \in Nat \ {0} /\ q * Hash \in Nat
  BY SeqProperties, BlocksIs, Units
<1>2. Len(t) = Len(s) + Len(cells) /\ \A i \in 1 .. Len(s) : t[i] = s[i]
  BY DEF IsConcat
<1>3. /\ o + q * Hash <= Len(s)
      /\ \A b \in 0 .. (q - 1) : \A h \in 1 .. Hash : s[o + (b * Hash + h)] = <<h, BlockAt(S[k], b)>>
  BY DEF Linked, HashesEnd
<1> HIDE DEF q, o, s, t
<1>4. o + q * Hash <= Len(t)
  <2> DEFINE x == q * Hash
             ls == Len(s)
  <2>1. o \in Nat /\ x \in Nat /\ ls \in Nat /\ o + x <= ls
    BY <1>1, <1>3 DEF o, s
  <2> HIDE DEF x
  <2>2. o + x <= ls + Len(cells)
    BY <1>1, <2>1
  <2> QED
    BY <1>2, <2>2 DEF x
<1>5. ASSUME NEW b \in 0 .. (q - 1), NEW h \in 1 .. Hash
      PROVE  t[o + (b * Hash + h)] = <<h, BlockAt(S[k], b)>>
  <2> DEFINE i == b * Hash + h
  <2>1. i \in 1 .. q * Hash
    BY <1>1, PlaceIn
  <2> HIDE DEF i
  <2>2. o + i \in 1 .. Len(s)
    BY <1>1, <1>3, <2>1 DEF o, s
  <2>3. t[o + i] = s[o + i]
    BY <1>2, <2>2
  <2> QED
    BY <1>3, <2>3 DEF i
<1>6. T[k] = S[k]
  OBVIOUS
<1> QED
  BY <1>4, <1>5, <1>6 DEF Linked, HashesEnd, q, o, s, t

\* Level k takes what is handed to it, and hands the hashes on.
IsPassedOn(w, k, cells, hashes, T, U, l) ==
  /\ Going(Taken(w, k, cells), k - 1, hashes, T, U, l)
  /\ \A j \in Levels : j >= k => U[j] = T[j]

LEMMA PassedOn ==
  ASSUME InputInv, NEW w, NEW l \in Levels, NEW k \in 1 .. l, NEW cells, NEW S, NEW T,
         Going(w, k, cells, S, T, l)
  PROVE  IsPassedOn(w, k, cells, Hashes(w.Level[k].Data \o cells), T,
                    [T EXCEPT ![k - 1] = @ \o Hashes(w.Level[k].Data \o cells)], l)
<1> DEFINE all == w.Level[k].Data \o cells
           hashes == Hashes(all)
           U == [T EXCEPT ![k - 1] = @ \o hashes]
           v == Taken(w, k, cells)
           s == S[k]
           t == T[k]
           up == S[k - 1]
           o == Base(k - 1)
<1>1. k \in Levels /\ k - 1 \in Levels /\ k \in 1 .. 3 /\ k - 1 # k /\ k \in Nat /\ k # 0
  BY DEF Levels
<1>2. /\ IsWritten(w, S) /\ IsSeq(cells) /\ IsConcat(t, s, cells) /\ Len(t) <= Room(k)
      /\ T = [S EXCEPT ![k] = t] /\ Linked(S, k) /\ Exact(S, k)
      /\ \A j \in (1 .. 3) \ {k} : Linked(T, j) /\ (j <= l => Exact(T, j))
  BY <1>1 DEF Going
<1>3. S = [j \in Levels |-> S[j]]
  BY <1>2 DEF IsWritten
<1>4. T = [j \in Levels |-> T[j]] /\ T[k - 1] = up /\ \A j \in Levels \ {k} : T[j] = S[j]
  BY <1>1, <1>2, <1>3
<1>5. IsWritten(v, T)
  <2> HIDE DEF v, t
  <2>1. IsConcat(t, S[k], cells)
    BY <1>2
  <2>2. IsWritten(Taken(w, k, cells), T)
    BY <1>1, <1>2, <2>1, TakenIs
  <2> QED
    BY <2>2 DEF v
<1>6. LevelHolds(w, k, s) /\ IsSeq(s) /\ Len(s) \in Nat
  BY <1>1, <1>2, WrittenIs
<1>7. IsSeq(up) /\ Len(up) \in Nat
  BY <1>1, <1>2, WrittenIs
<1>8. IsSeq(t) /\ Len(t) \in Nat
  BY <1>1, <1>5, WrittenIs
<1>9. Passes(all, s, t)
  <2> HIDE DEF all, s, t
  <2> QED
    BY <1>1, <1>2, <1>6, PassingIs DEF all
<1>10. IsSeq(all) /\ Len(all) \in Nat /\ Len(t) = InBlocks(Len(s)) + Len(all)
  <2> HIDE DEF all, s, t
  <2> QED
    BY <1>9, SeqProperties DEF Passes
<1> HIDE DEF all
<1>11. AreHashes(hashes, all)
  BY <1>10, HashesAre
<1> HIDE DEF hashes
<1> DEFINE p == BlocksOf(Len(s))
           q == BlocksOf(Len(all))
<1>12. p \in Nat /\ q \in Nat /\ p * Hash \in Nat /\ q * Hash \in Nat /\ Hash \in Nat \ {0} /\ o \in Nat
  BY <1>1, <1>6, <1>10, BlocksIs, Units, PlacesAre
<1>13. BlocksOf(Len(t)) = p + q
  <2> DEFINE a == Len(s)
             c == Len(all)
  <2>1. a \in Nat /\ c \in Nat /\ Len(t) = InBlocks(a) + c
    BY <1>6, <1>10
  <2> HIDE DEF a, c
  <2>2. BlocksOf(InBlocks(a) + c) = BlocksOf(a) + BlocksOf(c)
    BY <2>1, InBlocksSum
  <2> QED
    BY <2>1, <2>2 DEF a, c
<1>14. /\ IsSeq(hashes) /\ Len(hashes) = q * Hash
       /\ \A b \in 0 .. (q - 1) : \A h \in 1 .. Hash : hashes[b * Hash + h] = <<h, BlockAt(all, b)>>
  BY <1>11 DEF AreHashes
<1>15. U = [j \in Levels |-> U[j]] /\ U[k - 1] = up \o hashes /\ \A j \in Levels \ {k - 1} : U[j] = T[j]
  BY <1>1, <1>4
<1> DEFINE up2 == up \o hashes
<1>16. IsConcat(up2, up, hashes)
  BY <1>7, <1>14, ConcatSeq
<1> HIDE DEF U, up2, up, s, t, v, p, q
<1>17. Len(up) = o + p * Hash /\ Linked(S, k)
  BY <1>2 DEF Exact, HashesEnd, up, p, s, o
<1> HIDE DEF o
<1>18. U[k - 1] = up2 /\ U[k] = t /\ T[k - 1] = up
  BY <1>1, <1>4, <1>15 DEF up2, t, up
<1>19. HashesEnd(U, k) = o + (p + q) * Hash /\ Len(up2) = o + (p + q) * Hash
  <2>1. (p + q) * Hash = p * Hash + q * Hash
    BY <1>12
  <2>2. Len(up2) = Len(up) + Len(hashes)
    BY <1>16 DEF IsConcat
  <2>3. HashesEnd(U, k) = o + BlocksOf(Len(t)) * Hash
    BY <1>18 DEF HashesEnd, o
  <2> DEFINE x == p * Hash
             y == q * Hash
  <2>4. Len(up2) = (o + x) + y /\ x \in Nat /\ y \in Nat
    BY <1>12, <1>14, <1>17, <2>2
  <2>5. o + (p + q) * Hash = o + (x + y)
    BY <2>1
  <2> HIDE DEF x, y
  <2>6. (o + x) + y = o + (x + y)
    BY <1>12, <2>4
  <2> QED
    BY <1>13, <2>3, <2>4, <2>5, <2>6
<1>20. Len(up2) <= Room(k - 1)
  <2>1. Base(k - 1) + BlocksOf(Len(t)) * Hash <= Upper(k - 1)
    BY <1>1, <1>2, <1>8, HashesFit DEF t
  <2>2. Room(k - 1) = Align(Upper(k - 1), Block) /\ Upper(k - 1) \in Nat
    BY <1>1, PlacesAre
  <2>3. Room(k - 1) \in Nat /\ Upper(k - 1) <= Room(k - 1)
    BY <2>2, AlignIs, Units
  <2>4. Base(k - 1) + BlocksOf(Len(t)) * Hash = Len(up2)
    BY <1>13, <1>19 DEF o
  <2>5. Len(up2) \in Nat
    BY <1>16, SeqProperties DEF IsConcat
  <2> QED
    BY <2>1, <2>2, <2>3, <2>4, <2>5
<1>21. Exact(U, k)
  BY <1>18, <1>19 DEF Exact
<1>22. Linked(U, k)
  <2>1. ASSUME NEW b \in 0 .. (p + q - 1), NEW h \in 1 .. Hash
        PROVE  up2[o + (b * Hash + h)] = <<h, BlockAt(t, b)>>
    <3>1. /\ \A i \in 1 .. Len(up) : up2[i] = up[i]
          /\ \A i \in 1 .. Len(hashes) : up2[Len(up) + i] = hashes[i]
      BY <1>16 DEF IsConcat
    <3>2. CASE b < p
      <4> DEFINE i == b * Hash + h
      <4>1. b \in 0 .. (p - 1)
        BY <1>12, <3>2
      <4>2. i \in 1 .. p * Hash
        BY <1>12, <4>1, PlaceIn
      <4>3. up[o + i] = <<h, BlockAt(s, b)>>
        BY <1>17, <4>1 DEF Linked, up, o, s, p
      <4>4. BlockAt(t, b) = BlockAt(s, b)
        BY <1>2, <1>6, <4>1, BlockStays DEF p, s, t
      <4> HIDE DEF i
      <4>5. o + i \in 1 .. Len(up)
        <5> DEFINE x == p * Hash
        <5>1. x \in Nat /\ i \in 1 .. x /\ Len(up) = o + x
          BY <1>12, <1>17, <4>2
        <5> HIDE DEF x
        <5> QED
          BY <1>12, <5>1
      <4> QED
        BY <3>1, <4>3, <4>4, <4>5 DEF i
    <3>3. CASE b >= p
      <4> DEFINE c == b - p
                 i == c * Hash + h
      <4>1. c \in 0 .. (q - 1) /\ b = p + c
        BY <1>12, <3>3
      <4>2. b * Hash + h = p * Hash + (c * Hash + h)
        BY <1>12, <4>1
      <4> HIDE DEF c
      <4>3. i \in 1 .. q * Hash /\ b * Hash + h = p * Hash + i
        BY <1>12, <4>1, <4>2, PlaceIn
      <4>4. hashes[i] = <<h, BlockAt(all, c)>>
        BY <1>14, <4>1
      <4>5. BlockAt(all, c) = BlockAt(t, p + c)
        BY <1>6, <1>9, <4>1, BlockMoves DEF p, q
      <4> HIDE DEF i
      <4>6. up2[Len(up) + i] = hashes[i]
        BY <1>14, <3>1, <4>3
      <4>7. o + (b * Hash + h) = Len(up) + i
        <5> DEFINE x == p * Hash
        <5>1. x \in Nat /\ b * Hash + h = x + i /\ Len(up) = o + x /\ i \in Int
          BY <1>12, <1>17, <4>3
        <5> HIDE DEF x
        <5> QED
          BY <1>12, <5>1
      <4> QED
        BY <4>1, <4>4, <4>5, <4>6, <4>7
    <3> QED
      BY <1>12, <3>2, <3>3
  <2>2. HashesEnd(U, k) <= Len(U[k - 1])
    <3>1. Len(up2) \in Nat
      BY <1>16, SeqProperties DEF IsConcat
    <3> QED
      BY <1>18, <1>19, <3>1
  <2>3. BlocksOf(Len(U[k])) = p + q /\ U[k] = t /\ U[k - 1] = up2
    BY <1>13, <1>18
  <2> HIDE DEF U
  <2> DEFINE n == BlocksOf(Len(U[k]))
  <2>4. n = p + q
    BY <2>3
  <2> HIDE DEF n
  <2>5. ASSUME NEW b \in 0 .. (n - 1), NEW h \in 1 .. Hash
        PROVE  U[k - 1][Base(k - 1) + (b * Hash + h)] = <<h, BlockAt(U[k], b)>>
    <3>1. b \in 0 .. (p + q - 1)
      BY <1>12, <2>4
    <3>2. up2[o + (b * Hash + h)] = <<h, BlockAt(t, b)>>
      BY <2>1, <3>1
    <3> QED
      BY <2>3, <3>2 DEF o
  <2> QED
    BY <2>2, <2>5 DEF Linked, n
<1>23. ASSUME NEW j \in (1 .. 3) \ {k - 1}
       PROVE  Linked(U, j) /\ (j <= l => Exact(U, j))
  <2>1. CASE j = k
    BY <1>21, <1>22, <2>1
  <2>2. CASE j # k
    <3>1. j \in Levels \ {k - 1} /\ j - 1 \in Levels \ {k - 1}
      BY <1>1, <2>2 DEF Levels
    <3>2. U[j] = T[j] /\ U[j - 1] = T[j - 1]
      BY <1>15, <3>1
    <3>3. Linked(T, j) /\ (j <= l => Exact(T, j))
      BY <1>2, <2>2
    <3> QED
      BY <3>2, <3>3 DEF Linked, Exact, HashesEnd
  <2> QED
    BY <2>1, <2>2
<1>24. ASSUME k - 1 # 0
       PROVE  Linked(T, k - 1) /\ Exact(T, k - 1)
  <2>1. k - 1 \in (1 .. 3) \ {k} /\ k - 1 <= l
    BY <1>1, <1>24
  <2> QED
    BY <1>2, <2>1
<1>25. U = [T EXCEPT ![k - 1] = U[k - 1]]
  BY <1>1, <1>4, <1>15
<1>26. IsConcat(U[k - 1], T[k - 1], hashes) /\ Len(U[k - 1]) <= Room(k - 1)
  BY <1>16, <1>18, <1>20
<1>27. Going(v, k - 1, hashes, T, U, l)
  BY <1>5, <1>14, <1>23, <1>24, <1>25, <1>26 DEF Going
<1>28. ASSUME NEW j \in Levels, j >= k
       PROVE  U[j] = T[j]
  <2>1. j \in Levels \ {k - 1}
    BY <1>1, <1>28 DEF Levels
  <2> QED
    BY <1>15, <2>1
<1> QED
  BY <1>27, <1>28 DEF v, U, hashes, all, IsPassedOn

\* What writeBuffer does to one level after the other.
AreTaken(take, w, l, cells) ==
  /\ take[l] = [W |-> w, Cells |-> cells]
  /\ \A k \in 1 .. l :
       take[k - 1] = [W |-> Taken(take[k].W, k, take[k].Cells),
                      Cells |-> Hashes(take[k].W.Level[k].Data \o take[k].Cells)]
  /\ WriteBuffer(w, l, cells) = Taken(take[0].W, 0, take[0].Cells)

LEMMA TakesAre ==
  ASSUME NEW w, NEW l \in Levels, NEW cells
  PROVE  \E take : AreTaken(take, w, l, cells)
<1> DEFINE Handed(x, k) == [W |-> Taken(x.W, k, x.Cells), Cells |-> Hashes(x.W.Level[k].Data \o x.Cells)]
           first == [W |-> w, Cells |-> cells]
           IsTake(f) == f = [k \in 0 .. l |-> IF k = l THEN first ELSE Handed(f[k + 1], k + 1)]
           take == CHOOSE f : IsTake(f)
<1>1. l \in 0 .. 3
  BY DEF Levels
<1>2. \E f : IsTake(f)
  <2> DEFINE a == Handed(first, l)
             b == Handed(a, l - 1)
             c == Handed(b, l - 2)
             f == [k \in 0 .. l |-> IF k = l THEN first ELSE IF k = l - 1 THEN a
                                    ELSE IF k = l - 2 THEN b ELSE c]
  <2> HIDE DEF Handed, first, a, b, c
  <2>1. ASSUME NEW k \in 0 .. l
        PROVE  f[k] = IF k = l THEN first ELSE Handed(f[k + 1], k + 1)
    <3>1. CASE k = l
      BY <3>1
    <3>2. CASE k = l - 1
      <4>1. f[k] = a /\ f[k + 1] = first /\ k + 1 = l /\ k # l
        BY <1>1, <3>2
      <4> QED
        BY <4>1 DEF a
    <3>3. CASE k = l - 2
      <4>1. f[k] = b /\ f[k + 1] = a /\ k + 1 = l - 1 /\ k # l
        BY <1>1, <3>3
      <4> QED
        BY <4>1 DEF b
    <3>4. CASE k = l - 3
      <4>1. f[k] = c /\ f[k + 1] = b /\ k + 1 = l - 2 /\ k # l
        BY <1>1, <3>4
      <4> QED
        BY <4>1 DEF c
    <3> QED
      BY <1>1, <3>1, <3>2, <3>3, <3>4
  <2>2. f = [k \in 0 .. l |-> IF k = l THEN first ELSE Handed(f[k + 1], k + 1)]
    BY <2>1
  <2>3. IsTake(f)
    BY <2>2
  <2> QED
    BY <2>3
<1>3. IsTake(take)
  BY <1>2
<1>4. WriteBuffer(w, l, cells) = Taken(take[0].W, 0, take[0].Cells)
  BY DEF WriteBuffer
<1> HIDE DEF take
<1>5. take = [k \in 0 .. l |-> IF k = l THEN first ELSE Handed(take[k + 1], k + 1)]
  BY <1>3
<1> HIDE DEF first, Handed
<1>6. take[l] = first
  BY <1>1, <1>5
<1>7. ASSUME NEW k \in 1 .. l
      PROVE  take[k - 1] = Handed(take[k], k)
  <2>1. k - 1 \in 0 .. l /\ k - 1 # l /\ (k - 1) + 1 = k
    BY <1>1
  <2> QED
    BY <1>5, <2>1
<1> QED
  BY <1>4, <1>6, <1>7 DEF first, Handed, AreTaken

\* Writing keeps the chain, whatever fills up on the way.
LEMMA WriteKeeps ==
  ASSUME InputInv, NEW w, NEW S, NEW l \in Levels, Good(w, S, l), NEW cells, IsSeq(cells),
         NEW t, t = S[l] \o cells, Len(t) <= Room(l)
  PROVE  \E T : Good(WriteBuffer(w, l, cells), T, l) /\ KeptAbove(T, S, l, t)
<1>1. /\ IsWritten(w, S)
      /\ \A k \in 1 .. 3 : Linked(S, k) /\ (k <= l => Exact(S, k))
  BY DEF Good
<1>2. PICK take : AreTaken(take, w, l, cells)
  BY TakesAre
<1> DEFINE Reached(k) == \E R, T : Going(take[k].W, k, take[k].Cells, R, T, l) /\ KeptAbove(T, S, l, t)
           N == {i \in 0 .. l : Reached(l - i)}
<1>3. l \in Nat /\ l \in 0 .. 3 /\ l - 0 = l
  BY DEF Levels
<1>4. Reached(l)
  <2> DEFINE T == [S EXCEPT ![l] = t]
             s == S[l]
  <2>1. IsSeq(s) /\ Len(s) \in Nat
    BY <1>1, WrittenIs
  <2> HIDE DEF s
  <2>2. IsConcat(t, s, cells)
    BY <2>1, ConcatSeq DEF s
  <2>3. S = [k \in Levels |-> S[k]]
    BY <1>1 DEF IsWritten
  <2>4. T[l] = t /\ (\A k \in Levels \ {l} : T[k] = S[k]) /\ T = [S EXCEPT ![l] = T[l]]
    BY <2>3
  <2> HIDE DEF T
  <2>5. ASSUME NEW j \in (1 .. 3) \ {l}
        PROVE  Linked(T, j) /\ (j <= l => Exact(T, j))
    <3>1. j \in Levels /\ j - 1 \in Levels
      BY DEF Levels
    <3>2. Linked(S, j) /\ (j <= l => Exact(S, j))
      BY <1>1
    <3>3. CASE j - 1 # l
      <4>1. T[j] = S[j] /\ T[j - 1] = S[j - 1]
        BY <2>4, <3>1, <3>3
      <4> QED
        BY <3>2, <4>1 DEF Linked, Exact, HashesEnd
    <3>4. CASE j - 1 = l
      <4>1. T[j] = S[j] /\ ~(j <= l)
        BY <1>3, <2>4, <3>1, <3>4
      <4>2. IsConcat(T[j - 1], S[j - 1], cells)
        BY <2>2, <2>4, <3>4 DEF s
      <4>3. Len(S[j - 1]) \in Nat /\ Len(S[j]) \in Nat /\ Base(j - 1) \in Nat
        BY <1>1, <3>1, WrittenIs, PlacesAre
      <4>4. Linked(T, j)
        BY <3>2, <4>1, <4>2, <4>3, LinkedGrows
      <4> QED
        BY <4>1, <4>4
    <3> QED
      BY <3>3, <3>4
  <2>6. l # 0 => Linked(S, l) /\ Exact(S, l)
    BY <1>1, <1>3
  <2>7. Going(w, l, cells, S, T, l)
    BY <1>1, <2>2, <2>4, <2>5, <2>6 DEF Going, s
  <2>8. KeptAbove(T, S, l, t)
    <3>1. \A j \in Levels : j > l => j \in Levels \ {l}
      BY <1>3 DEF Levels
    <3> QED
      BY <2>4, <3>1 DEF KeptAbove
  <2>9. take[l].W = w /\ take[l].Cells = cells
    BY <1>2 DEF AreTaken
  <2> QED
    BY <2>7, <2>8, <2>9
<1>5. ASSUME NEW k \in 1 .. l, Reached(k)
      PROVE  Reached(k - 1)
  <2> DEFINE x == take[k].W
             c == take[k].Cells
             hashes == Hashes(x.Level[k].Data \o c)
  <2>1. PICK R, T : Going(x, k, c, R, T, l) /\ KeptAbove(T, S, l, t)
    BY <1>5
  <2>2. take[k - 1].W = Taken(x, k, c) /\ take[k - 1].Cells = hashes
    <3>1. take[k - 1] = [W |-> Taken(x, k, c), Cells |-> hashes]
      BY <1>2 DEF AreTaken
    <3> HIDE DEF x, c, hashes
    <3> QED
      BY <3>1
  <2> HIDE DEF x, c
  <2> DEFINE U == [T EXCEPT ![k - 1] = @ \o hashes]
  <2>3. Going(Taken(x, k, c), k - 1, hashes, T, U, l) /\ \A j \in Levels : j >= k => U[j] = T[j]
    <3> HIDE DEF U, hashes
    <3>1. IsPassedOn(x, k, c, hashes, T, U, l)
      BY <2>1, PassedOn DEF hashes, U
    <3> QED
      BY <3>1 DEF IsPassedOn
  <2> HIDE DEF U, hashes
  <2>4. KeptAbove(U, S, l, t)
    <3>1. l >= k /\ \A j \in Levels : j > l => j >= k
      BY <1>3 DEF Levels
    <3> QED
      BY <2>1, <2>3, <3>1 DEF KeptAbove
  <2> QED
    BY <2>2, <2>3, <2>4
<1>6. 0 \in N
  BY <1>3, <1>4
<1>7. ASSUME NEW i \in 0 .. (l - 1), i \in N
      PROVE  i + 1 \in N
  <2>1. l - i \in 1 .. l /\ (l - i) - 1 = l - (i + 1) /\ i + 1 \in 0 .. l
    BY <1>3
  <2>2. Reached(l - i)
    BY <1>7
  <2> HIDE DEF Reached
  <2>3. Reached((l - i) - 1)
    BY <1>5, <2>1, <2>2
  <2> QED
    BY <2>1, <2>3
<1> HIDE DEF N
<1>8. l \in N
  BY <1>3, <1>6, <1>7, UpTo
<1>9. Reached(0)
  <2>1. l - l = 0
    BY <1>3
  <2> HIDE DEF Reached
  <2> QED
    BY <1>8, <2>1 DEF N
<1>10. PICK R, T : Going(take[0].W, 0, take[0].Cells, R, T, l) /\ KeptAbove(T, S, l, t)
  BY <1>9
<1> DEFINE x == take[0].W
           c == take[0].Cells
<1>11. Going(x, 0, c, R, T, l)
  BY <1>10
<1>12. WriteBuffer(w, l, cells) = Taken(x, 0, c)
  BY <1>2 DEF AreTaken
<1> HIDE DEF x, c
<1>13. 0 \in Levels /\ IsWritten(x, R) /\ IsSeq(c) /\ IsConcat(T[0], R[0], c) /\ Len(T[0]) <= Room(0)
       /\ T = [R EXCEPT ![0] = T[0]]
       /\ \A j \in (1 .. 3) \ {0} : Linked(T, j) /\ (j <= l => Exact(T, j))
  BY <1>11 DEF Going, Levels
<1> DEFINE z == T[0]
<1>14. IsConcat(z, R[0], c) /\ Len(z) <= Room(0) /\ T = [R EXCEPT ![0] = z]
  BY <1>13
<1> HIDE DEF z
<1>15. IsWritten(Taken(x, 0, c), T)
  BY <1>13, <1>14, TakenIs
<1>16. Good(Taken(x, 0, c), T, l)
  BY <1>13, <1>15 DEF Good
<1> QED
  BY <1>10, <1>12, <1>16


\* What a level is filled up with.
Filling(n, a) == Zeros(Align(n, a) - n)

LEMMA ZerosSeq ==
  ASSUME NEW n \in Nat
  PROVE  IsSeq(Zeros(n)) /\ Len(Zeros(n)) = n
<1> DEFINE f == Zeros(n)
<1>1. f = [k \in 1 .. n |-> f[k]]
  BY DEF Zeros
<1> HIDE DEF f
<1>2. IsSeq(f) /\ Len(f) = n
  BY <1>1, TupleSeq
<1> QED
  BY <1>2 DEF f

\* The buffer of a level is filled up as the level itself is: blocks are aligned.
LEMMA FillingIs ==
  ASSUME InputInv, NEW w, NEW k \in Levels, NEW s, LevelHolds(w, k, s),
         NEW a \in Nat \ {0}, IsMultiple(Block, a)
  PROVE  /\ Zeros(Align(Len(w.Level[k].Data), a) - Len(w.Level[k].Data)) = Filling(Len(s), a)
         /\ IsSeq(Filling(Len(s), a))
         /\ IsSeq(s \o Filling(Len(s), a)) /\ Len(s \o Filling(Len(s), a)) = Align(Len(s), a)
<1> DEFINE n == Len(s)
           m == InBlocks(n)
           d == Len(w.Level[k].Data)
<1>1. IsSeq(s) /\ IsSeq(w.Level[k].Data) /\ d = n - m
  BY DEF LevelHolds
<1>2. n \in Nat /\ d \in Nat
  BY <1>1, SeqProperties
<1> HIDE DEF n, d
<1>3. m \in Nat /\ IsMultiple(m, a)
  BY <1>2, BlocksIs, InBlocksMultiple
<1> HIDE DEF m
<1>4. n = m + d
  BY <1>1, <1>2, <1>3
<1>5. Align(m + d, a) = m + Align(d, a)
  BY <1>2, <1>3, AlignSum
<1>6. Align(d, a) \in Nat /\ Align(d, a) >= d /\ Align(n, a) \in Nat /\ Align(n, a) >= n
  BY <1>2, AlignIs
<1>7. Align(d, a) - d = Align(n, a) - n /\ Align(n, a) - n \in Nat
  BY <1>2, <1>3, <1>4, <1>5, <1>6
<1> DEFINE z == Align(n, a) - n
           f == Zeros(z)
<1>8. z \in Nat /\ n + z = Align(n, a)
  BY <1>2, <1>6, <1>7
<1> HIDE DEF z
<1>9. IsSeq(f) /\ Len(f) = z
  BY <1>8, ZerosSeq
<1> HIDE DEF f
<1>10. IsConcat(s \o f, s, f)
  BY <1>1, <1>9, ConcatSeq
<1>11. IsSeq(s \o f) /\ Len(s \o f) = n + z
  BY <1>9, <1>10 DEF IsConcat, n
<1>12. Filling(Len(s), a) = f
  BY DEF Filling, f, z, n
<1> QED
  BY <1>7, <1>8, <1>9, <1>11, <1>12 DEF f, z, d, n

LEMMA AlignKeeps ==
  ASSUME InputInv, NEW w, NEW S, NEW l \in Levels, Good(w, S, l),
         NEW a \in Nat \ {0}, IsMultiple(Block, a),
         NEW t, t = S[l] \o Filling(Len(S[l]), a), Align(Len(S[l]), a) <= Room(l)
  PROVE  \E T : Good(AlignBuffer(w, l, a), T, l) /\ KeptAbove(T, S, l, t)
<1> DEFINE cells == Filling(Len(S[l]), a)
<1>1. LevelHolds(w, l, S[l])
  BY WrittenIs DEF Good
<1> DEFINE s == S[l]
<1>2. /\ Zeros(Align(Len(w.Level[l].Data), a) - Len(w.Level[l].Data)) = cells
      /\ IsSeq(cells) /\ Len(t) = Align(Len(s), a)
  <2> HIDE DEF s
  <2> QED
    BY <1>1, FillingIs DEF s
<1>3. AlignBuffer(w, l, a) = WriteBuffer(w, l, cells)
  BY <1>2 DEF AlignBuffer
<1> HIDE DEF cells
<1>4. t = S[l] \o cells /\ Len(t) <= Room(l)
  BY <1>2 DEF cells
<1> QED
  BY <1>2, <1>3, <1>4, WriteKeeps

\* A whole level still fits its region.
LEMMA RoomForBlocks ==
  ASSUME InputInv, NEW k \in Levels, NEW n \in Nat, n <= Room(k),
         NEW a \in Nat \ {0}, IsMultiple(Block, a)
  PROVE  Align(n, a) <= Room(k)
<1> DEFINE r == Room(k)
           u == Upper(k)
           m == Align(n, a)
<1>1. r \in Nat /\ u \in Nat /\ r = Align(u, Block)
  BY PlacesAre
<1> HIDE DEF r, u
<1>2. IsMultiple(r, Block)
  BY <1>1, AlignIs, Units
<1>3. IsMultiple(r, a)
  <2>1. PICK i \in Int : r = i * Block
    BY <1>2 DEF IsMultiple
  <2>2. PICK j \in Int : Block = j * a
    BY DEF IsMultiple
  <2>3. r = (i * j) * a
    BY <2>1, <2>2, Units
  <2> QED
    BY <2>3 DEF IsMultiple
<1>4. m \in Nat /\ IsMultiple(m, a) /\ m < n + a
  BY AlignIs
<1> HIDE DEF m
<1>5. m < r + a
  BY <1>1, <1>4 DEF r
<1>6. m <= r
  BY <1>1, <1>3, <1>4, <1>5, MultiplesApart
<1> QED
  BY <1>6 DEF m, r

\* Level 0 hands nothing on.
LEMMA TopWrites ==
  ASSUME NEW w, NEW cells
  PROVE  WriteBuffer(w, 0, cells) = Taken(w, 0, cells)
<1>1. 0 \in Levels
  BY DEF Levels
<1>2. PICK take : AreTaken(take, w, 0, cells)
  BY <1>1, TakesAre
<1>3. take[0].W = w /\ take[0].Cells = cells
  BY <1>2 DEF AreTaken
<1> QED
  BY <1>2, <1>3 DEF AreTaken

-----------------------------------------------------------------------------
(* The files                                                               *)

FileIn(s, i) ==
  /\ DataOffset + EndOf(i) <= Len(s)
  /\ \A k \in 1 .. files[i].Size : s[DataOffset + files[i].Offset + k] = Cell(i, k)

\* The files before n that could be read are where their entries say.
FilesIn(s, n, F) ==
  remapped \/ F = {} => \A i \in (1 .. (n - 1)) \ F : files[i].Size # 0 => FileIn(s, i)

\* How far level 3 is written when file n is next.
FilesWritten(s, n, F) ==
  /\ meta <= Len(s) /\ Len(s) <= DataOffset + EndOf(n - 1)
  /\ ~remapped /\ F = {} =>
       Align(Len(s), FileAlignment) = DataOffset + Align(EndOf(n - 1), FileAlignment)
  /\ FilesIn(s, n, F)

LEMMA DataOffsetIs ==
  ASSUME InputInv
  PROVE  /\ DataOffset \in Nat /\ meta \in Nat /\ meta <= DataOffset /\ Level3Size \in Nat
         /\ DataOffset <= Level3Size /\ Level3Size <= Room(3) /\ Room(3) \in Nat
         /\ IsMultiple(DataOffset, FileAlignment) /\ DataOffset = Align(meta, FileAlignment)
<1>1. meta \in Nat /\ Level3Size \in Nat /\ DataOffset <= Level3Size
  BY DEF InputInv
<1>2. DataOffset = Align(meta, FileAlignment)
  BY DEF DataOffset
<1>3. Align(meta, FileAlignment) \in Nat /\ meta <= Align(meta, FileAlignment)
      /\ IsMultiple(Align(meta, FileAlignment), FileAlignment)
  BY <1>1, AlignIs, Units
<1>4. 3 \in Levels /\ Upper(3) = Level3Size
  BY <1>1 DEF Upper, Base, LevelSize, Levels
<1>5. Room(3) = Align(Upper(3), Block) /\ Room(3) \in Nat
  BY <1>4, PlacesAre
<1>6. Level3Size <= Room(3)
  <2> DEFINE n == Level3Size
  <2>1. n \in Nat /\ Room(3) = Align(n, Block)
    BY <1>1, <1>4, <1>5
  <2> HIDE DEF n
  <2>2. Align(n, Block) >= n /\ Align(n, Block) \in Nat
    BY <2>1, AlignIs, Units
  <2> QED
    BY <2>1, <2>2 DEF n
<1> QED
  BY <1>1, <1>2, <1>3, <1>5, <1>6

IsFile(i) ==
  /\ files[i].Offset \in Nat /\ files[i].Size \in Nat
  /\ EndOf(i - 1) \in Nat /\ EndOf(i - 1) <= files[i].Offset
  /\ EndOf(i) = files[i].Offset + files[i].Size /\ EndOf(i) \in Nat
  /\ DataOffset + EndOf(i) <= Level3Size
  /\ ~remapped => files[i].Offset = Align(EndOf(i - 1), FileAlignment)

LEMMA FilesAre ==
  ASSUME InputInv, NEW i \in 1 .. Len(files)
  PROVE  IsFile(i)
<1>1. IsSeq(files) /\ Len(files) \in Nat /\ \A j \in 1 .. Len(files) : FileLaid(j)
  BY SeqProperties DEF InputInv, FilesLaid
<1>2. FileLaid(i)
  BY <1>1
<1>3. EndOf(i) = files[i].Offset + files[i].Size
  BY <1>1 DEF EndOf
<1>4. EndOf(i - 1) \in Nat
  <2>1. CASE i = 1
    BY <2>1 DEF EndOf
  <2>2. CASE i # 1
    <3> DEFINE j == i - 1
    <3>1. j \in 1 .. Len(files) /\ j # 0
      BY <1>1, <2>2
    <3> HIDE DEF j
    <3>2. FileLaid(j)
      BY <1>1, <3>1
    <3>3. EndOf(j) \in Nat
      BY <3>1, <3>2 DEF FileLaid, EndOf
    <3> QED
      BY <3>3 DEF j
  <2> QED
    BY <2>1, <2>2
<1>5. DataOffset + EndOf(i) <= Level3Size
  BY DEF InputInv
<1>6. /\ files[i].Offset \in Nat /\ files[i].Size \in Nat /\ EndOf(i - 1) <= files[i].Offset
      /\ ~remapped => files[i].Offset = Align(EndOf(i - 1), FileAlignment)
  BY <1>2 DEF FileLaid
<1> QED
  BY <1>3, <1>4, <1>5, <1>6 DEF IsFile

\* What is written stays when a level grows.
LEMMA FilesGrow ==
  ASSUME InputInv, NEW n \in 1 .. (Len(files) + 1), NEW F, NEW s, FilesIn(s, n, F),
         NEW G, F \subseteq G, IsSeq(s), NEW c, IsSeq(c), NEW t, IsConcat(t, s, c)
  PROVE  FilesIn(t, n, G)
<1>1. Len(s) \in Nat /\ Len(c) \in Nat
  BY SeqProperties
<1>2. Len(t) = Len(s) + Len(c) /\ \A j \in 1 .. Len(s) : t[j] = s[j]
  BY DEF IsConcat
<1> SUFFICES ASSUME remapped \/ G = {}, NEW i \in (1 .. (n - 1)) \ G, files[i].Size # 0
             PROVE  FileIn(t, i)
  BY DEF FilesIn
<1>3. FileIn(s, i)
  BY DEF FilesIn
<1>4. i \in 1 .. Len(files)
  <2>1. Len(files) \in Nat
    BY SeqProperties DEF InputInv, FilesLaid
  <2> QED
    BY <2>1
<1>5. DataOffset \in Nat
  BY DataOffsetIs
<1>6. /\ files[i].Offset \in Nat /\ files[i].Size \in Nat
      /\ EndOf(i) = files[i].Offset + files[i].Size
  BY <1>4, FilesAre DEF IsFile
<1> DEFINE d == DataOffset
           o == files[i].Offset
           z == files[i].Size
           ls == Len(s)
<1>7. d \in Nat /\ o \in Nat /\ z \in Nat /\ ls \in Nat /\ EndOf(i) = o + z
  BY <1>1, <1>5, <1>6
<1>8. d + EndOf(i) <= ls /\ \A k \in 1 .. z : s[d + o + k] = Cell(i, k)
  BY <1>3 DEF FileIn
<1>9. Len(t) = ls + Len(c) /\ \A j \in 1 .. ls : t[j] = s[j]
  BY <1>2
<1> HIDE DEF d, o, z, ls
<1>10. d + EndOf(i) <= Len(t)
  BY <1>1, <1>7, <1>8, <1>9
<1>11. ASSUME NEW k \in 1 .. z
       PROVE  t[d + o + k] = Cell(i, k)
  <2>1. d + o + k \in 1 .. ls
    BY <1>7, <1>8
  <2> QED
    BY <1>8, <1>9, <2>1
<1> QED
  BY <1>10, <1>11 DEF FileIn, d, o, z

GapFrom(w, offset) ==
  Level3Offset + DataOffset + offset - (w.Level[3].FilePos + Len(w.Level[3].Data))

BeforeFile(w, n) ==
  IF remapped THEN WriteBuffer(w, 3, Zeros(GapFrom(w, files[n].Offset)))
  ELSE AlignBuffer(w, 3, FileAlignment)

\* Level 3 was written from s to t, and not further than where file n begins.
Led(s, t, n, F) ==
  /\ \E c : IsSeq(c) /\ IsConcat(t, s, c)
  /\ IsSeq(t) /\ Len(t) \in Nat /\ Len(t) <= DataOffset + files[n].Offset
  /\ remapped \/ F = {} => Len(t) = DataOffset + files[n].Offset

LEMMA BeforeKeeps ==
  ASSUME InputInv, NEW w, NEW S, Good(w, S, 3), NEW n \in 1 .. Len(files), NEW F,
         FilesWritten(S[3], n, F)
  PROVE  \E T : Good(BeforeFile(w, n), T, 3) /\ Led(S[3], T[3], n, F)
<1> DEFINE s == S[3]
           d == DataOffset
           o == files[n].Offset
           e == EndOf(n - 1)
           ls == Len(s)
<1>1. 3 \in Levels /\ IsWritten(w, S)
  BY DEF Good, Levels
<1>2. LevelHolds(w, 3, s) /\ IsSeq(s) /\ ls \in Nat
  BY <1>1, WrittenIs
<1>3. o \in Nat /\ files[n].Size \in Nat /\ e \in Nat /\ e <= o /\ d + (o + files[n].Size) <= Level3Size
      /\ (~remapped => o = Align(e, FileAlignment))
  BY FilesAre DEF IsFile
<1>4. d \in Nat /\ Level3Size <= Room(3) /\ Level3Size \in Nat /\ Room(3) \in Nat
      /\ IsMultiple(d, FileAlignment)
  BY DataOffsetIs
<1>5. /\ ls <= d + e
      /\ ~remapped /\ F = {} => Align(ls, FileAlignment) = d + Align(e, FileAlignment)
  BY DEF FilesWritten
<1>6. d + o <= Room(3) /\ ls <= d + o
  <2> DEFINE z == files[n].Size
             v == Level3Size
             r == Room(3)
  <2>1. /\ ls \in Nat /\ o \in Nat /\ z \in Nat /\ e \in Nat /\ d \in Nat /\ v \in Nat /\ r \in Nat
        /\ e <= o /\ d + (o + z) <= v /\ v <= r /\ ls <= d + e
    BY <1>2, <1>3, <1>4, <1>5
  <2> HIDE DEF s, d, o, e, ls, z, v, r
  <2>2. d + o <= r /\ ls <= d + o
    BY <2>1
  <2> QED
    BY <2>2 DEF r
<1>7. CASE remapped
  <2> DEFINE g == GapFrom(w, o)
             cells == Zeros(g)
             t == s \o cells
  <2>1. g = (d + o) - ls
    <3> DEFINE p == w.Level[3].FilePos
               q == Len(w.Level[3].Data)
               m == InBlocks(ls)
    <3>1. p = Start(3) + m /\ q = ls - m /\ Start(3) = Level3Offset
      BY <1>2 DEF LevelHolds, Start
    <3>2. m \in Nat /\ Start(3) \in Nat
      BY <1>1, <1>2, BlocksIs, PlacesAre
    <3>3. g = Level3Offset + d + o - (p + q)
      BY DEF GapFrom
    <3> DEFINE b == Level3Offset
    <3>4. /\ b \in Nat /\ m \in Nat /\ ls \in Nat /\ d \in Nat /\ o \in Nat
          /\ g = b + d + o - (p + q) /\ p = b + m /\ q = ls - m
      BY <1>2, <1>3, <1>4, <3>1, <3>2, <3>3
    <3> HIDE DEF g, s, d, o, ls, p, q, m, b
    <3> QED
      BY <3>4
  <2> HIDE DEF g
  <2>2. g \in Nat /\ ls + g = d + o
    <3>1. d \in Nat /\ o \in Nat /\ ls \in Nat /\ ls <= d + o
      BY <1>2, <1>3, <1>4, <1>6
    <3> HIDE DEF s, d, o, ls
    <3> QED
      BY <2>1, <3>1
  <2>3. IsSeq(cells) /\ Len(cells) = g
    BY <2>2, ZerosSeq
  <2> HIDE DEF cells, s
  <2>4. IsConcat(t, s, cells)
    BY <1>2, <2>3, ConcatSeq
  <2>5. IsSeq(t) /\ Len(t) = d + o
    BY <2>2, <2>3, <2>4 DEF IsConcat
  <2> HIDE DEF t
  <2>6. t = S[3] \o cells /\ Len(t) <= Room(3)
    BY <1>6, <2>5 DEF t, s
  <2>7. PICK T : Good(WriteBuffer(w, 3, cells), T, 3) /\ KeptAbove(T, S, 3, t)
    BY <1>1, <2>3, <2>6, WriteKeeps
  <2>8. T[3] = t
    BY <2>7 DEF KeptAbove
  <2>9. BeforeFile(w, n) = WriteBuffer(w, 3, cells)
    BY <1>7 DEF BeforeFile, cells, g
  <2>10. d + o \in Nat
    <3> HIDE DEF d, o
    <3> QED
      BY <1>3, <1>4
  <2>11. Len(t) \in Nat /\ Len(t) <= d + o /\ Len(t) = d + o
    BY <2>5, <2>10
  <2>12. Led(s, t, n, F)
    BY <2>3, <2>4, <2>5, <2>11 DEF Led
  <2> QED
    BY <2>7, <2>8, <2>9, <2>12 DEF s
<1>8. CASE ~remapped
  <2> DEFINE a == FileAlignment
             c == Filling(ls, a)
             t == s \o c
             x == Align(ls, a)
  <2>1. a \in Nat \ {0} /\ IsMultiple(Block, a)
    BY Units
  <2>2. IsSeq(c) /\ IsSeq(t) /\ Len(t) = x
    <3> HIDE DEF a, s
    <3> QED
      BY <1>1, <1>2, <2>1, FillingIs
  <2>3. x \in Nat
    BY <1>2, <2>1, AlignIs
  <2>4. x <= d + o
    <3> DEFINE y == d + e
    <3>1. y \in Nat /\ ls <= y
      BY <1>3, <1>4, <1>5
    <3>2. Align(d + e, a) = d + Align(e, a)
      <4> HIDE DEF d, e
      <4> QED
        BY <1>3, <1>4, <2>1, AlignSum
    <3>3. Align(y, a) = d + o
      BY <1>3, <1>8, <3>2
    <3> HIDE DEF y, x
    <3>4. x <= Align(y, a)
      BY <1>2, <2>1, <3>1, AlignMonotone DEF x
    <3> QED
      BY <3>3, <3>4
  <2>5. x <= Room(3)
    <3> HIDE DEF x, d, o
    <3> QED
      BY <1>3, <1>4, <1>6, <2>3, <2>4
  <2>6. F = {} => x = d + o
    BY <1>3, <1>5, <1>8
  <2> HIDE DEF x
  <2>7. t = S[3] \o Filling(Len(S[3]), a) /\ Align(Len(S[3]), a) <= Room(3)
    BY <2>5 DEF x
  <2>8. IsConcat(t, s, c)
    <3> HIDE DEF c, s
    <3> QED
      BY <1>2, <2>2, ConcatSeq
  <2> HIDE DEF t, a
  <2>9. PICK T : Good(AlignBuffer(w, 3, a), T, 3) /\ KeptAbove(T, S, 3, t)
    BY <1>1, <2>1, <2>7, AlignKeeps
  <2>10. T[3] = t
    BY <2>9 DEF KeptAbove
  <2>11. BeforeFile(w, n) = AlignBuffer(w, 3, a)
    BY <1>8 DEF BeforeFile, a
  <2> HIDE DEF c, s
  <2>12. Led(s, t, n, F)
    BY <1>8, <2>2, <2>3, <2>4, <2>6, <2>8 DEF Led
  <2> QED
    BY <2>9, <2>10, <2>11, <2>12 DEF s
<1> QED
  BY <1>7, <1>8

\* A file that cannot be read leaves what was written before it.
LEMMA LostIs ==
  ASSUME InputInv, NEW s, IsSeq(s), NEW t, NEW n \in 1 .. Len(files), NEW F,
         FilesWritten(s, n, F), Led(s, t, n, F)
  PROVE  FilesWritten(t, n + 1, F \cup {n})
<1> DEFINE d == DataOffset
           o == files[n].Offset
           z == files[n].Size
<1>1. PICK c : IsSeq(c) /\ IsConcat(t, s, c)
  BY DEF Led
<1>2. Len(t) \in Nat /\ Len(t) <= d + o
  BY DEF Led
<1>3. o \in Nat /\ z \in Nat /\ EndOf(n) = o + z /\ d \in Nat /\ meta \in Nat /\ n + 1 - 1 = n
  BY FilesAre, DataOffsetIs DEF IsFile
<1>4. Len(s) \in Nat /\ Len(c) \in Nat /\ Len(t) = Len(s) + Len(c) /\ meta <= Len(s)
  BY <1>1, SeqProperties DEF IsConcat, FilesWritten
<1>5. FilesIn(t, n, F \cup {n})
  <2> DEFINE G == F \cup {n}
             m == n
  <2>1. F \subseteq G /\ m \in 1 .. (Len(files) + 1) /\ FilesIn(s, m, F)
    <3>1. Len(files) \in Nat
      BY SeqProperties DEF InputInv, FilesLaid
    <3> QED
      BY <3>1 DEF FilesWritten
  <2> HIDE DEF G, m
  <2>2. FilesIn(t, m, G)
    BY <1>1, <2>1, FilesGrow
  <2> QED
    BY <2>2 DEF G, m
<1>6. FilesIn(t, n + 1, F \cup {n})
  <2>1. \A i \in (1 .. (n + 1 - 1)) \ (F \cup {n}) : i \in (1 .. (n - 1)) \ (F \cup {n})
    OBVIOUS
  <2> QED
    BY <1>5, <2>1 DEF FilesIn
<1>7. meta <= Len(t)
  BY <1>3, <1>4
<1>8. Len(t) <= d + EndOf(n)
  <2> HIDE DEF d, o, z
  <2> QED
    BY <1>2, <1>3
<1>9. F \cup {n} # {}
  OBVIOUS
<1> QED
  BY <1>3, <1>6, <1>7, <1>8, <1>9 DEF FilesWritten

LEMMA CellsSeq ==
  ASSUME NEW i, NEW n \in Nat
  PROVE  IsSeq(Cells(i, n)) /\ Len(Cells(i, n)) = n /\ \A k \in 1 .. n : Cells(i, n)[k] = Cell(i, k)
<1> DEFINE f == Cells(i, n)
<1>1. f = [k \in 1 .. n |-> f[k]] /\ \A k \in 1 .. n : f[k] = Cell(i, k)
  BY DEF Cells
<1> HIDE DEF f
<1>2. IsSeq(f) /\ Len(f) = n
  BY <1>1, TupleSeq
<1> QED
  BY <1>1, <1>2 DEF f

\* A file that is written is where its entry says, when what was before it is led up to it.
LEMMA StoredIs ==
  ASSUME InputInv, NEW s, IsSeq(s), NEW t, NEW n \in 1 .. Len(files), NEW F,
         FilesWritten(s, n, F), Led(s, t, n, F),
         NEW u, u = t \o Cells(n, files[n].Size)
  PROVE  FilesWritten(u, n + 1, F) /\ IsSeq(u) /\ Len(u) <= Room(3)
<1> DEFINE d == DataOffset
           o == files[n].Offset
           z == files[n].Size
           a == FileAlignment
           x == Cells(n, z)
           v == Level3Size
           r == Room(3)
<1>1. PICK c : IsSeq(c) /\ IsConcat(t, s, c)
  BY DEF Led
<1>2. Len(t) \in Nat /\ Len(t) <= d + o /\ IsSeq(t) /\ (remapped \/ F = {} => Len(t) = d + o)
  BY DEF Led
<1>3. /\ o \in Nat /\ z \in Nat /\ EndOf(n) = o + z /\ EndOf(n) \in Nat /\ n + 1 - 1 = n
      /\ d + EndOf(n) <= v
  BY FilesAre DEF IsFile
<1>4. /\ d \in Nat /\ meta \in Nat /\ v \in Nat /\ r \in Nat /\ v <= r /\ IsMultiple(d, a)
      /\ a \in Nat \ {0}
  BY DataOffsetIs, Units
<1>5. Len(s) \in Nat /\ Len(c) \in Nat /\ Len(t) = Len(s) + Len(c) /\ meta <= Len(s)
  BY <1>1, SeqProperties DEF IsConcat, FilesWritten
<1>6. IsSeq(x) /\ Len(x) = z /\ \A k \in 1 .. z : x[k] = Cell(n, k)
  BY <1>3, CellsSeq
<1> HIDE DEF x
<1>7. IsConcat(u, t, x)
  <2>1. u = t \o x
    BY DEF x
  <2> QED
    BY <1>2, <1>6, <2>1, ConcatSeq
<1>8. IsSeq(u) /\ Len(u) = Len(t) + z /\ (\A k \in 1 .. Len(x) : u[Len(t) + k] = x[k])
  BY <1>6, <1>7 DEF IsConcat
<1>9. meta <= Len(u) /\ Len(u) <= d + EndOf(n) /\ (remapped \/ F = {} => Len(u) = d + EndOf(n))
  <2> HIDE DEF d, o, z
  <2>1. meta <= Len(u) /\ Len(u) <= d + (o + z)
    BY <1>2, <1>3, <1>4, <1>5, <1>8
  <2>2. ASSUME remapped \/ F = {}
        PROVE  Len(u) = d + (o + z)
    <3>1. Len(t) = d + o
      BY <1>2, <2>2
    <3> QED
      BY <1>3, <1>4, <1>8, <3>1
  <2> QED
    BY <1>3, <2>1, <2>2
<1>10. Len(u) <= r
  <2>1. Len(u) \in Nat
    BY <1>8, SeqProperties
  <2> DEFINE e == EndOf(n)
  <2>2. e \in Nat /\ Len(u) <= d + e /\ d + e <= v
    BY <1>3, <1>9
  <2> HIDE DEF d, e, v, r
  <2> QED
    BY <1>4, <2>1, <2>2
<1>11. ASSUME ~remapped, F = {}
       PROVE  Align(Len(u), a) = d + Align(EndOf(n), a)
  <2> DEFINE e == EndOf(n)
  <2>1. e \in Nat /\ Len(u) = d + e
    BY <1>3, <1>9, <1>11
  <2> HIDE DEF d, e, a
  <2>2. Align(d + e, a) = d + Align(e, a)
    BY <1>4, <2>1, AlignSum
  <2> QED
    BY <2>1, <2>2 DEF e
<1>12. FilesIn(u, n, F)
  <2>1. n \in 1 .. (Len(files) + 1) /\ FilesIn(s, n, F)
    <3>1. Len(files) \in Nat
      BY SeqProperties DEF InputInv, FilesLaid
    <3> QED
      BY <3>1 DEF FilesWritten
  <2> DEFINE m == n
  <2>2. m \in 1 .. (Len(files) + 1) /\ FilesIn(s, m, F) /\ F \subseteq F
    BY <2>1
  <2> HIDE DEF m
  <2>3. FilesIn(t, m, F)
    BY <1>1, <2>2, FilesGrow
  <2>4. FilesIn(u, m, F)
    BY <1>2, <1>6, <1>7, <2>2, <2>3, FilesGrow
  <2> QED
    BY <2>4 DEF m
<1>13. ASSUME remapped \/ F = {}
       PROVE  FileIn(u, n)
  <2>1. Len(t) = d + o /\ d + EndOf(n) <= Len(u)
    <3>1. Len(t) = d + o /\ Len(u) = d + EndOf(n)
      BY <1>2, <1>9, <1>13
    <3> DEFINE w == d + EndOf(n)
    <3>2. w \in Nat
      BY <1>3, <1>4
    <3> QED
      BY <3>1, <3>2
  <2>2. ASSUME NEW k \in 1 .. z
        PROVE  u[d + o + k] = Cell(n, k)
    BY <1>6, <1>8, <2>1
  <2> QED
    BY <2>1, <2>2 DEF FileIn
<1>14. FilesIn(u, n + 1, F)
  <2> SUFFICES ASSUME remapped \/ F = {}, NEW i \in (1 .. n) \ F, files[i].Size # 0
               PROVE  FileIn(u, i)
    BY <1>3 DEF FilesIn
  <2>1. CASE i = n
    BY <1>13, <2>1
  <2>2. CASE i # n
    <3>1. i \in (1 .. (n - 1)) \ F
      BY <2>2
    <3> QED
      BY <1>12, <3>1 DEF FilesIn
  <2> QED
    BY <2>1, <2>2
<1> QED
  BY <1>3, <1>8, <1>9, <1>10, <1>11, <1>14 DEF FilesWritten

\* A file without data that is left out.
LEMMA SkippedIs ==
  ASSUME InputInv, NEW s, IsSeq(s), NEW n \in 1 .. Len(files), NEW F,
         FilesWritten(s, n, F), remapped, files[n].Size = 0
  PROVE  FilesWritten(s, n + 1, F)
<1> DEFINE d == DataOffset
           o == files[n].Offset
           e == EndOf(n - 1)
<1>1. o \in Nat /\ EndOf(n) = o + 0 /\ e \in Nat /\ e <= o /\ d \in Nat /\ n + 1 - 1 = n
  BY FilesAre, DataOffsetIs DEF IsFile
<1>2. Len(s) \in Nat /\ meta <= Len(s) /\ Len(s) <= d + e /\ FilesIn(s, n, F)
  BY SeqProperties DEF FilesWritten
<1>3. Len(s) <= d + EndOf(n)
  <2> HIDE DEF d, o, e
  <2> QED
    BY <1>1, <1>2
<1>4. FilesIn(s, n + 1, F)
  <2> SUFFICES ASSUME NEW i \in (1 .. n) \ F, files[i].Size # 0
               PROVE  FileIn(s, i)
    BY <1>1 DEF FilesIn
  <2>1. i \in (1 .. (n - 1)) \ F
    OBVIOUS
  <2> QED
    BY <1>2, <2>1 DEF FilesIn
<1> QED
  BY <1>1, <1>2, <1>3, <1>4 DEF FilesWritten

-----------------------------------------------------------------------------
(* What the steps do                                                       *)

LEMMA LostStep ==
  ASSUME InputInv, NEW w, NEW S, Good(w, S, 3), NEW n \in 1 .. Len(files), NEW F,
         FilesWritten(S[3], n, F)
  PROVE  \E T : Good(BeforeFile(w, n), T, 3) /\ FilesWritten(T[3], n + 1, F \cup {n})
<1>1. PICK T : Good(BeforeFile(w, n), T, 3) /\ Led(S[3], T[3], n, F)
  BY BeforeKeeps
<1>2. 3 \in Levels /\ IsWritten(w, S)
  BY DEF Good, Levels
<1> DEFINE s == S[3]
           t == T[3]
<1>3. IsSeq(s)
  BY <1>2, WrittenIs
<1>4. FilesWritten(s, n, F) /\ Led(s, t, n, F)
  BY <1>1
<1> HIDE DEF s, t
<1>5. FilesWritten(t, n + 1, F \cup {n})
  BY <1>3, <1>4, LostIs
<1> QED
  BY <1>1, <1>5 DEF t

LEMMA StoredStep ==
  ASSUME InputInv, NEW w, NEW S, Good(w, S, 3), NEW n \in 1 .. Len(files), NEW F,
         FilesWritten(S[3], n, F)
  PROVE  \E T : /\ Good(WriteBuffer(BeforeFile(w, n), 3, Cells(n, files[n].Size)), T, 3)
                /\ FilesWritten(T[3], n + 1, F)
<1>1. PICK T : Good(BeforeFile(w, n), T, 3) /\ Led(S[3], T[3], n, F)
  BY BeforeKeeps
<1>2. 3 \in Levels /\ IsWritten(w, S)
  BY DEF Good, Levels
<1> DEFINE s == S[3]
           t == T[3]
           x == Cells(n, files[n].Size)
           u == t \o x
           v == BeforeFile(w, n)
<1>3. IsSeq(s)
  BY <1>2, WrittenIs
<1>4. FilesWritten(s, n, F) /\ Led(s, t, n, F)
  BY <1>1
<1> HIDE DEF s, t
<1>5. u = t \o Cells(n, files[n].Size)
  OBVIOUS
<1> HIDE DEF u
<1>6. FilesWritten(u, n + 1, F) /\ IsSeq(u) /\ Len(u) <= Room(3)
  BY <1>3, <1>4, <1>5, StoredIs
<1>7. IsSeq(x)
  BY FilesAre, CellsSeq DEF IsFile
<1> HIDE DEF x, v
<1>8. u = T[3] \o x /\ Good(v, T, 3)
  BY <1>1 DEF u, t, v
<1>9. PICK R : Good(WriteBuffer(v, 3, x), R, 3) /\ KeptAbove(R, T, 3, u)
  BY <1>2, <1>6, <1>7, <1>8, WriteKeeps
<1>10. R[3] = u
  BY <1>9 DEF KeptAbove
<1> QED
  BY <1>6, <1>9, <1>10 DEF v, x

HeaderCells == [k \in 1 .. Header |-> HeaderCell(k)]

LEMMA HeaderStep ==
  ASSUME InputInv, NEW w, NEW S, IsWritten(w, S), \A k \in Levels : S[k] = <<>>
  PROVE  \E T : /\ Good(AlignBuffer(WriteBuffer(w, 0, HeaderCells), 0, Hash), T, 3)
                /\ T[3] = <<>>
<1> DEFINE c == HeaderCells
           t == c
           T == [S EXCEPT ![0] = t]
           v == Taken(w, 0, c)
           f == Filling(Len(t), Hash)
           u == t \o f
           U == [T EXCEPT ![0] = u]
           z == Align(Header, Hash)
<1>1. 0 \in Levels /\ 3 \in Levels
  BY DEF Levels
<1>2. Header \in Nat \ {0} /\ Hash \in Nat \ {0} /\ IsMultiple(Block, Hash)
  BY Units
<1>3. IsSeq(c) /\ Len(c) = Header
  <2>1. c = [k \in 1 .. Header |-> c[k]]
    BY DEF HeaderCells
  <2> HIDE DEF c
  <2> QED
    BY <1>2, <2>1, TupleSeq
<1>4. IsConcat(t, S[0], c)
  <2>1. S[0] = <<>> /\ Len(<<>>) = 0
    BY <1>1, NoSeq
  <2> HIDE DEF c
  <2> QED
    BY <1>2, <1>3, <2>1 DEF IsConcat
<1>5. z \in Nat /\ Header <= z /\ z <= Room(0)
  <2>1. z \in Nat /\ Header <= z
    BY <1>2, AlignIs
  <2>2. LevelSize(0) \in Nat /\ Room(0) = Align(Upper(0), Block) /\ Upper(0) \in Nat /\ Room(0) \in Nat
    BY <1>1, SizesAre, PlacesAre
  <2>3. Upper(0) = z + LevelSize(0)
    BY DEF Upper, Base
  <2>4. Upper(0) <= Room(0)
    BY <2>2, AlignIs, Units
  <2> HIDE DEF z
  <2> QED
    BY <2>1, <2>2, <2>3, <2>4
<1> HIDE DEF c
<1>6. IsWritten(v, T) /\ T[0] = t /\ T = [k \in Levels |-> T[k]]
      /\ \A k \in Levels \ {0} : T[k] = <<>>
  <2>1. S = [k \in Levels |-> S[k]]
    BY DEF IsWritten
  <2>2. Len(t) <= Room(0)
    BY <1>1, <1>2, <1>3, <1>5, PlacesAre
  <2>3. IsWritten(Taken(w, 0, c), [S EXCEPT ![0] = t])
    BY <1>1, <1>3, <1>4, <2>2, TakenIs
  <2> QED
    BY <1>1, <2>1, <2>3
<1>7. WriteBuffer(w, 0, HeaderCells) = v
  BY TopWrites DEF c
<1> HIDE DEF T, v
<1>8. LevelHolds(v, 0, t)
  BY <1>1, <1>6, WrittenIs
<1> HIDE DEF t
<1>9. /\ Zeros(Align(Len(v.Level[0].Data), Hash) - Len(v.Level[0].Data)) = f
      /\ IsSeq(f) /\ IsSeq(u) /\ Len(u) = z
  <2>1. Len(t) = Header
    BY <1>3 DEF t
  <2>2. /\ Zeros(Align(Len(v.Level[0].Data), Hash) - Len(v.Level[0].Data)) = Filling(Len(t), Hash)
        /\ IsSeq(Filling(Len(t), Hash))
        /\ IsSeq(t \o Filling(Len(t), Hash)) /\ Len(t \o Filling(Len(t), Hash)) = Align(Len(t), Hash)
    BY <1>1, <1>2, <1>8, FillingIs
  <2> QED
    BY <2>1, <2>2
<1>10. AlignBuffer(v, 0, Hash) = Taken(v, 0, f)
  BY <1>9, TopWrites DEF AlignBuffer
<1>11. IsConcat(u, T[0], f)
  <2> HIDE DEF f
  <2>1. IsSeq(t)
    BY <1>3 DEF t
  <2> QED
    BY <1>6, <1>9, <2>1, ConcatSeq
<1> HIDE DEF f, u
<1>12. IsWritten(Taken(v, 0, f), U)
  BY <1>1, <1>5, <1>6, <1>9, <1>11, TakenIs
<1>13. U[0] = u /\ \A k \in Levels \ {0} : U[k] = <<>>
  BY <1>1, <1>6
<1> HIDE DEF U
<1>14. ASSUME NEW k \in 1 .. 3
       PROVE  Linked(U, k) /\ Exact(U, k)
  <2>1. k \in Levels \ {0}
    BY DEF Levels
  <2>2. Len(U[k]) = 0 /\ BlocksOf(0) = 0
    <3>1. BlocksOf(0) = 0
      <4>1. Block \in Nat \ {0}
        BY Units
      <4> QED
        BY <4>1, DivIs DEF BlocksOf
    <3> QED
      BY <1>13, <2>1, <3>1, NoSeq
  <2>3. HashesEnd(U, k) = Base(k - 1)
    <3>1. BlocksOf(Len(U[k])) * Hash = 0
      BY <1>2, <2>2
    <3>2. k - 1 \in Levels
      BY DEF Levels
    <3>3. Base(k - 1) \in Nat
      BY <3>2, PlacesAre
    <3> QED
      BY <3>1, <3>3 DEF HashesEnd
  <2>4. Len(U[k - 1]) = Base(k - 1) /\ Base(k - 1) \in Nat
    <3>1. CASE k = 1
      BY <1>5, <1>9, <1>13, <3>1 DEF Base
    <3>2. CASE k # 1
      <4>1. k - 1 \in Levels \ {0}
        BY <3>2 DEF Levels
      <4>2. U[k - 1] = <<>> /\ Base(k - 1) = 0
        BY <1>13, <4>1 DEF Base
      <4> QED
        BY <4>2, NoSeq
    <3> QED
      BY <3>1, <3>2
  <2>5. HashesEnd(U, k) <= Len(U[k - 1])
    BY <2>3, <2>4
  <2>6. 0 .. (BlocksOf(Len(U[k])) - 1) = {}
    BY <2>2
  <2> QED
    BY <2>3, <2>4, <2>5, <2>6 DEF Linked, Exact
<1>15. Good(Taken(v, 0, f), U, 3)
  BY <1>12, <1>14 DEF Good
<1>16. U[3] = <<>>
  BY <1>1, <1>13
<1> QED
  BY <1>7, <1>10, <1>15, <1>16

LEMMA MetaStep ==
  ASSUME InputInv, NEW w, NEW S, Good(w, S, 3), S[3] = <<>>
  PROVE  \E T : Good(WriteBuffer(w, 3, Cells(0, meta)), T, 3) /\ FilesWritten(T[3], 1, {})
<1> DEFINE d == DataOffset
           c == Cells(0, meta)
           t == <<>> \o c
<1>1. 3 \in Levels /\ IsWritten(w, S)
  BY DEF Good, Levels
<1>2. /\ d \in Nat /\ meta \in Nat /\ meta <= d /\ Room(3) \in Nat /\ Level3Size \in Nat
      /\ d <= Level3Size /\ Level3Size <= Room(3) /\ d = Align(meta, FileAlignment)
  BY DataOffsetIs
<1>3. IsSeq(c) /\ Len(c) = meta
  BY <1>2, CellsSeq
<1> HIDE DEF c
<1>4. IsSeq(t) /\ Len(t) = meta
  <2>1. IsConcat(t, <<>>, c) /\ Len(<<>>) = 0
    BY <1>3, NoSeq, ConcatSeq
  <2> HIDE DEF t
  <2> QED
    BY <1>2, <1>3, <2>1 DEF IsConcat
<1>5. meta <= Room(3)
  <2> DEFINE v == Level3Size
             r == Room(3)
  <2>1. v \in Nat /\ r \in Nat /\ d <= v /\ v <= r
    BY <1>2
  <2> HIDE DEF v, r, d
  <2> QED
    BY <1>2, <2>1 DEF r
<1>6. t = S[3] \o c /\ Len(t) <= Room(3)
  BY <1>4, <1>5
<1> HIDE DEF t
<1>7. PICK T : Good(WriteBuffer(w, 3, c), T, 3) /\ KeptAbove(T, S, 3, t)
  BY <1>1, <1>3, <1>6, WriteKeeps
<1>8. T[3] = t
  BY <1>7 DEF KeptAbove
<1>9. EndOf(0) = 0 /\ Align(0, FileAlignment) = 0 /\ 1 - 1 = 0
  <2> DEFINE a == FileAlignment
  <2>1. a \in Nat \ {0}
    BY Units
  <2> HIDE DEF a
  <2>2. IsMultiple(0, a)
    BY <2>1 DEF IsMultiple
  <2>3. Align(0, a) = 0
    BY <2>1, <2>2, AlignSame
  <2> QED
    BY <2>3 DEF EndOf, a
<1>10. FilesIn(t, 1, {})
  BY DEF FilesIn
<1>11. FilesWritten(t, 1, {})
  <2> HIDE DEF d
  <2>1. meta <= Len(t) /\ Len(t) <= d + 0 /\ Align(Len(t), FileAlignment) = d + 0
    BY <1>2, <1>4
  <2> QED
    BY <1>9, <1>10, <2>1 DEF FilesWritten, d
<1> QED
  BY <1>7, <1>8, <1>11 DEF c

\* All files could be read, and the size of level 3 is that of its data.
Full(F) == F = {} /\ DataFillsLevel3

IsFull(S, k, F) ==
  IsMultiple(Len(S[k]), Block) /\ (Full(F) => Len(S[k]) = Room(k))

\* The levels below n are yet to be filled up.
Aligned(w, S, n, F) ==
  /\ Good(w, S, IF n = 0 THEN 0 ELSE n - 1)
  /\ \A k \in Levels : k >= n => IsFull(S, k, F)
  /\ n # 0 /\ Full(F) => Align(Len(S[n - 1]), Block) = Room(n - 1)
  /\ FilesIn(S[3], Len(files) + 1, F)

\* Where the data of the files end.
DataEnds == {DataOffset + files[i].Offset + files[i].Size : i \in {j \in DOMAIN files : files[j].Size # 0}}

\* All data is in level 3, so it fills up to its size.
LEMMA FilesFill ==
  ASSUME InputInv, NEW s, IsSeq(s), NEW F, FilesWritten(s, Len(files) + 1, F), Full(F)
  PROVE  Align(Len(s), Block) = Room(3)
<1> DEFINE E == {meta} \cup DataEnds
           m == Max(E)
           v == Level3Size
           n == Len(files)
           ls == Len(s)
<1>1. IsSeq(files) /\ n \in Nat /\ DOMAIN files = 1 .. n
  BY SeqProperties DEF InputInv, FilesLaid
<1>2. /\ DataOffset \in Nat /\ meta \in Nat /\ meta <= DataOffset /\ v \in Nat /\ DataOffset <= v
  BY DataOffsetIs
<1>3. /\ F = {} /\ Align(m, Block) = Align(v, Block)
  BY DEF Full, DataFillsLevel3, DataEnds
<1>4. ls \in Nat /\ meta <= ls /\ ls <= DataOffset + EndOf(n) /\ FilesIn(s, n + 1, F)
  <2>1. n + 1 - 1 = n
    BY <1>1
  <2> QED
    BY <2>1, SeqProperties DEF FilesWritten
<1>5. ls <= v
  <2>1. CASE n = 0
    <3>1. EndOf(n) = 0
      BY <2>1 DEF EndOf
    <3> DEFINE d == DataOffset
    <3>2. d \in Nat /\ d <= v /\ ls <= d + 0
      BY <1>2, <1>4, <3>1
    <3> HIDE DEF d, v, ls
    <3> QED
      BY <1>2, <1>4, <3>2
  <2>2. CASE n # 0
    <3>1. n \in 1 .. Len(files)
      BY <1>1, <2>2
    <3> DEFINE x == DataOffset + EndOf(n)
               i == n
    <3>2. i \in 1 .. Len(files)
      BY <3>1
    <3> HIDE DEF i
    <3>3. IsFile(i)
      BY <3>2, FilesAre
    <3>4. EndOf(i) \in Nat /\ DataOffset + EndOf(i) <= v
      BY <3>3 DEF IsFile
    <3>5. x \in Nat /\ x <= v /\ ls <= x
      BY <1>2, <1>4, <3>4 DEF i
    <3> HIDE DEF x, v, ls
    <3> QED
      BY <1>2, <1>4, <3>5
  <2> QED
    BY <2>1, <2>2
<1>6. ASSUME NEW e \in DataEnds
      PROVE  e \in Nat /\ e <= ls
  <2>1. PICK i \in {j \in DOMAIN files : files[j].Size # 0} :
          e = DataOffset + files[i].Offset + files[i].Size
    BY DEF DataEnds
  <2>2. i \in 1 .. Len(files) /\ files[i].Size # 0 /\ n + 1 - 1 = n
    BY <1>1, <2>1
  <2>3. FileIn(s, i)
    <3>1. i \in (1 .. (n + 1 - 1)) \ F
      BY <1>3, <2>2
    <3> QED
      BY <1>3, <1>4, <2>2, <3>1 DEF FilesIn
  <2>4. files[i].Offset \in Nat /\ files[i].Size \in Nat /\ EndOf(i) = files[i].Offset + files[i].Size
    BY <2>2, FilesAre DEF IsFile
  <2>5. DataOffset + EndOf(i) <= ls
    BY <2>3 DEF FileIn
  <2> DEFINE d == DataOffset
             o == files[i].Offset
             z == files[i].Size
  <2>6. d \in Nat /\ o \in Nat /\ z \in Nat /\ e = d + o + z /\ d + (o + z) <= ls
    BY <1>2, <2>1, <2>4, <2>5
  <2> HIDE DEF d, o, z, ls
  <2> QED
    BY <1>4, <2>6
<1>7. E \subseteq Nat /\ E # {} /\ meta \in E /\ \A e \in E : e <= ls
  <2> HIDE DEF ls
  <2> QED
    BY <1>2, <1>4, <1>6
<1> HIDE DEF E, ls
<1>8. m \in E /\ \A e \in E : e <= m
  BY <1>4, <1>7, MaxProperties
<1>9. m \in Nat /\ m <= ls
  BY <1>7, <1>8
<1> HIDE DEF m, v
<1>10. Align(ls, Block) = Align(v, Block)
  BY <1>2, <1>3, <1>4, <1>5, <1>9, AlignBetween, Units
<1>11. Room(3) = Align(v, Block)
  <2>1. 3 \in Levels /\ Upper(3) = v
    BY <1>2 DEF Upper, Base, LevelSize, Levels, v
  <2> QED
    BY <2>1, PlacesAre
<1> QED
  BY <1>10, <1>11 DEF ls

LEMMA EndFilesStep ==
  ASSUME InputInv, NEW w, NEW S, Good(w, S, 3), NEW F, FilesWritten(S[3], Len(files) + 1, F)
  PROVE  Aligned(w, S, 4, F)
<1>1. 3 \in Levels /\ IsWritten(w, S)
  BY DEF Good, Levels
<1> DEFINE s == S[3]
<1>2. IsSeq(s) /\ FilesWritten(s, Len(files) + 1, F)
  BY <1>1, WrittenIs
<1> HIDE DEF s
<1>3. Full(F) => Align(Len(s), Block) = Room(3)
  BY <1>2, FilesFill
<1>4. FilesIn(s, Len(files) + 1, F)
  BY <1>2 DEF FilesWritten
<1>5. \A k \in Levels : ~(k >= 4)
  BY DEF Levels
<1> QED
  BY <1>3, <1>4, <1>5 DEF Aligned, s

LEMMA AlignStep ==
  ASSUME InputInv, NEW w, NEW S, NEW n \in 1 .. 4, NEW F, Aligned(w, S, n, F)
  PROVE  \E T : Aligned(AlignBuffer(w, n - 1, Block), T, n - 1, F)
<1> DEFINE l == n - 1
           s == S[l]
           c == Filling(Len(s), Block)
           t == s \o c
           v == AlignBuffer(w, l, Block)
           x == Align(Len(s), Block)
<1>1. l \in Levels /\ l \in 0 .. 3 /\ n = l + 1 /\ n # 0 /\ l \in Nat
  BY DEF Levels
<1>2. /\ Good(w, S, l)
      /\ \A k \in Levels : k >= n => IsFull(S, k, F)
      /\ Full(F) => x = Room(l)
      /\ FilesIn(S[3], Len(files) + 1, F)
  BY <1>1 DEF Aligned
<1> HIDE DEF l
<1>3. LevelHolds(w, l, s) /\ IsSeq(s) /\ Len(s) \in Nat /\ Len(s) <= Room(l)
  BY <1>1, <1>2, WrittenIs DEF Good
<1>4. Block \in Nat \ {0} /\ IsMultiple(Block, Block)
  BY Units
<1>5. x \in Nat /\ IsMultiple(x, Block) /\ x <= Room(l)
  <2> DEFINE m == Len(s)
  <2>1. m \in Nat /\ m <= Room(l)
    BY <1>3
  <2> HIDE DEF m
  <2>2. Align(m, Block) \in Nat /\ IsMultiple(Align(m, Block), Block)
    BY <1>4, <2>1, AlignIs
  <2>3. Align(m, Block) <= Room(l)
    BY <1>1, <1>4, <2>1, RoomForBlocks
  <2> QED
    BY <2>2, <2>3 DEF m
<1>6. IsSeq(c) /\ IsSeq(t) /\ Len(t) = x
  <2> HIDE DEF s
  <2> QED
    BY <1>1, <1>3, <1>4, FillingIs
<1>7. IsConcat(t, s, c)
  <2> HIDE DEF c, s
  <2> QED
    BY <1>3, <1>6, ConcatSeq
<1>8. t = S[l] \o Filling(Len(S[l]), Block) /\ Align(Len(S[l]), Block) <= Room(l)
  BY <1>5
<1> HIDE DEF t, x
<1>9. PICK T : Good(AlignBuffer(w, l, Block), T, l) /\ KeptAbove(T, S, l, t)
  BY <1>1, <1>2, <1>4, <1>8, AlignKeeps
<1>10. T[l] = t /\ \A k \in Levels : k > l => T[k] = S[k]
  BY <1>9 DEF KeptAbove
<1> HIDE DEF v, c, s
<1>11. Good(v, T, IF l = 0 THEN 0 ELSE l - 1)
  <2>1. CASE l = 0
    BY <1>9, <2>1 DEF v
  <2>2. CASE l # 0
    <3>1. \A k \in 1 .. 3 : k <= l - 1 => k <= l
      BY <1>1
    <3> QED
      BY <1>9, <2>2, <3>1 DEF v, Good
  <2> QED
    BY <2>1, <2>2
<1>12. ASSUME NEW k \in Levels, k >= l
       PROVE  IsFull(T, k, F)
  <2>1. CASE k = l
    BY <1>2, <1>5, <1>6, <1>10, <2>1 DEF IsFull
  <2>2. CASE k # l
    <3>1. k >= n /\ k > l
      BY <1>1, <1>12, <2>2 DEF Levels
    <3> QED
      BY <1>2, <1>10, <3>1 DEF IsFull
  <2> QED
    BY <2>1, <2>2
<1>13. ASSUME l # 0, Full(F)
       PROVE  Align(Len(T[l - 1]), Block) = Room(l - 1)
  <2> DEFINE r == Room(l)
             k == l - 1
  <2>1. l \in 1 .. 3 /\ k \in Levels
    BY <1>1, <1>13 DEF Levels
  <2>2. Exact(T, l)
    BY <1>1, <1>9, <2>1 DEF Good
  <2>3. Len(T[l]) = r /\ r \in Nat
    BY <1>1, <1>2, <1>6, <1>10, <1>13, PlacesAre
  <2> HIDE DEF r, k
  <2>4. Base(l - 1) + BlocksOf(r) * Hash = Upper(l - 1)
    <3>1. r <= Room(l) /\ r = Room(l)
      BY <2>3 DEF r
    <3> QED
      BY <2>1, <2>3, <3>1, HashesFit
  <2>5. Len(T[k]) = Upper(k)
    BY <2>2, <2>3, <2>4 DEF Exact, HashesEnd, k
  <2>6. Room(k) = Align(Upper(k), Block)
    BY <2>1, PlacesAre
  <2> QED
    BY <2>5, <2>6 DEF k
<1>14. FilesIn(T[3], Len(files) + 1, F)
  <2>1. CASE l = 3
    <3> DEFINE a == S[3]
               b == T[3]
    <3>1. a = s /\ b = t
      BY <1>10, <2>1 DEF s
    <3> HIDE DEF a, b
    <3>2. IsSeq(a) /\ IsConcat(b, a, c) /\ FilesIn(a, Len(files) + 1, F)
      BY <1>2, <1>3, <1>7, <3>1 DEF a
    <3> DEFINE m == Len(files) + 1
    <3>3. m \in 1 .. (Len(files) + 1)
      <4>1. Len(files) \in Nat
        BY SeqProperties DEF InputInv, FilesLaid
      <4> QED
        BY <4>1
    <3>4. FilesIn(a, m, F) /\ F \subseteq F
      BY <3>2
    <3> HIDE DEF m
    <3>5. FilesIn(b, m, F)
      BY <1>6, <3>2, <3>3, <3>4, FilesGrow
    <3> QED
      BY <3>5 DEF b, m
  <2>2. CASE l # 3
    <3>1. 3 \in Levels /\ 3 > l
      BY <1>1, <2>2 DEF Levels
    <3>2. T[3] = S[3]
      BY <1>10, <3>1
    <3> QED
      BY <1>2, <3>2
  <2> QED
    BY <2>1, <2>2
<1>15. Aligned(v, T, l, F)
  BY <1>11, <1>12, <1>13, <1>14 DEF Aligned
<1> QED
  BY <1>15 DEF v, l

-----------------------------------------------------------------------------
(* What is in the file in the end                                          *)

InFile(w, k, s) == \A i \in 1 .. Len(s) : w.Out[Start(k) + i - 1] = s[i]

LEMMA FileHolds ==
  ASSUME InputInv, NEW w, NEW S, NEW F, Aligned(w, S, 0, F), NEW k \in Levels
  PROVE  InFile(w, k, S[k]) /\ Len(S[k]) \in Nat
<1>1. k >= 0 /\ IsWritten(w, S)
  BY DEF Aligned, Good, Levels
<1>2. LevelHolds(w, k, S[k]) /\ Len(S[k]) \in Nat
  BY <1>1, WrittenIs
<1>3. IsMultiple(Len(S[k]), Block)
  BY <1>1 DEF Aligned, IsFull
<1> DEFINE n == Len(S[k])
<1>4. InBlocks(n) = n
  <2>1. n \in Nat /\ IsMultiple(n, Block)
    BY <1>2, <1>3
  <2> HIDE DEF n
  <2> QED
    BY <2>1, WholeBlocks
<1> QED
  BY <1>2, <1>4 DEF LevelHolds, InFile

LEMMA LevelBlocks ==
  ASSUME InputInv, NEW l \in 1 .. 3
  PROVE  (LevelSize(l) + Block - 1) \div Block = BlocksOf(Room(l)) /\ Room(l) = InBlocks(Room(l))
<1> DEFINE n == LevelSize(l)
           x == (n + Block - 1) \div Block
<1>1. l \in Levels
  BY DEF Levels
<1>2. n \in Nat /\ Block \in Nat \ {0}
  BY <1>1, SizesAre, Units
<1>3. Room(l) = Align(n, Block)
  <2>1. Upper(l) = n
    BY <1>2 DEF Upper, Base
  <2> QED
    BY <1>1, <2>1, PlacesAre
<1> HIDE DEF n
<1>4. Room(l) = x * Block /\ x \in Nat
  <2> DEFINE m == n + Block - 1
  <2>1. m \in Nat
    BY <1>2
  <2> HIDE DEF m
  <2>2. m \div Block \in Nat
    BY <1>2, <2>1
  <2>3. Room(l) = x * Block
    BY <1>3 DEF Align
  <2> QED
    BY <2>2, <2>3 DEF m
<1> HIDE DEF x
<1>5. (Block * x + 0) \div Block = x
  <2>1. 0 \in Nat /\ 0 < Block
    BY <1>2
  <2> QED
    BY <1>2, <1>4, <2>1, DivIs
<1>6. Block * x + 0 = Room(l)
  BY <1>2, <1>4
<1>7. BlocksOf(Room(l)) = x
  BY <1>5, <1>6 DEF BlocksOf
<1> QED
  BY <1>4, <1>7 DEF x, n, InBlocks

\* The chain, read from the file.
LEMMA ChainIs ==
  ASSUME InputInv, NEW w, NEW S, NEW F, Aligned(w, S, 0, F), Full(F), NEW l \in 1 .. 3,
         NEW b \in 0 .. ((LevelSize(l) + Block - 1) \div Block - 1), NEW h \in 1 .. Hash,
         NEW block, block = [k \in 1 .. Block |-> w.Out[Start(l) + b * Block + k - 1]]
  PROVE  w.Out[HashPlace(l, b) + h - 1] = HashOf(block)[h]
<1> DEFINE r == Room(l)
           q == BlocksOf(r)
           s == S[l]
           u == S[l - 1]
           i == b * Hash + h
           o == Base(l - 1)
<1>1. l \in Levels /\ l - 1 \in Levels /\ l \in Nat
  BY DEF Levels
<1>2. b \in 0 .. (q - 1) /\ r = q * Block
  BY LevelBlocks DEF InBlocks
<1>3. r \in Nat /\ Start(l) \in Nat /\ Start(l - 1) \in Nat /\ o \in Nat /\ Start(0) = 0
  BY <1>1, PlacesAre
<1>4. Block \in Nat \ {0} /\ Hash \in Nat \ {0} /\ q \in Nat
  BY <1>3, BlocksIs, Units
<1>5. Len(s) = r
  BY <1>1 DEF Aligned, IsFull, Levels
<1>6. InFile(w, l, s) /\ InFile(w, l - 1, u) /\ Len(u) \in Nat
  BY <1>1, FileHolds
<1>7. Linked(S, l)
  BY DEF Aligned, Good
<1>8. /\ o + q * Hash <= Len(u)
      /\ \A c \in 0 .. (q - 1) : \A g \in 1 .. Hash : u[o + (c * Hash + g)] = <<g, BlockAt(s, c)>>
  BY <1>5, <1>7 DEF Linked, HashesEnd
<1> HIDE DEF r, q, s, u
<1>9. block = BlockAt(s, b)
  <2> DEFINE p == b * Block
  <2>1. p \in Nat
    BY <1>2, <1>4
  <2>2. ASSUME NEW k \in 1 .. Block
        PROVE  w.Out[Start(l) + p + k - 1] = s[p + k]
    <3> DEFINE j == p + k
    <3>1. j \in 1 .. r
      BY <1>2, <1>4, PlaceIn
    <3> HIDE DEF j
    <3>2. w.Out[Start(l) + j - 1] = s[j]
      BY <1>5, <1>6, <3>1 DEF InFile
    <3> DEFINE a == Start(l)
    <3>3. a + p + k - 1 = a + (p + k) - 1
      <4>1. a \in Nat /\ p \in Nat /\ k \in Nat
        BY <1>3, <1>4, <2>1
      <4> HIDE DEF a, p
      <4> QED
        BY <4>1
    <3> QED
      BY <3>2, <3>3 DEF j
  <2> QED
    BY <2>2 DEF BlockAt
<1>10. i \in 1 .. q * Hash
  BY <1>2, <1>4, PlaceIn
<1>11. u[o + i] = <<h, block>>
  BY <1>2, <1>8, <1>9
<1>12. HashPlace(l, b) + h - 1 = Start(l - 1) + (o + i) - 1
  <2> DEFINE a == Start(l - 1)
             p == b * Hash
  <2>1. p \in Nat
    BY <1>2, <1>4
  <2>2. HashPlace(l, b) = (a + o) + p
    <3>1. CASE l = 1
      <4>1. HashPlace(l, b) = Align(Header, Hash) + p /\ o = Align(Header, Hash) /\ a = 0
        BY <1>3, <3>1 DEF HashPlace, Base
      <4> HIDE DEF a, o, p
      <4> QED
        BY <1>3, <4>1
    <3>2. CASE l # 1
      <4>1. HashPlace(l, b) = a + p /\ o = 0
        BY <3>2 DEF HashPlace, Base
      <4>2. a + 0 = a
        BY <1>3
      <4> QED
        BY <4>1, <4>2
    <3> QED
      BY <3>1, <3>2
  <2>3. h \in Nat /\ a \in Nat /\ o \in Nat
    BY <1>3, <1>4
  <2> HIDE DEF a, o, p
  <2>4. (a + o) + p + h - 1 = a + (o + (p + h)) - 1
    BY <2>1, <2>3
  <2> QED
    BY <2>2, <2>4 DEF a, o, p
<1> HIDE DEF i, o
<1> DEFINE j == o + i
<1>13. j \in 1 .. Len(u)
  <2> DEFINE y == q * Hash
             lu == Len(u)
  <2>1. y \in Nat /\ lu \in Nat /\ o + y <= lu /\ i \in 1 .. y
    BY <1>4, <1>6, <1>8, <1>10
  <2> HIDE DEF y, lu
  <2>2. o + i \in 1 .. lu
    BY <1>3, <2>1
  <2> QED
    BY <2>2 DEF lu
<1>14. w.Out[Start(l - 1) + j - 1] = u[j]
  <2> HIDE DEF j
  <2> QED
    BY <1>6, <1>13 DEF InFile
<1> QED
  BY <1>11, <1>12, <1>14 DEF HashOf

\* The data of a file, read from the file.
LEMMA FileIs ==
  ASSUME InputInv, NEW w, NEW S, NEW F, Aligned(w, S, 0, F), remapped \/ F = {},
         NEW i \in (1 .. Len(files)) \ F, NEW k \in 1 .. files[i].Size
  PROVE  w.Out[Level3Offset + DataOffset + files[i].Offset + k - 1] = Cell(i, k)
<1> DEFINE d == DataOffset
           o == files[i].Offset
           z == files[i].Size
           s == S[3]
           a == Start(3)
           j == d + o + k
<1>1. 3 \in Levels /\ a = Level3Offset
  BY DEF Levels, Start
<1>2. /\ o \in Nat /\ z \in Nat /\ EndOf(i) = o + z
  BY FilesAre DEF IsFile
<1>3. d \in Nat /\ a \in Nat
  BY <1>1, DataOffsetIs, PlacesAre
<1>4. InFile(w, 3, s) /\ Len(s) \in Nat
  BY <1>1, FileHolds
<1>5. FileIn(s, i)
  <2>1. Len(files) \in Nat
    BY SeqProperties DEF InputInv, FilesLaid
  <2>2. i \in (1 .. (Len(files) + 1 - 1)) \ F
    BY <2>1
  <2>3. files[i].Size # 0
    BY <1>2
  <2>4. FilesIn(s, Len(files) + 1, F)
    BY DEF Aligned
  <2> HIDE DEF s
  <2> QED
    BY <2>2, <2>3, <2>4 DEF FilesIn
<1>6. d + (o + z) <= Len(s) /\ s[j] = Cell(i, k)
  BY <1>2, <1>5 DEF FileIn
<1> HIDE DEF s
<1>7. j \in 1 .. Len(s)
  <2>1. k \in 1 .. z
    OBVIOUS
  <2> HIDE DEF d, o, z
  <2> QED
    BY <1>2, <1>3, <1>4, <1>6, <2>1
<1>8. w.Out[a + j - 1] = s[j]
  <2> HIDE DEF j, a
  <2> QED
    BY <1>4, <1>7 DEF InFile, a
<1>9. a + j - 1 = a + d + o + k - 1
  <2>1. k \in Nat
    BY <1>2
  <2> HIDE DEF a, d, o
  <2> QED
    BY <1>2, <1>3, <2>1
<1> QED
  BY <1>1, <1>6, <1>8, <1>9

-----------------------------------------------------------------------------
(* How the files are laid                                                  *)

AreSizes(s, n) == s = [i \in 1 .. n |-> s[i]] /\ \A i \in 1 .. n : s[i] \in Nat

\* Where the files end, up to file n.
Ends(f, n, sizes, gaps) ==
  f = [i \in 0 .. n |-> IF i = 0 THEN 0 ELSE Align(f[i - 1], FileAlignment) + gaps[i] + sizes[i]]

LEMMA EndsExist ==
  ASSUME NEW n \in Nat, NEW sizes, NEW gaps
  PROVE  \E f : Ends(f, n, sizes, gaps)
<1> DEFINE N == {m \in 0 .. n : \E f : Ends(f, m, sizes, gaps)}
           After(x, i) == Align(x, FileAlignment) + gaps[i] + sizes[i]
<1>1. 0 \in N
  <2> DEFINE f == [i \in 0 .. 0 |-> 0]
  <2>1. f = [i \in 0 .. 0 |-> IF i = 0 THEN 0 ELSE After(f[i - 1], i)]
    <3> HIDE DEF After
    <3> QED
      OBVIOUS
  <2>2. Ends(f, 0, sizes, gaps)
    BY <2>1 DEF Ends
  <2> QED
    BY <2>2
<1>2. ASSUME NEW m \in 0 .. (n - 1), m \in N
      PROVE  m + 1 \in N
  <2>1. PICK f : Ends(f, m, sizes, gaps)
    BY <1>2
  <2>2. f = [i \in 0 .. m |-> IF i = 0 THEN 0 ELSE After(f[i - 1], i)]
    BY <2>1 DEF Ends
  <2> DEFINE g == [i \in 0 .. (m + 1) |-> IF i = m + 1 THEN After(f[m], m + 1) ELSE f[i]]
  <2> HIDE DEF After
  <2>3. ASSUME NEW i \in 0 .. (m + 1)
        PROVE  g[i] = IF i = 0 THEN 0 ELSE After(g[i - 1], i)
    <3>1. CASE i = m + 1
      <4>1. i - 1 = m /\ m \in 0 .. (m + 1) /\ m # m + 1 /\ i # 0
        BY <3>1
      <4>2. g[i - 1] = f[m] /\ g[i] = After(f[m], i)
        BY <3>1, <4>1
      <4> QED
        BY <4>1, <4>2
    <3>2. CASE i # m + 1
      <4>1. i \in 0 .. m /\ (i # 0 => i - 1 \in 0 .. (m + 1) /\ i - 1 # m + 1)
        BY <3>2
      <4>2. g[i] = f[i] /\ (i # 0 => g[i - 1] = f[i - 1])
        BY <3>2, <4>1
      <4>3. f[i] = IF i = 0 THEN 0 ELSE After(f[i - 1], i)
        BY <2>2, <4>1
      <4> QED
        BY <4>2, <4>3
    <3> QED
      BY <3>1, <3>2
  <2>4. g = [i \in 0 .. (m + 1) |-> IF i = 0 THEN 0 ELSE After(g[i - 1], i)]
    BY <2>3
  <2> HIDE DEF g
  <2>5. Ends(g, m + 1, sizes, gaps)
    BY <2>4 DEF Ends, After
  <2>6. m + 1 \in 0 .. n
    OBVIOUS
  <2> QED
    BY <2>5, <2>6
<1> HIDE DEF N
<1>3. n \in N
  BY <1>1, <1>2, UpTo
<1> QED
  BY <1>3 DEF N

IsLaid(f, n, sizes, gaps) ==
  /\ Layout(sizes, gaps) = [i \in 1 .. n |-> [Offset |-> f[i] - sizes[i], Size |-> sizes[i]]]
  /\ f[0] = 0
  /\ \A i \in 1 .. n : f[i] = Align(f[i - 1], FileAlignment) + gaps[i] + sizes[i]
  /\ \A i \in 0 .. n : f[i] \in Nat /\ f[i] <= f[n]

LEMMA LayoutIs ==
  ASSUME NEW n \in Nat, NEW sizes, NEW gaps, AreSizes(sizes, n), AreSizes(gaps, n)
  PROVE  \E f : IsLaid(f, n, sizes, gaps)
<1> DEFINE f == CHOOSE e : Ends(e, n, sizes, gaps)
           N == {i \in 0 .. n : f[i] \in Nat}
           M == {i \in 0 .. n : f[n - i] <= f[n]}
<1>1. Len(sizes) = n
  BY TupleSeq DEF AreSizes
<1>2. Layout(sizes, gaps) = [i \in 1 .. n |-> [Offset |-> f[i] - sizes[i], Size |-> sizes[i]]]
  BY <1>1 DEF Layout, Ends
<1>3. Ends(f, n, sizes, gaps)
  BY EndsExist
<1> HIDE DEF f
<1>4. f[0] = 0
  BY <1>3 DEF Ends
<1>5. ASSUME NEW i \in 1 .. n
      PROVE  f[i] = Align(f[i - 1], FileAlignment) + gaps[i] + sizes[i]
  BY <1>3 DEF Ends
<1>6. ASSUME NEW i \in 1 .. n, f[i - 1] \in Nat
      PROVE  f[i] \in Nat /\ f[i - 1] <= f[i]
  <2> DEFINE x == f[i - 1]
             y == Align(x, FileAlignment)
  <2>1. x \in Nat
    BY <1>6
  <2> HIDE DEF x
  <2>2. y \in Nat /\ y >= x
    BY <2>1, AlignIs, Units
  <2>3. f[i] = y + gaps[i] + sizes[i]
    BY <1>5 DEF x
  <2>4. gaps[i] \in Nat /\ sizes[i] \in Nat
    BY DEF AreSizes
  <2> DEFINE g == gaps[i]
             z == sizes[i]
  <2>5. g \in Nat /\ z \in Nat /\ f[i] = y + g + z
    BY <2>3, <2>4
  <2> HIDE DEF y, g, z
  <2>6. f[i] \in Nat /\ x <= f[i]
    BY <2>1, <2>2, <2>5
  <2> QED
    BY <2>6 DEF x
<1>7. 0 \in N
  BY <1>4
<1>8. ASSUME NEW i \in 0 .. (n - 1), i \in N
      PROVE  i + 1 \in N
  <2> DEFINE j == i + 1
  <2>1. j \in 1 .. n /\ j - 1 = i /\ f[i] \in Nat
    BY <1>8
  <2> HIDE DEF j
  <2>2. f[j] \in Nat
    BY <1>6, <2>1
  <2> QED
    BY <2>1, <2>2 DEF j
<1> HIDE DEF N
<1>9. \A i \in 0 .. n : f[i] \in Nat
  <2>1. \A i \in 0 .. n : i \in N
    BY <1>7, <1>8, UpTo
  <2> QED
    BY <2>1 DEF N
<1>10. 0 \in M
  BY <1>9
<1>11. ASSUME NEW i \in 0 .. (n - 1), i \in M
       PROVE  i + 1 \in M
  <2> DEFINE j == n - i
             k == n - (i + 1)
  <2>1. j \in 1 .. n /\ j - 1 = k /\ k \in 0 .. n /\ j \in 0 .. n /\ n \in 0 .. n /\ i + 1 \in 0 .. n
    OBVIOUS
  <2>2. f[j] <= f[n]
    BY <1>11
  <2> HIDE DEF j, k
  <2>3. f[k] \in Nat /\ f[j] \in Nat /\ f[n] \in Nat
    BY <1>9, <2>1
  <2>4. f[k] <= f[j]
    BY <1>6, <2>1, <2>3
  <2>5. f[k] <= f[n]
    BY <2>2, <2>3, <2>4
  <2> QED
    BY <2>1, <2>5 DEF k
<1> HIDE DEF M
<1>12. ASSUME NEW i \in 0 .. n
       PROVE  f[i] <= f[n]
  <2> DEFINE j == n - i
  <2>1. j \in 0 .. n /\ n - j = i
    OBVIOUS
  <2> HIDE DEF j
  <2>2. j \in M
    BY <1>10, <1>11, <2>1, UpTo
  <2>3. f[n - j] <= f[n]
    BY <2>2 DEF M
  <2> QED
    BY <2>1, <2>3
<1> QED
  BY <1>2, <1>4, <1>5, <1>9, <1>12 DEF IsLaid

-----------------------------------------------------------------------------
(* The invariant                                                           *)

\* The levels from n on are filled up.
Left(n) == [i \in 1 .. n |-> n - i]

Holds(w, S) ==
  /\ IsWritten(w, S)
  /\ phase = "header" => next = 1 /\ failed = {} /\ \A k \in Levels : S[k] = <<>>
  /\ phase = "meta" => next = 1 /\ failed = {} /\ Good(w, S, 3) /\ S[3] = <<>>
  /\ phase = "files" => Good(w, S, 3) /\ FilesWritten(S[3], next, failed)
  /\ phase = "align" =>
       next = Len(files) + 1 /\ \E n \in 0 .. 4 : align = Left(n) /\ Aligned(w, S, n, failed)
  /\ phase = "done" => next = Len(files) + 1 /\ Aligned(w, S, 0, failed)

Phases == {"header", "meta", "files", "align", "done"}

LevelsInv ==
  /\ InputInv /\ phase \in Phases
  /\ next \in 1 .. (Len(files) + 1) /\ failed \subseteq 1 .. (next - 1)
  /\ \E w, S : w = Buffers /\ Holds(w, S)

\* What is known of the image beforehand does not change.
Same ==
  /\ meta' = meta /\ files' = files /\ remapped' = remapped
  /\ DataOffset' = DataOffset /\ Level3Size' = Level3Size /\ Level3Offset' = Level3Offset
  /\ \A k \in Levels : Start(k)' = Start(k) /\ End(k)' = End(k)
  /\ \A k \in Levels : LevelSize(k)' = LevelSize(k)

LEMMA InputsSame ==
  ASSUME UNCHANGED inputVars
  PROVE  Same
<1>1. meta' = meta /\ files' = files /\ remapped' = remapped
  BY DEF inputVars
<1>2. DataOffset' = DataOffset
  BY <1>1 DEF DataOffset
<1>3. Level3Size' = Level3Size
  BY <1>1, <1>2 DEF Level3Size
<1>4. \A k : LevelSize(k)' = LevelSize(k)
  BY <1>3 DEF LevelSize
<1>5. Level3Offset' = Level3Offset
  BY <1>4 DEF Level3Offset
<1>6. \A k : Start(k)' = Start(k)
  BY <1>4, <1>5 DEF Start
<1>7. \A k : End(k)' = End(k)
  BY <1>4, <1>5, <1>6 DEF End
<1> QED
  BY <1>1, <1>2, <1>3, <1>4, <1>5, <1>6, <1>7 DEF Same

LEMMA InputInvSame ==
  ASSUME UNCHANGED inputVars, InputInv
  PROVE  InputInv'
<1>1. Same
  BY InputsSame
<1>2. /\ meta' = meta /\ files' = files /\ remapped' = remapped
      /\ DataOffset' = DataOffset /\ Level3Size' = Level3Size
  BY <1>1 DEF Same
<1>3. \A i : EndOf(i)' = EndOf(i)
  BY <1>2 DEF EndOf
<1>4. \A i : FileLaid(i)' = FileLaid(i)
  BY <1>2, <1>3 DEF FileLaid
<1>5. FilesLaid'
  BY <1>2, <1>4 DEF FilesLaid, InputInv
<1> QED
  BY <1>2, <1>3, <1>5 DEF InputInv

LEMMA WrittenSame ==
  ASSUME UNCHANGED inputVars, NEW w, NEW S, IsWritten(w, S)
  PROVE  IsWritten(w, S)'
<1>1. Same
  BY InputsSame
<1>2. \A k \in Levels : Start(k)' = Start(k) /\ End(k)' = End(k) /\ Room(k)' = Room(k)
  BY <1>1 DEF Same, Room
<1>3. ASSUME NEW k \in Levels
      PROVE  LevelHolds(w, k, S[k])'
  <2>1. LevelHolds(w, k, S[k])
    BY DEF IsWritten
  <2> QED
    BY <1>2, <2>1 DEF LevelHolds
<1>4. End(2)' = End(2)
  BY <1>2 DEF Levels
<1> QED
  BY <1>3, <1>4 DEF IsWritten

LEMMA GoodSame ==
  ASSUME UNCHANGED inputVars, NEW w, NEW S, NEW l, Good(w, S, l)
  PROVE  Good(w, S, l)'
<1>1. IsWritten(w, S)'
  BY WrittenSame DEF Good
<1> QED
  BY <1>1 DEF Good

LEMMA FilesSame ==
  ASSUME UNCHANGED inputVars
  PROVE  /\ \A s, n, F : FilesIn(s, n, F) => FilesIn(s, n, F)'
         /\ \A s, n, F : FilesWritten(s, n, F) => FilesWritten(s, n, F)'
<1>1. Same
  BY InputsSame
<1>2. meta' = meta /\ files' = files /\ remapped' = remapped /\ DataOffset' = DataOffset
  BY <1>1 DEF Same
<1>3. \A i : EndOf(i)' = EndOf(i)
  BY <1>2 DEF EndOf
<1>4. \A s, i : FileIn(s, i) => FileIn(s, i)'
  BY <1>2, <1>3 DEF FileIn
<1>5. ASSUME NEW s, NEW n, NEW F, FilesIn(s, n, F)
      PROVE  FilesIn(s, n, F)'
  BY <1>2, <1>4, <1>5 DEF FilesIn
<1>6. ASSUME NEW s, NEW n, NEW F, FilesWritten(s, n, F)
      PROVE  FilesWritten(s, n, F)'
  BY <1>2, <1>3, <1>5, <1>6 DEF FilesWritten
<1> QED
  BY <1>5, <1>6

LEMMA AlignedSame ==
  ASSUME UNCHANGED inputVars, NEW w, NEW S, NEW n, NEW F, n \in 0 .. 4, Aligned(w, S, n, F)
  PROVE  Aligned(w, S, n, F)'
<1>1. Same
  BY InputsSame
<1>2. \A k \in Levels : Room(k)' = Room(k)
  BY <1>1 DEF Same, Room
<1>3. DataFillsLevel3' = DataFillsLevel3
  <2>1. files' = files /\ meta' = meta /\ DataOffset' = DataOffset /\ Level3Size' = Level3Size
    BY <1>1 DEF Same
  <2> QED
    BY <2>1 DEF DataFillsLevel3
<1>4. Full(F)' = Full(F)
  BY <1>3 DEF Full
<1>5. Good(w, S, IF n = 0 THEN 0 ELSE n - 1)'
  <2> DEFINE l == IF n = 0 THEN 0 ELSE n - 1
  <2>1. Good(w, S, l)
    BY DEF Aligned
  <2> HIDE DEF l
  <2>2. PICK m : m = l
    OBVIOUS
  <2>3. Good(w, S, m)
    BY <2>1, <2>2
  <2>4. Good(w, S, m)'
    BY <2>3, GoodSame
  <2> QED
    BY <2>2, <2>4 DEF l
<1>6. ASSUME NEW k \in Levels, k >= n
      PROVE  IsFull(S, k, F)'
  <2>1. IsFull(S, k, F)
    BY <1>6 DEF Aligned
  <2> QED
    BY <1>2, <1>4, <2>1 DEF IsFull
<1>7. ASSUME n # 0, Full(F)'
      PROVE  Align(Len(S[n - 1]), Block) = Room(n - 1)'
  <2>1. n - 1 \in Levels
    BY <1>7 DEF Levels
  <2>2. Align(Len(S[n - 1]), Block) = Room(n - 1)
    BY <1>4, <1>7 DEF Aligned
  <2> QED
    BY <1>2, <2>1, <2>2
<1>8. FilesIn(S[3], Len(files) + 1, F)'
  <2> DEFINE m == Len(files) + 1
  <2>1. PICK i : i = m
    OBVIOUS
  <2>2. FilesIn(S[3], i, F)
    BY <2>1 DEF Aligned
  <2>3. FilesIn(S[3], i, F)'
    BY <2>2, FilesSame
  <2>4. files' = files
    BY <1>1 DEF Same
  <2> QED
    BY <2>1, <2>3, <2>4
<1> QED
  BY <1>5, <1>6, <1>7, <1>8 DEF Aligned

LEMMA InitInputs ==
  ASSUME Init
  PROVE  InputInv
<1>1. meta \in Nat /\ remapped \in BOOLEAN
  BY RomFsLevelsAssumption DEF Init
<1>20. PICK n \in 0 .. MaxFiles :
         \E sizes \in [1 .. n -> Sizes], gaps \in [1 .. n -> IF remapped THEN Gaps ELSE {0}] :
           files = Layout(sizes, gaps)
  BY DEF Init
<1>2. PICK sizes \in [1 .. n -> Sizes], gaps \in [1 .. n -> IF remapped THEN Gaps ELSE {0}] :
        files = Layout(sizes, gaps)
  BY <1>20
<1>3. n \in Nat
  BY RomFsLevelsAssumption
<1>4. AreSizes(sizes, n)
  <2>1. Sizes \subseteq Nat
    BY RomFsLevelsAssumption
  <2> QED
    BY <2>1 DEF AreSizes
<1>5. AreSizes(gaps, n) /\ (~remapped => \A i \in 1 .. n : gaps[i] = 0)
  <2>1. Gaps \subseteq Nat
    BY RomFsLevelsAssumption
  <2>2. (IF remapped THEN Gaps ELSE {0}) \subseteq Nat
    BY <2>1
  <2>3. AreSizes(gaps, n)
    BY <2>2 DEF AreSizes
  <2>4. ASSUME ~remapped, NEW i \in 1 .. n
        PROVE  gaps[i] = 0
    BY <2>4
  <2> QED
    BY <2>3, <2>4
<1>6. PICK f : IsLaid(f, n, sizes, gaps)
  BY <1>3, <1>4, <1>5, LayoutIs
<1>7. /\ files = [i \in 1 .. n |-> [Offset |-> f[i] - sizes[i], Size |-> sizes[i]]]
      /\ f[0] = 0
      /\ \A i \in 1 .. n : f[i] = Align(f[i - 1], FileAlignment) + gaps[i] + sizes[i]
      /\ \A i \in 0 .. n : f[i] \in Nat /\ f[i] <= f[n]
  BY <1>2, <1>6 DEF IsLaid
<1>8. IsSeq(files) /\ Len(files) = n /\ DOMAIN files = 1 .. n
  <2>1. files = [i \in 1 .. n |-> files[i]]
    BY <1>7
  <2> QED
    BY <1>3, <1>7, <2>1, TupleSeq
<1>9. ASSUME NEW i \in 1 .. n
      PROVE  /\ files[i].Size = sizes[i] /\ sizes[i] \in Nat /\ f[i] \in Nat /\ f[i - 1] \in Nat
             /\ files[i].Offset = Align(f[i - 1], FileAlignment) + gaps[i]
             /\ files[i].Offset \in Nat /\ files[i].Offset + files[i].Size = f[i]
             /\ f[i - 1] <= files[i].Offset
  <2> DEFINE x == f[i - 1]
             y == Align(x, FileAlignment)
             g == gaps[i]
             z == sizes[i]
             o == files[i].Offset
  <2>1. files[i].Size = z /\ o = f[i] - z /\ f[i] = y + g + z
    BY <1>7
  <2>2. g \in Nat /\ z \in Nat
    BY <1>4, <1>5 DEF AreSizes
  <2>3. x \in Nat /\ f[i] \in Nat
    <3>1. i - 1 \in 0 .. n /\ i \in 0 .. n
      OBVIOUS
    <3> QED
      BY <1>7, <3>1
  <2> HIDE DEF x
  <2>4. y \in Nat /\ x <= y
    BY <2>3, AlignIs, Units
  <2> HIDE DEF y, g, z, o
  <2>5. o = y + g /\ o \in Nat /\ o + z = f[i] /\ x <= o
    BY <2>1, <2>2, <2>3, <2>4
  <2> QED
    BY <2>1, <2>2, <2>3, <2>5 DEF x, y, g, z, o
<1>10. ASSUME NEW i \in 0 .. n
       PROVE  EndOf(i) = f[i]
  <2>1. CASE i = 0
    BY <1>7, <2>1 DEF EndOf
  <2>2. CASE i # 0
    <3>1. i \in 1 .. n
      BY <2>2
    <3> QED
      BY <1>9, <2>2, <3>1 DEF EndOf
  <2> QED
    BY <2>1, <2>2
<1>11. FilesLaid
  <2>1. ASSUME NEW i \in 1 .. n
        PROVE  FileLaid(i)
    <3>1. i - 1 \in 0 .. n
      OBVIOUS
    <3>2. EndOf(i - 1) = f[i - 1]
      BY <1>10, <3>1
    <3>3. ~remapped => files[i].Offset = Align(f[i - 1], FileAlignment)
      <4> DEFINE x == f[i - 1]
      <4>1. x \in Nat
        BY <1>9
      <4> HIDE DEF x
      <4>2. Align(x, FileAlignment) \in Nat
        BY <4>1, AlignIs, Units
      <4>3. files[i].Offset = Align(x, FileAlignment) + gaps[i]
        BY <1>9 DEF x
      <4>4. ASSUME ~remapped
            PROVE  files[i].Offset = Align(x, FileAlignment)
        <5>1. gaps[i] = 0
          BY <1>5, <4>4
        <5> QED
          BY <4>2, <4>3, <5>1
      <4> QED
        BY <4>4 DEF x
    <3> QED
      BY <1>9, <3>2, <3>3 DEF FileLaid
  <2> QED
    BY <1>8, <2>1 DEF FilesLaid
<1> DEFINE E == {0} \cup {files[i].Offset + files[i].Size : i \in DOMAIN files}
           m == Max(E)
           d == DataOffset
<1>12. E \subseteq Nat /\ E # {} /\ 0 \in E /\ \A e \in E : e <= f[n]
  <2>1. ASSUME NEW e \in E
        PROVE  e \in Nat /\ e <= f[n]
    <3>1. CASE e = 0
      <4>1. f[n] \in Nat
        BY <1>3, <1>7
      <4> QED
        BY <3>1, <4>1
    <3>2. CASE e # 0
      <4>1. PICK i \in 1 .. n : e = files[i].Offset + files[i].Size
        BY <1>8, <3>2
      <4>2. e = f[i] /\ i \in 0 .. n
        BY <1>9, <4>1
      <4> QED
        BY <1>7, <4>2
    <3> QED
      BY <3>1, <3>2
  <2> HIDE DEF E
  <2>2. E \subseteq Nat /\ \A e \in E : e <= f[n]
    BY <2>1
  <2>3. 0 \in E
    BY DEF E
  <2> QED
    BY <2>2, <2>3
<1>13. \A i \in 1 .. n : EndOf(i) \in E /\ EndOf(i) \in Nat
  <2> SUFFICES ASSUME NEW i \in 1 .. n PROVE EndOf(i) \in E /\ EndOf(i) \in Nat
    OBVIOUS
  <2>1. EndOf(i) = files[i].Offset + files[i].Size /\ EndOf(i) \in Nat
    BY <1>9 DEF EndOf
  <2> QED
    BY <1>8, <2>1
<1>14. Level3Size = d + m
  BY DEF Level3Size
<1> HIDE DEF E
<1>15. m \in E /\ \A e \in E : e <= m
  <2>1. f[n] \in Nat
    BY <1>3, <1>7
  <2> QED
    BY <1>12, <2>1, MaxProperties
<1>16. d \in Nat
  <2>1. Align(meta, FileAlignment) \in Nat
    BY <1>1, AlignIs, Units
  <2> QED
    BY <2>1 DEF DataOffset
<1>17. m \in Nat
  BY <1>12, <1>15
<1> HIDE DEF m, d
<1>18. Level3Size \in Nat /\ d <= Level3Size
  BY <1>14, <1>16, <1>17
<1>19. ASSUME NEW i \in 1 .. n
       PROVE  d + EndOf(i) <= Level3Size
  <2> DEFINE e == EndOf(i)
  <2>1. e \in Nat /\ e <= m
    BY <1>13, <1>15
  <2> HIDE DEF e
  <2>2. d + e <= d + m
    BY <1>16, <1>17, <2>1
  <2> QED
    BY <1>14, <2>2 DEF e
<1> QED
  BY <1>1, <1>8, <1>11, <1>18, <1>19 DEF InputInv, d

LEMMA InitInv ==
  ASSUME Init
  PROVE  LevelsInv
<1>1. InputInv
  BY InitInputs
<1>2. Len(files) \in Nat
  BY <1>1, SeqProperties DEF InputInv, FilesLaid
<1>3. /\ phase = "header" /\ next = 1 /\ failed = {}
      /\ level = [l \in Levels |-> [Data |-> <<>>, FilePos |-> Start(l)]]
      /\ DOMAIN out = 0 .. (End(2) - 1)
  BY DEF Init
<1> DEFINE S == [k \in Levels |-> <<>>]
           w == Buffers
<1>4. w.Level = level /\ w.Out = out /\ w = [Level |-> w.Level, Out |-> w.Out]
  BY DEF Buffers
<1> HIDE DEF w
<1>5. ASSUME NEW k \in Levels
      PROVE  LevelHolds(w, k, <<>>)
  <2>1. w.Level[k].Data = <<>> /\ w.Level[k].FilePos = Start(k)
    BY <1>3, <1>4
  <2>2. Room(k) \in Nat /\ Start(k) \in Nat
    BY <1>1, PlacesAre
  <2>3. InBlocks(0) = 0
    <3>1. Block \in Nat \ {0}
      BY Units
    <3>2. IsMultiple(0, Block)
      BY <3>1 DEF IsMultiple
    <3> QED
      BY <3>2, WholeBlocks
  <2>4. IsSeq(<<>>) /\ Len(<<>>) = 0
    BY NoSeq
  <2> QED
    BY <2>1, <2>2, <2>3, <2>4 DEF LevelHolds
<1>6. IsWritten(w, S)
  <2>1. \A k \in Levels : LevelHolds(w, k, S[k])
    BY <1>5
  <2> HIDE DEF S
  <2>2. w.Level = [k \in Levels |-> w.Level[k]]
    BY <1>3, <1>4
  <2>3. S = [k \in Levels |-> S[k]]
    BY DEF S
  <2> QED
    BY <1>3, <1>4, <2>1, <2>2, <2>3 DEF IsWritten
<1>7. \A k \in Levels : S[k] = <<>>
  OBVIOUS
<1> HIDE DEF S
<1>8. Holds(w, S)
  BY <1>3, <1>6, <1>7 DEF Holds
<1>9. next \in 1 .. (Len(files) + 1) /\ failed \subseteq 1 .. (next - 1) /\ phase \in Phases
  BY <1>2, <1>3 DEF Phases
<1> QED
  BY <1>1, <1>8, <1>9 DEF LevelsInv, w

LEMMA BecomesIs ==
  ASSUME NEW v, NEW S, IsWritten(v, S), Become(v)
  PROVE  v = Buffers'
<1>1. v = [Level |-> v.Level, Out |-> v.Out]
  BY DEF IsWritten
<1>2. Buffers' = [Level |-> v.Level, Out |-> v.Out]
  BY DEF Become, Buffers
<1> QED
  BY <1>1, <1>2

LEMMA HeaderInv ==
  ASSUME LevelsInv, WriteHeader
  PROVE  LevelsInv'
<1>1. /\ InputInv /\ next \in 1 .. (Len(files) + 1) /\ failed \subseteq 1 .. (next - 1)
  BY DEF LevelsInv
<1>2. PICK w, S : w = Buffers /\ Holds(w, S)
  BY DEF LevelsInv
<1>3. /\ phase = "header" /\ phase' = "meta" /\ UNCHANGED inputVars /\ next' = next /\ failed' = failed
      /\ Become(AlignBuffer(WriteBuffer(w, 0, HeaderCells), 0, Hash))
  BY <1>2 DEF WriteHeader, HeaderCells
<1>4. IsWritten(w, S) /\ next = 1 /\ failed = {} /\ \A k \in Levels : S[k] = <<>>
  BY <1>2, <1>3 DEF Holds
<1>5. PICK T : Good(AlignBuffer(WriteBuffer(w, 0, HeaderCells), 0, Hash), T, 3) /\ T[3] = <<>>
  BY <1>1, <1>4, HeaderStep
<1>6. PICK v : v = AlignBuffer(WriteBuffer(w, 0, HeaderCells), 0, Hash)
  OBVIOUS
<1>7. Good(v, T, 3) /\ Become(v)
  BY <1>3, <1>5, <1>6
<1>8. v = Buffers'
  BY <1>7, BecomesIs DEF Good
<1>9. Good(v, T, 3)'
  BY <1>3, <1>7, GoodSame
<1>10. InputInv'
  BY <1>1, <1>3, InputInvSame
<1>11. Holds(v, T)'
  BY <1>3, <1>4, <1>5, <1>9 DEF Holds, Good
<1>12. files' = files
  BY <1>3 DEF inputVars
<1> QED
  BY <1>1, <1>3, <1>8, <1>10, <1>11, <1>12 DEF LevelsInv, Phases

LEMMA MetaInv ==
  ASSUME LevelsInv, WriteMeta
  PROVE  LevelsInv'
<1>1. /\ InputInv /\ next \in 1 .. (Len(files) + 1) /\ failed \subseteq 1 .. (next - 1)
  BY DEF LevelsInv
<1>2. PICK w, S : w = Buffers /\ Holds(w, S)
  BY DEF LevelsInv
<1>3. /\ phase = "meta" /\ phase' = "files" /\ UNCHANGED inputVars /\ next' = next /\ failed' = failed
      /\ Become(WriteBuffer(w, 3, Cells(0, meta)))
  BY <1>2 DEF WriteMeta
<1>4. Good(w, S, 3) /\ S[3] = <<>> /\ next = 1 /\ failed = {}
  BY <1>2, <1>3 DEF Holds
<1>5. PICK T : Good(WriteBuffer(w, 3, Cells(0, meta)), T, 3) /\ FilesWritten(T[3], 1, {})
  BY <1>1, <1>4, MetaStep
<1>6. PICK v : v = WriteBuffer(w, 3, Cells(0, meta))
  OBVIOUS
<1>7. Good(v, T, 3) /\ Become(v)
  BY <1>3, <1>5, <1>6
<1>8. v = Buffers'
  BY <1>7, BecomesIs DEF Good
<1>9. Good(v, T, 3)' /\ FilesWritten(T[3], 1, {})'
  BY <1>3, <1>5, <1>7, GoodSame, FilesSame
<1>10. InputInv'
  BY <1>1, <1>3, InputInvSame
<1>11. next' = 1 /\ failed' = {}
  BY <1>3, <1>4
<1>12. FilesWritten(T[3], next, failed)'
  <2>1. PICK n, F : n = next' /\ F = failed'
    OBVIOUS
  <2>2. FilesWritten(T[3], n, F)'
    BY <1>9, <1>11, <2>1
  <2> QED
    BY <2>1, <2>2
<1>13. Holds(v, T)'
  BY <1>3, <1>9, <1>12 DEF Holds, Good
<1>14. files' = files
  BY <1>3 DEF inputVars
<1> QED
  BY <1>1, <1>3, <1>8, <1>10, <1>13, <1>14 DEF LevelsInv, Phases

LEMMA FileInv ==
  ASSUME LevelsInv, WriteFile
  PROVE  LevelsInv'
<1>1. /\ InputInv /\ next \in 1 .. (Len(files) + 1) /\ failed \subseteq 1 .. (next - 1)
  BY DEF LevelsInv
<1>2. PICK w, S : w = Buffers /\ Holds(w, S)
  BY DEF LevelsInv
<1>3. PICK n, F : n = next /\ F = failed
  OBVIOUS
<1>4. /\ phase = "files" /\ phase' = "files" /\ UNCHANGED inputVars /\ next' = n + 1
      /\ n \in DOMAIN files
      /\ \/ remapped /\ files[n].Size = 0 /\ UNCHANGED <<level, out, failed>>
         \/ /\ Become(WriteBuffer(BeforeFile(w, n), 3, Cells(n, files[n].Size)))
            /\ failed' = F
         \/ /\ Become(BeforeFile(w, n))
            /\ failed' = F \cup {n}
  BY <1>2, <1>3 DEF WriteFile, BeforeFile, Gap, GapFrom, Buffers
<1>5. n \in 1 .. Len(files) /\ Len(files) \in Nat
  BY <1>1, <1>4, SeqProperties DEF InputInv, FilesLaid
<1>6. Good(w, S, 3) /\ FilesWritten(S[3], n, F)
  BY <1>2, <1>3, <1>4 DEF Holds
<1>7. \E v, T, G : /\ Good(v, T, 3) /\ FilesWritten(T[3], n + 1, G) /\ v = Buffers'
                   /\ G = failed' /\ G \subseteq F \cup {n}
  <2>1. CASE remapped /\ files[n].Size = 0 /\ UNCHANGED <<level, out, failed>>
    <3> DEFINE s == S[3]
    <3>1. IsSeq(s) /\ FilesWritten(s, n, F)
      <4>1. 3 \in Levels /\ IsWritten(w, S)
        BY <1>6 DEF Good, Levels
      <4> QED
        BY <1>6, <4>1, WrittenIs
    <3> HIDE DEF s
    <3>2. FilesWritten(s, n + 1, F)
      BY <1>1, <1>5, <2>1, <3>1, SkippedIs
    <3>3. w = Buffers' /\ F = failed'
      BY <1>2, <1>3, <2>1 DEF Buffers
    <3> QED
      BY <1>6, <3>2, <3>3 DEF s
  <2>2. CASE /\ Become(WriteBuffer(BeforeFile(w, n), 3, Cells(n, files[n].Size)))
             /\ failed' = F
    <3>1. PICK T : /\ Good(WriteBuffer(BeforeFile(w, n), 3, Cells(n, files[n].Size)), T, 3)
                   /\ FilesWritten(T[3], n + 1, F)
      BY <1>1, <1>5, <1>6, StoredStep
    <3>2. PICK v : v = WriteBuffer(BeforeFile(w, n), 3, Cells(n, files[n].Size))
      OBVIOUS
    <3>3. Good(v, T, 3) /\ Become(v)
      BY <2>2, <3>1, <3>2
    <3>4. v = Buffers'
      BY <3>3, BecomesIs DEF Good
    <3> QED
      BY <2>2, <3>1, <3>3, <3>4
  <2>3. CASE Become(BeforeFile(w, n)) /\ failed' = F \cup {n}
    <3>1. PICK T : Good(BeforeFile(w, n), T, 3) /\ FilesWritten(T[3], n + 1, F \cup {n})
      BY <1>1, <1>5, <1>6, LostStep
    <3>2. PICK v : v = BeforeFile(w, n)
      OBVIOUS
    <3>3. Good(v, T, 3) /\ Become(v)
      BY <2>3, <3>1, <3>2
    <3>4. v = Buffers'
      BY <3>3, BecomesIs DEF Good
    <3> QED
      BY <2>3, <3>1, <3>3, <3>4
  <2> QED
    BY <1>4, <2>1, <2>2, <2>3
<1>8. PICK v, T, G : /\ Good(v, T, 3) /\ FilesWritten(T[3], n + 1, G) /\ v = Buffers'
                     /\ G = failed' /\ G \subseteq F \cup {n}
  BY <1>7
<1>9. Good(v, T, 3)' /\ FilesWritten(T[3], n + 1, G)'
  BY <1>4, <1>8, GoodSame, FilesSame
<1>10. FilesWritten(T[3], next, failed)'
  <2>1. n + 1 = next' /\ G = failed'
    BY <1>4, <1>8
  <2> QED
    BY <1>9, <2>1
<1>11. InputInv'
  BY <1>1, <1>4, InputInvSame
<1>12. Holds(v, T)'
  BY <1>4, <1>9, <1>10 DEF Holds, Good
<1>13. files' = files
  BY <1>4 DEF inputVars
<1>14. n + 1 \in 1 .. (Len(files) + 1) /\ G \subseteq 1 .. n /\ n + 1 - 1 = n
  BY <1>1, <1>3, <1>5, <1>8
<1>15. next' \in 1 .. (Len(files') + 1) /\ failed' \subseteq 1 .. (next' - 1)
  <2>1. next' = n + 1 /\ failed' = G /\ files' = files
    BY <1>4, <1>8, <1>13
  <2>2. next' \in 1 .. (Len(files') + 1)
    BY <1>14, <2>1
  <2>3. next' - 1 = n
    BY <1>5, <2>1
  <2> QED
    BY <1>14, <2>1, <2>2, <2>3
<1> QED
  BY <1>4, <1>8, <1>11, <1>12, <1>15 DEF LevelsInv, Phases

LEMMA LeftIs ==
  /\ AlignOrder = Left(4)
  /\ \A n \in 1 .. 4 : Left(n) # <<>> /\ Head(Left(n)) = n - 1 /\ Tail(Left(n)) = Left(n - 1)
  /\ Left(0) = <<>>
<1>1. AlignOrder = Left(4)
  BY DEF AlignOrder, Left
<1>2. ASSUME NEW n \in 1 .. 4
      PROVE  Left(n) # <<>> /\ Head(Left(n)) = n - 1 /\ Tail(Left(n)) = Left(n - 1)
  <2>1. Left(n) \in Seq(Int) /\ Len(Left(n)) = n /\ \A i \in 1 .. n : Left(n)[i] = n - i
    BY DEF Left
  <2>2. Left(n - 1) \in Seq(Int) /\ Len(Left(n - 1)) = n - 1
        /\ \A i \in 1 .. (n - 1) : Left(n - 1)[i] = n - 1 - i
    BY DEF Left
  <2>3. Left(n) # <<>> /\ Head(Left(n)) = n - 1
    BY <2>1
  <2>4. Tail(Left(n)) \in Seq(Int) /\ Len(Tail(Left(n))) = n - 1
        /\ \A i \in 1 .. (n - 1) : Tail(Left(n))[i] = Left(n)[i + 1]
    BY <2>1, <2>3
  <2>5. \A i \in 1 .. (n - 1) : Tail(Left(n))[i] = Left(n - 1)[i]
    BY <2>1, <2>2, <2>4
  <2> QED
    BY <2>2, <2>3, <2>4, <2>5, SeqEqual
<1>3. Left(0) = <<>>
  BY DEF Left
<1> QED
  BY <1>1, <1>2, <1>3

LEMMA EndFilesInv ==
  ASSUME LevelsInv, EndFiles
  PROVE  LevelsInv'
<1>1. /\ InputInv /\ next \in 1 .. (Len(files) + 1) /\ failed \subseteq 1 .. (next - 1)
  BY DEF LevelsInv
<1>2. PICK w, S : w = Buffers /\ Holds(w, S)
  BY DEF LevelsInv
<1>3. /\ phase = "files" /\ phase' = "align" /\ UNCHANGED inputVars /\ next' = next /\ failed' = failed
      /\ next \notin DOMAIN files /\ align' = AlignOrder /\ w = Buffers'
  BY <1>2 DEF EndFiles, Buffers
<1>4. Good(w, S, 3) /\ FilesWritten(S[3], next, failed)
  BY <1>2, <1>3 DEF Holds
<1>5. next = Len(files) + 1
  <2>1. DOMAIN files = 1 .. Len(files) /\ Len(files) \in Nat
    BY <1>1, SeqProperties DEF InputInv, FilesLaid
  <2> QED
    BY <1>1, <1>3, <2>1
<1>6. PICK F : F = failed
  OBVIOUS
<1>7. Aligned(w, S, 4, F)
  BY <1>1, <1>4, <1>5, <1>6, EndFilesStep
<1>8. Aligned(w, S, 4, F)'
  <2>1. 4 \in 0 .. 4
    OBVIOUS
  <2> QED
    BY <1>3, <1>7, <2>1, AlignedSame
<1>9. Aligned(w, S, 4, failed)' /\ IsWritten(w, S)'
  <2>1. F = failed'
    BY <1>3, <1>6
  <2> QED
    BY <1>8, <2>1 DEF Aligned, Good
<1>10. InputInv'
  BY <1>1, <1>3, InputInvSame
<1>11. files' = files
  BY <1>3 DEF inputVars
<1>12. Holds(w, S)'
  <2>1. align' = Left(4) /\ 4 \in 0 .. 4
    BY <1>3, LeftIs
  <2>2. next' = Len(files') + 1
    BY <1>3, <1>5, <1>11
  <2> QED
    BY <1>3, <1>9, <2>1, <2>2 DEF Holds
<1> QED
  BY <1>1, <1>3, <1>10, <1>11, <1>12 DEF LevelsInv, Phases

LEMMA AlignInv ==
  ASSUME LevelsInv, AlignLevel
  PROVE  LevelsInv'
<1>1. /\ InputInv /\ next \in 1 .. (Len(files) + 1) /\ failed \subseteq 1 .. (next - 1)
  BY DEF LevelsInv
<1>2. PICK w, S : w = Buffers /\ Holds(w, S)
  BY DEF LevelsInv
<1>3. /\ phase = "align" /\ phase' = "align" /\ UNCHANGED inputVars /\ next' = next /\ failed' = failed
      /\ align # <<>> /\ Become(AlignBuffer(w, Head(align), Block)) /\ align' = Tail(align)
  BY <1>2 DEF AlignLevel
<1>4. next = Len(files) + 1
  BY <1>2, <1>3 DEF Holds
<1>5. PICK n \in 0 .. 4 : align = Left(n) /\ Aligned(w, S, n, failed)
  BY <1>2, <1>3 DEF Holds
<1>6. n \in 1 .. 4
  BY <1>3, <1>5, LeftIs
<1>7. Head(align) = n - 1 /\ Tail(align) = Left(n - 1)
  BY <1>5, <1>6, LeftIs
<1>8. PICK F : F = failed
  OBVIOUS
<1>9. PICK T : Aligned(AlignBuffer(w, n - 1, Block), T, n - 1, F)
  BY <1>1, <1>5, <1>6, <1>8, AlignStep
<1>10. PICK v, m : v = AlignBuffer(w, n - 1, Block) /\ m = n - 1
  OBVIOUS
<1>11. Aligned(v, T, m, F) /\ Become(v) /\ m \in 0 .. 4 /\ align' = Left(m)
  BY <1>3, <1>6, <1>7, <1>9, <1>10
<1>12. v = Buffers'
  BY <1>11, BecomesIs DEF Aligned, Good
<1>13. Aligned(v, T, m, F)'
  BY <1>3, <1>11, AlignedSame
<1>14. Aligned(v, T, m, failed)' /\ IsWritten(v, T)'
  <2>1. F = failed'
    BY <1>3, <1>8
  <2> QED
    BY <1>13, <2>1 DEF Aligned, Good
<1>15. InputInv'
  BY <1>1, <1>3, InputInvSame
<1>16. files' = files
  BY <1>3 DEF inputVars
<1>17. Holds(v, T)'
  <2>1. next' = Len(files') + 1
    BY <1>3, <1>4, <1>16
  <2> QED
    BY <1>3, <1>11, <1>14, <2>1 DEF Holds
<1> QED
  BY <1>1, <1>3, <1>12, <1>15, <1>16, <1>17 DEF LevelsInv, Phases

LEMMA CloseInv ==
  ASSUME LevelsInv, Close
  PROVE  LevelsInv'
<1>1. /\ InputInv /\ next \in 1 .. (Len(files) + 1) /\ failed \subseteq 1 .. (next - 1)
  BY DEF LevelsInv
<1>2. PICK w, S : w = Buffers /\ Holds(w, S)
  BY DEF LevelsInv
<1>3. /\ phase = "align" /\ phase' = "done" /\ UNCHANGED inputVars /\ next' = next /\ failed' = failed
      /\ align = <<>> /\ w = Buffers'
  BY <1>2 DEF Close, Buffers
<1>4. next = Len(files) + 1
  BY <1>2, <1>3 DEF Holds
<1>5. PICK n \in 0 .. 4 : align = Left(n) /\ Aligned(w, S, n, failed)
  BY <1>2, <1>3 DEF Holds
<1>6. n = 0
  BY <1>3, <1>5, LeftIs
<1>7. PICK F : F = failed
  OBVIOUS
<1>8. Aligned(w, S, 0, F)'
  <2>1. 0 \in 0 .. 4 /\ Aligned(w, S, 0, F)
    BY <1>5, <1>6, <1>7
  <2> QED
    BY <1>3, <2>1, AlignedSame
<1>9. Aligned(w, S, 0, failed)' /\ IsWritten(w, S)'
  <2>1. F = failed'
    BY <1>3, <1>7
  <2> QED
    BY <1>8, <2>1 DEF Aligned, Good
<1>10. InputInv'
  BY <1>1, <1>3, InputInvSame
<1>11. files' = files
  BY <1>3 DEF inputVars
<1>12. Holds(w, S)'
  <2>1. next' = Len(files') + 1
    BY <1>3, <1>4, <1>11
  <2> QED
    BY <1>3, <1>9, <2>1 DEF Holds
<1> QED
  BY <1>1, <1>3, <1>10, <1>11, <1>12 DEF LevelsInv, Phases

LEMMA StutterInv ==
  ASSUME LevelsInv, UNCHANGED vars
  PROVE  LevelsInv'
<1>1. /\ InputInv /\ next \in 1 .. (Len(files) + 1) /\ failed \subseteq 1 .. (next - 1)
      /\ phase \in Phases
  BY DEF LevelsInv
<1>2. PICK w, S : w = Buffers /\ Holds(w, S)
  BY DEF LevelsInv
<1>3. /\ phase' = phase /\ UNCHANGED inputVars /\ next' = next /\ failed' = failed
      /\ align' = align /\ w = Buffers' /\ files' = files
  BY <1>2 DEF vars, inputVars, Buffers
<1>4. PICK F, n, r : F = failed /\ n = next /\ r = Len(files) + 1
  OBVIOUS
<1>5. F = failed' /\ n = next' /\ r = Len(files') + 1
  BY <1>3, <1>4
<1>6. IsWritten(w, S)'
  BY <1>2, <1>3, WrittenSame DEF Holds
<1>7. ASSUME Good(w, S, 3)
      PROVE  Good(w, S, 3)'
  BY <1>3, <1>7, GoodSame
<1>8. ASSUME FilesWritten(S[3], next, failed)
      PROVE  FilesWritten(S[3], next, failed)'
  <2>1. FilesWritten(S[3], n, F)
    BY <1>4, <1>8
  <2>2. FilesWritten(S[3], n, F)'
    BY <1>3, <2>1, FilesSame
  <2> QED
    BY <1>5, <2>2
<1>9. ASSUME NEW k \in 0 .. 4, Aligned(w, S, k, failed)
      PROVE  Aligned(w, S, k, failed)'
  <2>1. Aligned(w, S, k, F)
    BY <1>4, <1>9
  <2>2. Aligned(w, S, k, F)'
    BY <1>3, <2>1, AlignedSame
  <2> QED
    BY <1>5, <2>2
<1>10. Holds(w, S)'
  <2>1. Holds(w, S)
    BY <1>2
  <2>2. 0 \in 0 .. 4
    OBVIOUS
  <2> QED
    BY <1>3, <1>6, <1>7, <1>8, <1>9, <2>1, <2>2 DEF Holds
<1>11. InputInv'
  BY <1>1, <1>3, InputInvSame
<1> QED
  BY <1>1, <1>3, <1>10, <1>11 DEF LevelsInv

LEMMA InvHolds == Spec => []LevelsInv
<1>1. Init => LevelsInv
  BY InitInv
<1>2. LevelsInv /\ [Next]_vars => LevelsInv'
  BY HeaderInv, MetaInv, FileInv, EndFilesInv, AlignInv, CloseInv, StutterInv DEF Next
<1> QED
  BY <1>1, <1>2, PTL DEF Spec

-----------------------------------------------------------------------------
(* The theorems                                                            *)

LEMMA InvType ==
  ASSUME LevelsInv
  PROVE  TypeOK
<1>1. /\ InputInv /\ next \in 1 .. (Len(files) + 1) /\ failed \subseteq 1 .. (next - 1)
      /\ phase \in Phases
  BY DEF LevelsInv
<1>2. PICK w, S : w = Buffers /\ Holds(w, S)
  BY DEF LevelsInv
<1>3. w.Level = level /\ IsWritten(w, S)
  BY <1>2 DEF Buffers, Holds
<1>4. ASSUME NEW l \in Levels
      PROVE  level[l].FilePos \in Nat /\ Len(level[l].Data) \in 0 .. (Block - 1)
  <2> DEFINE n == Len(S[l])
             m == InBlocks(n)
             d == Len(level[l].Data)
  <2>1. LevelHolds(w, l, S[l]) /\ n \in Nat
    BY <1>3, WrittenIs
  <2>2. level[l].FilePos = Start(l) + m /\ d = n - m
    BY <1>3, <2>1 DEF LevelHolds
  <2> HIDE DEF n
  <2>3. m \in Nat /\ m <= n /\ n < m + Block /\ Block \in Nat
    BY <2>1, BlocksIs, Units
  <2>4. Start(l) \in Nat
    BY <1>1, PlacesAre
  <2> HIDE DEF m, d
  <2>5. Start(l) + m \in Nat /\ d \in 0 .. (Block - 1)
    BY <2>1, <2>2, <2>3, <2>4
  <2> QED
    BY <2>2, <2>5 DEF d
<1>5. failed \subseteq DOMAIN files
  <2>1. DOMAIN files = 1 .. Len(files) /\ Len(files) \in Nat
    BY <1>1, SeqProperties DEF InputInv, FilesLaid
  <2>2. 1 .. (next - 1) \subseteq 1 .. Len(files)
    BY <1>1, <2>1
  <2> QED
    BY <1>1, <2>1, <2>2
<1> QED
  BY <1>1, <1>4, <1>5 DEF TypeOK, Phases

LEMMA InvRegions ==
  ASSUME LevelsInv
  PROVE  RegionsKept
<1>1. InputInv
  BY DEF LevelsInv
<1>2. PICK w, S : w = Buffers /\ Holds(w, S)
  BY DEF LevelsInv
<1>3. w.Level = level /\ w.Out = out /\ IsWritten(w, S)
  BY <1>2 DEF Buffers, Holds
<1>4. ASSUME NEW l \in Levels
      PROVE  Start(l) <= level[l].FilePos /\ level[l].FilePos <= End(l)
  <2> DEFINE n == Len(S[l])
             m == InBlocks(n)
             a == Start(l)
             r == Room(l)
             e == End(l)
  <2>1. LevelHolds(w, l, S[l]) /\ n \in Nat /\ n <= r
    BY <1>3, WrittenIs
  <2>2. level[l].FilePos = a + m
    BY <1>3, <2>1 DEF LevelHolds
  <2> HIDE DEF n
  <2>3. m \in Nat /\ m <= n
    BY <2>1, BlocksIs
  <2>4. a \in Nat /\ r \in Nat /\ e = a + r
    BY <1>1, PlacesAre
  <2> HIDE DEF m, a, r, e
  <2>5. a <= a + m /\ a + m <= e
    BY <2>1, <2>3, <2>4
  <2> QED
    BY <2>2, <2>5 DEF a, e
<1>5. DOMAIN out = 0 .. (End(2) - 1)
  BY <1>3 DEF IsWritten
<1> QED
  BY <1>4, <1>5 DEF RegionsKept

LEMMA InvChain ==
  ASSUME LevelsInv
  PROVE  ChainVerifies
<1>1. InputInv
  BY DEF LevelsInv
<1>2. PICK w, S : w = Buffers /\ Holds(w, S)
  BY DEF LevelsInv
<1>3. w.Out = out
  BY <1>2 DEF Buffers
<1> SUFFICES ASSUME phase = "done", failed = {}, DataFillsLevel3,
                    NEW l \in 1 .. 3, NEW b \in 0 .. ((LevelSize(l) + Block - 1) \div Block - 1),
                    NEW h \in 1 .. Hash
             PROVE  out[HashPlace(l, b) + h - 1] =
                      HashOf([k \in 1 .. Block |-> out[Start(l) + b * Block + k - 1]])[h]
  BY DEF ChainVerifies
<1>4. Aligned(w, S, 0, failed) /\ Full(failed)
  BY <1>2 DEF Holds, Full
<1> DEFINE block == [k \in 1 .. Block |-> w.Out[Start(l) + b * Block + k - 1]]
<1>5. block = [k \in 1 .. Block |-> w.Out[Start(l) + b * Block + k - 1]]
  OBVIOUS
<1> HIDE DEF block
<1>6. w.Out[HashPlace(l, b) + h - 1] = HashOf(block)[h]
  BY <1>1, <1>4, <1>5, ChainIs
<1> QED
  BY <1>3, <1>5, <1>6

LEMMA InvData ==
  ASSUME LevelsInv
  PROVE  DataInPlace
<1>1. InputInv
  BY DEF LevelsInv
<1>2. PICK w, S : w = Buffers /\ Holds(w, S)
  BY DEF LevelsInv
<1>3. w.Out = out
  BY <1>2 DEF Buffers
<1> SUFFICES ASSUME phase = "done", remapped \/ failed = {},
                    NEW i \in DOMAIN files \ failed, NEW k \in 1 .. files[i].Size
             PROVE  out[Level3Offset + DataOffset + files[i].Offset + k - 1] = Cell(i, k)
  BY DEF DataInPlace
<1>4. Aligned(w, S, 0, failed)
  BY <1>2 DEF Holds
<1>5. i \in (1 .. Len(files)) \ failed
  BY <1>1, SeqProperties DEF InputInv, FilesLaid
<1>6. w.Out[Level3Offset + DataOffset + files[i].Offset + k - 1] = Cell(i, k)
  BY <1>1, <1>4, <1>5, FileIs
<1> QED
  BY <1>3, <1>6

\* The buffer of a level never holds a whole block, and the writer stays within its files and
\* phases (romfs.cpp initLevelBuffer to alignBuffer).
THEOREM TypeCorrect == Spec => []TypeOK
<1>1. LevelsInv => TypeOK
  BY InvType
<1> QED
  BY <1>1, InvHolds, PTL

\* No level is written past the region that the sizes in the header give it, whatever files
\* there are and whichever cannot be read (romfs.cpp writeBuffer).
THEOREM RegionsAlwaysKept == Spec => []RegionsKept
<1>1. LevelsInv => RegionsKept
  BY InvRegions
<1> QED
  BY <1>1, InvHolds, PTL

\* Every block of the levels 1 to 3 is hashed in the level above, where a reader looks for
\* the hash (romfs.cpp updateLevelBuffer).
THEOREM ChainAlwaysVerifies == Spec => []ChainVerifies
<1>1. LevelsInv => ChainVerifies
  BY InvChain
<1> QED
  BY <1>1, InvHolds, PTL

\* The data of every file that could be read is where its entry says (romfs.cpp
\* updateLevelBuffer).
THEOREM DataAlwaysInPlace == Spec => []DataInPlace
<1>1. LevelsInv => DataInPlace
  BY InvData
<1> QED
  BY <1>1, InvHolds, PTL

-----------------------------------------------------------------------------
(* The directory tree: numbers                                             *)

LEMMA Largest ==
  ASSUME NEW S, S \subseteq Nat, S # {}, NEW b \in Nat, \A x \in S : x <= b
  PROVE  \E x \in S : \A y \in S : y <= x
<1> DEFINE T == {b - x : x \in S}
<1>1. T \subseteq Nat /\ T # {}
  <2>1. \A x \in S : b - x \in Nat
    OBVIOUS
  <2>2. PICK x : x \in S
    OBVIOUS
  <2>3. b - x \in T
    BY <2>2
  <2> QED
    BY <2>1, <2>3
<1>2. PICK t \in T : \A u \in T : t <= u
  BY <1>1, Smallest
<1>3. PICK x \in S : t = b - x
  OBVIOUS
<1>4. ASSUME NEW y \in S
      PROVE  y <= x
  <2>1. t <= b - y
    BY <1>2
  <2>2. x \in Nat /\ y \in Nat
    OBVIOUS
  <2> QED
    BY <1>3, <2>1, <2>2
<1> QED
  BY <1>4

-----------------------------------------------------------------------------
(* Names in order                                                          *)

Named(S) == \A p \in S : Last(p) \in Nat /\ \A q \in S : Last(p) = Last(q) => p = q

InOrder(s, S, n) ==
  /\ s \in [1 .. n -> S]
  /\ \A p \in S : \E k \in 1 .. n : s[k] = p
  /\ \A i, j \in 1 .. n : i < j => Last(s[i]) < Last(s[j])

LEMMA OrderExists ==
  ASSUME NEW S, IsFiniteSet(S), Named(S)
  PROVE  \E s : InOrder(s, S, Cardinality(S))
<1> DEFINE K == {n \in Nat : \A T \in SUBSET S : Cardinality(T) = n => \E s : InOrder(s, T, n)}
<1>1. 0 \in K
  <2> SUFFICES ASSUME NEW T \in SUBSET S, Cardinality(T) = 0
               PROVE  \E s : InOrder(s, T, 0)
    OBVIOUS
  <2>1. T = {}
    BY FS_Subset, FS_EmptySet
  <2>2. InOrder([i \in 1 .. 0 |-> 0], T, 0)
    BY <2>1 DEF InOrder
  <2> QED
    BY <2>2
<1>2. ASSUME NEW n \in Nat, n \in K
      PROVE  n + 1 \in K
  <2> SUFFICES ASSUME NEW T \in SUBSET S, Cardinality(T) = n + 1
               PROVE  \E s : InOrder(s, T, n + 1)
    OBVIOUS
  <2>1. IsFiniteSet(T) /\ T # {}
    BY FS_Subset, FS_EmptySet
  <2> DEFINE L == {Last(p) : p \in T}
  <2>2. L \subseteq Nat /\ L # {}
    BY <2>1 DEF Named
  <2>3. PICK x \in L : \A y \in L : x <= y
    BY <2>2, Smallest
  <2>4. PICK m \in T : Last(m) = x
    BY <2>3
  <2>5. ASSUME NEW p \in T, p # m
        PROVE  Last(m) < Last(p)
    <3>1. Last(m) <= Last(p) /\ Last(m) # Last(p)
      BY <2>3, <2>4, <2>5 DEF Named
    <3>2. Last(m) \in Nat /\ Last(p) \in Nat
      BY DEF Named
    <3> QED
      BY <3>1, <3>2
  <2> DEFINE U == T \ {m}
  <2>6. U \in SUBSET S /\ Cardinality(U) = n
    <3>1. Cardinality(U) = Cardinality(T) - 1
      BY <2>1, FS_RemoveElement
    <3>2. Cardinality(T) - 1 = n
      OBVIOUS
    <3> QED
      BY <3>1, <3>2
  <2>7. PICK t : InOrder(t, U, n)
    BY <1>2, <2>6
  <2> DEFINE s == [i \in 1 .. (n + 1) |-> IF i = 1 THEN m ELSE t[i - 1]]
  <2>8. ASSUME NEW i \in 1 .. (n + 1), i # 1
        PROVE  i - 1 \in 1 .. n /\ s[i] = t[i - 1] /\ t[i - 1] \in U
    BY <2>7, <2>8 DEF InOrder
  <2>9. s[1] = m
    OBVIOUS
  <2>10. s \in [1 .. (n + 1) -> T]
    BY <2>8
  <2>11. ASSUME NEW p \in T
         PROVE  \E k \in 1 .. (n + 1) : s[k] = p
    <3>1. CASE p = m
      BY <2>9, <3>1
    <3>2. CASE p # m
      <4>1. PICK k \in 1 .. n : t[k] = p
        BY <2>7, <3>2 DEF InOrder
      <4>2. k + 1 \in 1 .. (n + 1) /\ k + 1 # 1 /\ (k + 1) - 1 = k
        OBVIOUS
      <4> QED
        BY <4>1, <4>2
    <3> QED
      BY <3>1, <3>2
  <2>12. ASSUME NEW i \in 1 .. (n + 1), NEW j \in 1 .. (n + 1), i < j
         PROVE  Last(s[i]) < Last(s[j])
    <3>1. j # 1
      BY <2>12
    <3>2. CASE i = 1
      BY <2>5, <2>8, <2>9, <3>1, <3>2
    <3>3. CASE i # 1
      <4>1. i - 1 < j - 1 /\ i - 1 \in 1 .. n /\ j - 1 \in 1 .. n
        BY <2>12, <3>3
      <4>2. Last(t[i - 1]) < Last(t[j - 1])
        BY <2>7, <4>1 DEF InOrder
      <4> QED
        BY <2>8, <3>1, <3>3, <4>2
    <3> QED
      BY <3>2, <3>3
  <2> HIDE DEF s
  <2>13. InOrder(s, T, n + 1)
    BY <2>10, <2>11, <2>12 DEF InOrder
  <2> QED
    BY <2>13
<1> HIDE DEF K
<1>3. Cardinality(S) \in Nat
  BY FS_CardinalityType
<1>4. Cardinality(S) \in K
  BY <1>1, <1>2, <1>3, UpTo
<1> QED
  BY <1>4 DEF K

LEMMA SortedIs ==
  ASSUME NEW S, IsFiniteSet(S), Named(S)
  PROVE  /\ Cardinality(S) \in Nat /\ InOrder(Sorted(S), S, Cardinality(S))
         /\ Sorted(S) = <<>> <=> S = {}
<1> DEFINE n == Cardinality(S)
<1>1. n \in Nat
  BY FS_CardinalityType
<1>2. PICK s : InOrder(s, S, n)
  BY OrderExists
<1>3. s \in [1 .. n -> S]
  BY <1>2 DEF InOrder
<1>4. ASSUME NEW i \in 1 .. n, NEW j \in 1 .. n, i # j
      PROVE  s[i] # s[j]
  <2>1. i < j \/ j < i
    BY <1>1, <1>4
  <2>2. Last(s[i]) < Last(s[j]) \/ Last(s[j]) < Last(s[i])
    BY <1>2, <2>1 DEF InOrder
  <2>3. Last(s[i]) \in Nat /\ Last(s[j]) \in Nat
    BY <1>3 DEF Named
  <2> QED
    BY <2>2, <2>3
<1>5. s \in SetToSeqs(S)
  BY <1>3, <1>4 DEF SetToSeqs
<1>6. \A i, j \in DOMAIN s : i < j => Last(s[i]) < Last(s[j])
  BY <1>2, <1>3 DEF InOrder
<1> DEFINE t == Sorted(S)
<1>7. t \in SetToSeqs(S) /\ \A i, j \in DOMAIN t : i < j => Last(t[i]) < Last(t[j])
  BY <1>5, <1>6 DEF Sorted
<1> HIDE DEF t
<1>8. t \in [1 .. n -> S] /\ \A i, j \in 1 .. n : i # j => t[i] # t[j]
  BY <1>7 DEF SetToSeqs
<1>9. t \in Injection(1 .. n, S)
  BY <1>8 DEF Injection, IsInjective
<1>10. IsFiniteSet(1 .. n) /\ Cardinality(1 .. n) = n
  BY <1>1, FS_Interval
<1>11. t \in Surjection(1 .. n, S)
  BY <1>9, <1>10, FS_Injection
<1>12. \A p \in S : \E k \in 1 .. n : t[k] = p
  BY <1>11 DEF Surjection
<1>13. InOrder(t, S, n)
  BY <1>7, <1>8, <1>12 DEF InOrder
<1>14. t = <<>> <=> S = {}
  <2>1. ASSUME S = {}
        PROVE  t = <<>>
    <3>1. n = 0
      BY <2>1, FS_EmptySet
    <3>2. t \in [1 .. 0 -> S]
      BY <1>8, <3>1
    <3> QED
      BY <3>2
  <2>2. ASSUME t = <<>>, S # {}
        PROVE  FALSE
    <3>1. 1 .. n = {}
      BY <1>8, <2>2
    <3> QED
      BY <1>12, <2>2, <3>1
  <2> QED
    BY <2>1, <2>2
<1> QED
  BY <1>1, <1>13, <1>14 DEF t

-----------------------------------------------------------------------------
(* Paths                                                                   *)

LEMMA PathIs ==
  ASSUME NEW p \in Seq(Nat), p # Root
  PROVE  /\ Len(p) \in Nat \ {0} /\ Parent(p) \in Seq(Nat) /\ Len(Parent(p)) = Len(p) - 1
         /\ Last(p) \in Nat /\ p = Append(Parent(p), Last(p))
<1>1. Len(p) \in Nat \ {0}
  BY DEF Root
<1>2. Last(p) \in Nat
  BY <1>1 DEF Last
<1>3. /\ Parent(p) \in Seq(Nat) /\ Len(Parent(p)) = Len(p) - 1
      /\ \A i \in 1 .. Len(p) - 1 : Parent(p)[i] = p[i]
  <2> DEFINE l == Len(p) - 1
             q == SubSeq(p, 1, l)
  <2>1. l \in Nat /\ \A i \in 1 .. l : p[i] \in Nat
    BY <1>1
  <2> HIDE DEF l
  <2>2. q \in Seq(Nat) /\ Len(q) = (IF 1 <= l THEN l - 1 + 1 ELSE 0)
    BY <2>1, SubSeqProperties
  <2>3. \A i \in 1 .. (l - 1 + 1) : q[i] = p[1 + i - 1]
    BY <2>1, SubSeqProperties
  <2>4. Len(q) = l
    BY <2>1, <2>2
  <2>5. \A i \in 1 .. l : q[i] = p[i]
    BY <2>1, <2>3
  <2>6. Parent(p) = q
    BY DEF Parent, Front, l
  <2> HIDE DEF q
  <2> QED
    BY <2>2, <2>4, <2>5, <2>6 DEF l
<1>4. p = Append(Parent(p), Last(p))
  <2> DEFINE q == Append(Parent(p), Last(p))
  <2>1. q \in Seq(Nat) /\ Len(q) = Len(p)
    BY <1>1, <1>2, <1>3
  <2>2. ASSUME NEW i \in 1 .. Len(p)
        PROVE  q[i] = p[i]
    <3>1. CASE i = Len(p)
      BY <1>1, <1>2, <1>3, <3>1 DEF Last
    <3>2. CASE i # Len(p)
      <4>1. i \in 1 .. Len(p) - 1
        BY <1>1, <3>2
      <4> QED
        BY <1>2, <1>3, <4>1
    <3> QED
      BY <3>1, <3>2
  <2> HIDE DEF q
  <2>3. q = p
    BY <2>1, <2>2, SeqEqual
  <2> QED
    BY <2>3 DEF q
<1> QED
  BY <1>1, <1>2, <1>3, <1>4

\* The tree that is packed.
SourceInv ==
  /\ source.Dirs \subseteq Seq(Nat) /\ source.Files \subseteq Seq(Nat)
  /\ IsFiniteSet(source.Dirs) /\ IsFiniteSet(source.Files)
  /\ Root \in source.Dirs /\ source.Dirs \cap source.Files = {} /\ Root \notin source.Files
  /\ \A p \in (source.Dirs \cup source.Files) \ {Root} : Parent(p) \in source.Dirs /\ Last(p) # 0

LEMMA AppendIs ==
  ASSUME NEW p \in Seq(Nat), NEW n \in Nat
  PROVE  /\ Append(p, n) \in Seq(Nat) /\ Append(p, n) # Root
         /\ Parent(Append(p, n)) = p /\ Last(Append(p, n)) = n
<1> DEFINE q == Append(p, n)
<1>1. q \in Seq(Nat) /\ Len(q) = Len(p) + 1 /\ Len(p) \in Nat /\ q[Len(p) + 1] = n
  OBVIOUS
<1>2. \A i \in 1 .. Len(p) : q[i] = p[i]
  OBVIOUS
<1> HIDE DEF q
<1>3. q # Root
  BY <1>1 DEF Root
<1>4. Last(q) = n
  BY <1>1 DEF Last
<1>5. /\ Parent(q) \in Seq(Nat) /\ Len(Parent(q)) = Len(p)
      /\ q = Append(Parent(q), Last(q))
  <2>1. /\ Parent(q) \in Seq(Nat) /\ Len(Parent(q)) = Len(q) - 1
        /\ q = Append(Parent(q), Last(q))
    BY <1>1, <1>3, PathIs
  <2> QED
    BY <1>1, <2>1
<1>6. ASSUME NEW i \in 1 .. Len(p)
      PROVE  Parent(q)[i] = p[i]
  <2>1. Append(Parent(q), Last(q))[i] = Parent(q)[i]
    BY <1>1, <1>4, <1>5
  <2>2. q[i] = Parent(q)[i]
    BY <1>5, <2>1
  <2> QED
    BY <1>2, <2>2
<1>7. Parent(q) = p
  BY <1>1, <1>5, <1>6, SeqEqual
<1> QED
  BY <1>1, <1>3, <1>4, <1>7 DEF q

LEMMA FiniteDirPaths == IsFiniteSet(DirPaths) /\ DirPaths \subseteq Seq(Nat \ {0})
<1> DEFINE K == {d \in Nat : IsFiniteSet([1 .. d -> DirNames])}
<1>1. DirNames \subseteq Nat \ {0} /\ IsFiniteSet(DirNames) /\ MaxDepth \in Nat
  BY RomFsTreeAssumption
<1>2. 0 \in K
  <2> DEFINE e == [i \in {} |-> 0]
  <2>1. 1 .. 0 = {}
    OBVIOUS
  <2>2. [{} -> DirNames] = {e}
    OBVIOUS
  <2> HIDE DEF e
  <2>3. IsFiniteSet([1 .. 0 -> DirNames])
    <3>1. IsFiniteSet({e})
      BY FS_Singleton
    <3>2. IsFiniteSet([{} -> DirNames])
      BY <2>2, <3>1, Zenon
    <3> QED
      BY <2>1, <3>2, Zenon
  <2> QED
    BY <2>3
<1>3. ASSUME NEW d \in 0 .. (MaxDepth - 1), d \in K
      PROVE  d + 1 \in K
  <2> DEFINE A == [1 .. d -> DirNames] \X DirNames
             B == [1 .. (d + 1) -> DirNames]
             g == [x \in A |-> [i \in 1 .. (d + 1) |-> IF i = d + 1 THEN x[2] ELSE x[1][i]]]
  <2>1. d \in Nat
    BY <1>1
  <2>2. IsFiniteSet(A)
    BY <1>1, <1>3, FS_Product
  <2>3. ASSUME NEW x \in A
        PROVE  g[x] \in B
    <3>1. \A i \in 1 .. (d + 1) : i # d + 1 => i \in 1 .. d
      BY <2>1
    <3> QED
      BY <3>1
  <2>4. ASSUME NEW p \in B
        PROVE  \E x \in A : g[x] = p
    <3> DEFINE x == <<[i \in 1 .. d |-> p[i]], p[d + 1]>>
    <3>1. x \in A
      BY <2>1
    <3>2. ASSUME NEW i \in 1 .. (d + 1)
          PROVE  g[x][i] = p[i]
      <4>1. i # d + 1 => i \in 1 .. d
        BY <2>1
      <4> QED
        BY <3>1, <4>1
    <3>3. g[x] \in B
      BY <2>3, <3>1
    <3> HIDE DEF g, x
    <3>4. g[x] = p
      BY <3>2, <3>3
    <3> QED
      BY <3>1, <3>4
  <2>5. g \in [A -> B]
    BY <2>3
  <2> HIDE DEF g
  <2>6. g \in Surjection(A, B)
    BY <2>4, <2>5 DEF Surjection
  <2> HIDE DEF A, B
  <2>7. IsFiniteSet(B)
    BY <2>2, <2>6, FS_Surjection
  <2> QED
    BY <2>1, <2>7 DEF B
<1> HIDE DEF K
<1>4. \A d \in 0 .. MaxDepth : d \in K
  BY <1>1, <1>2, <1>3, UpTo
<1> DEFINE C == {[1 .. d -> DirNames] : d \in 0 .. MaxDepth}
<1>5. IsFiniteSet(C)
  <2> DEFINE I == 0 .. MaxDepth
             h == [d \in I |-> [1 .. d -> DirNames]]
  <2>1. IsFiniteSet(I)
    BY <1>1, FS_Interval
  <2>2. h \in Surjection(I, C)
    BY DEF Surjection
  <2> HIDE DEF h, C, I
  <2> QED
    BY <2>1, <2>2, FS_Surjection
<1>6. \A T \in C : IsFiniteSet(T)
  BY <1>4 DEF K
<1>7. DirPaths = UNION C
  BY DEF DirPaths
<1>8. IsFiniteSet(DirPaths)
  <2> HIDE DEF C
  <2> QED
    BY <1>5, <1>6, <1>7, FS_UNION
<1>9. ASSUME NEW p \in DirPaths
      PROVE  p \in Seq(Nat \ {0})
  <2>1. PICK d \in 0 .. MaxDepth : p \in [1 .. d -> DirNames]
    BY DEF DirPaths
  <2>2. d \in Nat
    BY <1>1
  <2>3. p \in [1 .. d -> Nat \ {0}]
    BY <1>1, <2>1
  <2> QED
    BY <2>2, <2>3
<1> QED
  BY <1>8, <1>9

LEMMA InitSource ==
  ASSUME source \in Trees
  PROVE  SourceInv
<1>1. PICK S, F :
        /\ S \in SUBSET DirPaths
        /\ F \in SUBSET {Append(p, n) : p \in S, n \in FileNames}
        /\ source = [Dirs |-> S, Files |-> F]
        /\ Root \in S /\ \A p \in S : p # Root => Parent(p) \in S
  BY DEF Trees
<1>2. source.Dirs = S /\ source.Files = F
  BY <1>1
<1>3. S \subseteq Seq(Nat \ {0}) /\ IsFiniteSet(S)
  BY <1>1, FiniteDirPaths, FS_Subset
<1>4. S \subseteq Seq(Nat)
  BY <1>3
<1>5. ASSUME NEW f \in F
      PROVE  /\ f \in Seq(Nat) /\ f # Root /\ Parent(f) \in S /\ Last(f) \in FileNames
             /\ Last(f) # 0
  <2>1. PICK p \in S, n \in FileNames : f = Append(p, n)
    BY <1>1
  <2>2. n \in Nat /\ n # 0 /\ p \in Seq(Nat)
    BY <1>4, RomFsTreeAssumption
  <2> QED
    BY <2>1, <2>2, AppendIs
<1>6. ASSUME NEW p \in S, p # Root
      PROVE  Last(p) \in DirNames /\ Last(p) # 0
  <2>1. PICK d \in 0 .. MaxDepth : p \in [1 .. d -> DirNames]
    BY <1>1 DEF DirPaths
  <2>2. d \in Nat /\ DirNames \subseteq Nat \ {0}
    BY RomFsTreeAssumption
  <2>3. p \in Seq(DirNames) /\ Len(p) = d
    BY <2>1, <2>2
  <2>4. d # 0
    BY <1>6, <2>3 DEF Root
  <2>5. p[d] \in DirNames
    BY <2>1, <2>2, <2>4
  <2> QED
    BY <2>2, <2>3, <2>5 DEF Last
<1>7. IsFiniteSet(F)
  <2> DEFINE A == S \X FileNames
             B == {Append(p, n) : p \in S, n \in FileNames}
             g == [x \in A |-> Append(x[1], x[2])]
  <2>1. IsFiniteSet(A)
    BY <1>3, RomFsTreeAssumption, FS_Product
  <2>2. ASSUME NEW b \in B
        PROVE  \E x \in A : g[x] = b
    <3>1. PICK p \in S, n \in FileNames : b = Append(p, n)
      OBVIOUS
    <3>2. <<p, n>> \in A /\ g[<<p, n>>] = b
      BY <3>1
    <3> QED
      BY <3>2
  <2>3. g \in [A -> B]
    OBVIOUS
  <2> HIDE DEF g
  <2>4. g \in Surjection(A, B)
    BY <2>2, <2>3 DEF Surjection
  <2> HIDE DEF A
  <2>5. IsFiniteSet(B)
    BY <2>1, <2>4, FS_Surjection
  <2> HIDE DEF B
  <2>6. F \in SUBSET B
    BY <1>1 DEF B
  <2> QED
    BY <2>5, <2>6, FS_Subset
<1>8. S \cap F = {}
  <2> SUFFICES ASSUME NEW p \in S, p \in F PROVE FALSE
    OBVIOUS
  <2>1. p # Root /\ Last(p) \in FileNames /\ Last(p) \in DirNames
    BY <1>5, <1>6
  <2> QED
    BY <2>1, RomFsTreeAssumption
<1>9. F \subseteq Seq(Nat) /\ Root \notin F
  BY <1>5
<1>10. \A p \in (S \cup F) \ {Root} : Parent(p) \in S /\ Last(p) # 0
  BY <1>1, <1>5, <1>6
<1> QED
  BY <1>1, <1>2, <1>3, <1>4, <1>7, <1>8, <1>9, <1>10 DEF SourceInv

LEMMA ChildrenAre ==
  ASSUME SourceInv, NEW path \in source.Dirs
  PROVE  /\ ChildDirs(path) \subseteq source.Dirs \ {Root}
         /\ ChildFiles(path) \subseteq source.Files
         /\ \A p \in ChildDirs(path) \cup ChildFiles(path) : Parent(p) = path
         /\ IsFiniteSet(ChildDirs(path)) /\ Named(ChildDirs(path))
         /\ IsFiniteSet(ChildFiles(path)) /\ Named(ChildFiles(path))
<1>1. ChildDirs(path) \subseteq source.Dirs /\ ChildFiles(path) \subseteq source.Files
  BY DEF ChildDirs, ChildFiles
<1>2. IsFiniteSet(ChildDirs(path)) /\ IsFiniteSet(ChildFiles(path))
  BY <1>1, FS_Subset DEF SourceInv
<1>3. \A p \in ChildDirs(path) \cup ChildFiles(path) : Parent(p) = path /\ p # Root
  BY DEF ChildDirs, ChildFiles, SourceInv
<1>4. \A p \in ChildDirs(path) \cup ChildFiles(path) :
        Last(p) \in Nat /\ p = Append(path, Last(p))
  <2> SUFFICES ASSUME NEW p \in ChildDirs(path) \cup ChildFiles(path)
               PROVE  Last(p) \in Nat /\ p = Append(path, Last(p))
    OBVIOUS
  <2>1. p \in Seq(Nat) /\ p # Root /\ Parent(p) = path
    BY <1>1, <1>3 DEF SourceInv
  <2> QED
    BY <2>1, PathIs
<1>5. Named(ChildDirs(path)) /\ Named(ChildFiles(path))
  BY <1>4 DEF Named
<1> QED
  BY <1>1, <1>2, <1>3, <1>5

-----------------------------------------------------------------------------
(* Rows: entries at the positions a .. n - 1 with parents at 0 .. m - 1;   *)
(* those of one parent stand side by side, each linked to the next         *)

Kids(a, n, par, p) == {j \in a .. (n - 1) : par[j] = p}

IsFirst(x, S) == \/ x = Invalid /\ S = {}
                 \/ x \in S /\ \A j \in S : x <= j

Rows(a, n, m, par, sib, child) ==
  /\ a \in Nat /\ n \in Nat /\ m \in Nat /\ a <= n
  /\ \A j \in a .. (n - 1) : par[j] \in 0 .. (m - 1)
  /\ \A j \in a .. (n - 1) :
       sib[j] = IF j + 1 <= n - 1 /\ par[j + 1] = par[j] THEN j + 1 ELSE Invalid
  /\ \A i, j, k \in a .. (n - 1) : i < j /\ j < k /\ par[i] = par[k] => par[j] = par[i]
  /\ \A p \in 0 .. (m - 1) : IsFirst(child[p], Kids(a, n, par, p))

IsChain(at, first, sib, places, bound) ==
  at = [k \in 0 .. bound |-> IF k = 0 THEN first
                             ELSE IF at[k - 1] \in places THEN sib[at[k - 1]] ELSE Invalid]

LEMMA KidsIs ==
  ASSUME NEW a, NEW n, NEW par, NEW p, NEW j
  PROVE  j \in Kids(a, n, par, p) <=> j \in a .. (n - 1) /\ par[j] = p
BY DEF Kids

\* Following the links one meets the entries in K.
ChainsMeet(first, sib, places, bound, K) ==
  /\ \E at : IsChain(at, first, sib, places, bound)
  /\ \A at : IsChain(at, first, sib, places, bound) =>
       {at[k] : k \in 0 .. bound} \ {Invalid} = K

LEMMA ChainIsKids ==
  ASSUME NEW a, NEW n, NEW m, NEW par, NEW sib, NEW child, Rows(a, n, m, par, sib, child),
         NEW p \in 0 .. (m - 1), NEW bound \in Nat, n <= bound,
         NEW places, a .. (n - 1) \subseteq places, Invalid \notin places
  PROVE  ChainsMeet(child[p], sib, places, bound, Kids(a, n, par, p))
<1> DEFINE c == child[p]
           K == Kids(a, n, par, p)
           e == [k \in 0 .. bound |-> IF c # Invalid /\ c + k \in K THEN c + k ELSE Invalid]
<1>1. a \in Nat /\ n \in Nat /\ m \in Nat
  BY DEF Rows
<1>2. K \subseteq a .. (n - 1) /\ K \subseteq Nat /\ Invalid \notin K
  BY <1>1 DEF Kids, Invalid
<1>3. IsFirst(c, K)
  BY DEF Rows
<1> HIDE DEF c
<1>4. c # Invalid => c \in K /\ c \in Nat
  BY <1>2, <1>3 DEF IsFirst
<1>5. e[0] = c
  BY <1>4
<1>6. ASSUME NEW k \in 1 .. bound
      PROVE  e[k] = IF e[k - 1] \in places THEN sib[e[k - 1]] ELSE Invalid
  <2>1. k - 1 \in 0 .. bound /\ k \in 0 .. bound
    OBVIOUS
  <2>2. CASE c = Invalid
    <3>1. e[k] = Invalid /\ e[k - 1] = Invalid
      BY <2>1, <2>2
    <3> QED
      BY <3>1
  <2>3. CASE c # Invalid /\ c + (k - 1) \in K
    <3> DEFINE x == c + (k - 1)
    <3>1. x \in a .. (n - 1) /\ par[x] = p
      BY <2>3 DEF Kids
    <3>2. e[k - 1] = x /\ x \in places
      BY <2>1, <2>3, <3>1
    <3>3. sib[x] = IF x + 1 <= n - 1 /\ par[x + 1] = par[x] THEN x + 1 ELSE Invalid
      BY <3>1 DEF Rows
    <3>4. x + 1 = c + k /\ x \in Int
      BY <1>4, <2>3
    <3> HIDE DEF x
    <3>5. (x + 1 <= n - 1 /\ par[x + 1] = par[x]) <=> x + 1 \in K
      BY <1>1, <3>1 DEF Kids
    <3>6. e[k] = IF c + k \in K THEN c + k ELSE Invalid
      BY <2>1, <2>3
    <3>7. sib[x] = IF c + k \in K THEN c + k ELSE Invalid
      BY <3>3, <3>4, <3>5
    <3> QED
      BY <3>2, <3>6, <3>7
  <2>4. CASE c # Invalid /\ c + (k - 1) \notin K
    <3>1. e[k - 1] = Invalid
      BY <2>1, <2>4
    <3>2. c + k \notin K
      <4> SUFFICES ASSUME c + k \in K PROVE FALSE
        OBVIOUS
      <4>1. k - 1 # 0 /\ c \in K
        BY <1>4, <2>4
      <4>2. c < c + (k - 1) /\ c + (k - 1) < c + k
        BY <1>4, <2>4, <4>1
      <4>3. c \in a .. (n - 1) /\ c + k \in a .. (n - 1) /\ par[c] = p /\ par[c + k] = p
        BY <4>1 DEF Kids
      <4>4. c + (k - 1) \in a .. (n - 1)
        BY <1>1, <4>2, <4>3
      <4>5. par[c + (k - 1)] = p
        BY <4>2, <4>3, <4>4 DEF Rows
      <4> QED
        BY <2>4, <4>4, <4>5 DEF Kids
    <3>3. e[k] = Invalid
      BY <2>1, <3>2
    <3> QED
      BY <3>1, <3>3
  <2> QED
    BY <2>2, <2>3, <2>4
<1>7. \A k \in 0 .. bound : e[k] = IF c # Invalid /\ c + k \in K THEN c + k ELSE Invalid
  OBVIOUS
<1>8. e = [k \in 0 .. bound |-> e[k]]
  OBVIOUS
<1> HIDE DEF e, K
<1>9. IsChain(e, c, sib, places, bound)
  <2>1. ASSUME NEW k \in 0 .. bound
        PROVE  e[k] = IF k = 0 THEN c ELSE IF e[k - 1] \in places THEN sib[e[k - 1]] ELSE Invalid
    <3>1. k # 0 => k \in 1 .. bound
      OBVIOUS
    <3> QED
      BY <1>5, <1>6, <3>1
  <2>2. e = [k \in 0 .. bound |->
               IF k = 0 THEN c ELSE IF e[k - 1] \in places THEN sib[e[k - 1]] ELSE Invalid]
    BY <1>8, <2>1
  <2> QED
    BY <2>2 DEF IsChain
<1>10. ASSUME NEW at, IsChain(at, c, sib, places, bound)
       PROVE  {at[k] : k \in 0 .. bound} \ {Invalid} = K
  <2> DEFINE N == {k \in 0 .. bound : at[k] = e[k]}
  <2>1. at[0] = c /\ \A k \in 1 .. bound :
          at[k] = IF at[k - 1] \in places THEN sib[at[k - 1]] ELSE Invalid
    BY <1>10 DEF IsChain
  <2>2. 0 \in N
    BY <1>5, <2>1
  <2>3. ASSUME NEW k \in 0 .. (bound - 1), k \in N
        PROVE  k + 1 \in N
    <3>1. k + 1 \in 1 .. bound /\ (k + 1) - 1 = k /\ k + 1 \in 0 .. bound
      OBVIOUS
    <3>2. at[k + 1] = e[k + 1]
      BY <1>6, <2>1, <2>3, <3>1
    <3> QED
      BY <3>1, <3>2
  <2>4. \A k \in 0 .. bound : at[k] = e[k]
    <3> HIDE DEF N
    <3>1. \A k \in 0 .. bound : k \in N
      BY <2>2, <2>3, UpTo
    <3> QED
      BY <3>1 DEF N
  <2>5. ASSUME NEW j \in K
        PROVE  \E k \in 0 .. bound : at[k] = j /\ j # Invalid
    <3>1. c # Invalid /\ c <= j /\ j \in Nat /\ j <= n - 1
      BY <1>1, <1>2, <1>3, <2>5 DEF IsFirst
    <3>2. j - c \in 0 .. bound /\ c + (j - c) = j
      BY <1>1, <1>4, <3>1
    <3>3. at[j - c] = j
      BY <1>7, <2>4, <2>5, <3>1, <3>2
    <3> QED
      BY <1>2, <3>2, <3>3
  <2>6. \A k \in 0 .. bound : at[k] = Invalid \/ at[k] \in K
    BY <1>7, <2>4
  <2> QED
    BY <1>2, <2>5, <2>6
<1> QED
  BY <1>9, <1>10 DEF c, K, ChainsMeet

\* Entries of a parent that had none are put behind the others.
LEMMA RowsGrow ==
  ASSUME NEW a, NEW n, NEW m, NEW par, NEW sib, NEW child, Rows(a, n, m, par, sib, child),
         NEW q \in Nat, NEW l \in Nat, NEW par1, NEW sib1, NEW child1, NEW i \in 0 .. (m - 1),
         Kids(a, n, par, i) = {},
         \A j \in a .. (n - 1) : par1[j] = par[j] /\ sib1[j] = sib[j],
         \A j \in n .. (n + q - 1) :
           par1[j] = i /\ sib1[j] = IF j + 1 <= n + q - 1 THEN j + 1 ELSE Invalid,
         \A p \in 0 .. (m - 1) : p # i => child1[p] = child[p],
         child1[i] = IF q = 0 THEN Invalid ELSE n,
         \A p \in m .. (m + l - 1) : child1[p] = Invalid
  PROVE  Rows(a, n + q, m + l, par1, sib1, child1)
<1>1. a \in Nat /\ n \in Nat /\ m \in Nat /\ a <= n
  BY DEF Rows
<1>2. \A j \in a .. (n + q - 1) : j \in a .. (n - 1) \/ j \in n .. (n + q - 1)
  BY <1>1
<1>3. \A j \in a .. (n - 1) : par[j] \in 0 .. (m - 1) /\ par[j] # i
  BY DEF Kids, Rows
<1>4. \A j \in a .. (n + q - 1) : par1[j] \in 0 .. (m + l - 1)
  <2>1. \A x \in 0 .. (m - 1) : x \in 0 .. (m + l - 1)
    BY <1>1
  <2> QED
    BY <1>2, <1>3, <2>1
<1>5. ASSUME NEW j \in a .. (n + q - 1)
      PROVE  sib1[j] = IF j + 1 <= n + q - 1 /\ par1[j + 1] = par1[j] THEN j + 1 ELSE Invalid
  <2>1. CASE j \in a .. (n - 1)
    <3>1. sib1[j] = IF j + 1 <= n - 1 /\ par[j + 1] = par[j] THEN j + 1 ELSE Invalid
      BY <2>1 DEF Rows
    <3>2. CASE j + 1 <= n - 1
      <4>1. j + 1 \in a .. (n - 1) /\ j + 1 <= n + q - 1
        BY <1>1, <2>1, <3>2
      <4> QED
        BY <2>1, <3>1, <4>1
    <3>3. CASE j = n - 1
      <4>1. j + 1 <= n + q - 1 => j + 1 \in n .. (n + q - 1)
        BY <1>1, <3>3
      <4>2. j + 1 <= n + q - 1 => par1[j + 1] # par1[j]
        BY <1>3, <2>1, <4>1
      <4>3. ~(j + 1 <= n - 1)
        BY <1>1, <3>3
      <4> QED
        BY <3>1, <4>2, <4>3
    <3> QED
      BY <1>1, <2>1, <3>2, <3>3
  <2>2. CASE j \in n .. (n + q - 1)
    <3>1. j + 1 <= n + q - 1 => j + 1 \in n .. (n + q - 1)
      BY <1>1, <2>2
    <3> QED
      BY <2>2, <3>1
  <2> QED
    BY <1>2, <2>1, <2>2
<1>6. ASSUME NEW x \in a .. (n + q - 1), NEW y \in a .. (n + q - 1), NEW z \in a .. (n + q - 1),
             x < y, y < z, par1[x] = par1[z]
      PROVE  par1[y] = par1[x]
  <2>1. CASE z \in a .. (n - 1)
    <3>1. x \in a .. (n - 1) /\ y \in a .. (n - 1)
      BY <1>1, <1>6, <2>1
    <3>2. par[x] = par[z]
      BY <1>6, <2>1, <3>1
    <3>3. par[y] = par[x]
      BY <1>6, <2>1, <3>1, <3>2 DEF Rows
    <3> QED
      BY <3>1, <3>3
  <2>2. CASE z \in n .. (n + q - 1)
    <3>1. x \in n .. (n + q - 1)
      BY <1>2, <1>3, <1>6, <2>2
    <3>2. y \in n .. (n + q - 1)
      BY <1>1, <1>6, <3>1
    <3> QED
      BY <3>1, <3>2
  <2> QED
    BY <1>2, <2>1, <2>2
<1>7. ASSUME NEW p \in 0 .. (m + l - 1)
      PROVE  IsFirst(child1[p], Kids(a, n + q, par1, p))
  <2>1. CASE p = i
    <3>1. \A j \in a .. (n + q - 1) : par1[j] = i <=> j \in n .. (n + q - 1)
      <4> SUFFICES ASSUME NEW j \in a .. (n + q - 1)
                   PROVE  par1[j] = i <=> j \in n .. (n + q - 1)
        OBVIOUS
      <4>1. CASE j \in a .. (n - 1)
        BY <1>1, <1>3, <4>1
      <4>2. CASE j \in n .. (n + q - 1)
        BY <4>2
      <4> QED
        BY <1>2, <4>1, <4>2
    <3>2. Kids(a, n + q, par1, p) = n .. (n + q - 1)
      BY <1>1, <2>1, <3>1 DEF Kids
    <3> QED
      BY <1>1, <2>1, <3>2 DEF IsFirst
  <2>2. CASE p # i
    <3>1. Kids(a, n + q, par1, p) = Kids(a, n, par, p)
      <4>1. \A j \in a .. (n - 1) : j \in a .. (n + q - 1)
        BY <1>1
      <4>2. \A j \in a .. (n + q - 1) : par1[j] = p => j \in a .. (n - 1)
        BY <1>2, <2>2
      <4>3. ASSUME NEW j
            PROVE  j \in Kids(a, n + q, par1, p) <=> j \in Kids(a, n, par, p)
        <5>1. j \in Kids(a, n + q, par1, p) <=> j \in a .. (n + q - 1) /\ par1[j] = p
          BY <1>1 DEF Kids
        <5>2. j \in Kids(a, n, par, p) <=> j \in a .. (n - 1) /\ par[j] = p
          BY KidsIs
        <5> QED
          BY <4>1, <4>2, <5>1, <5>2
      <4> QED
        BY <4>3
    <3>2. CASE p \in 0 .. (m - 1)
      BY <2>2, <3>1, <3>2 DEF Rows
    <3>3. CASE p \in m .. (m + l - 1)
      <4>1. p \notin 0 .. (m - 1)
        BY <1>1, <3>3
      <4>2. Kids(a, n, par, p) = {}
        BY <1>3, <4>1 DEF Kids
      <4> QED
        BY <3>1, <3>3, <4>2 DEF IsFirst
    <3> QED
      BY <1>1, <3>2, <3>3
  <2> QED
    BY <2>1, <2>2
<1> QED
  BY <1>1, <1>4, <1>5, <1>6, <1>7 DEF Rows

\* Where the entry at position j was before the one at r was taken out.
Up(j, r) == IF j < r THEN j ELSE j + 1

LEMMA UpIs ==
  ASSUME NEW n \in Nat, NEW a \in Nat, NEW r \in a .. (n - 1)
  PROVE  /\ \A j \in a .. (n - 2) : Up(j, r) \in a .. (n - 1) /\ Up(j, r) # r
         /\ \A i, j \in Int : i < j <=> Up(i, r) < Up(j, r)
         /\ \A x \in a .. (n - 1) : x # r =>
              SubDirOffset(x, r) \in a .. (n - 2) /\ Up(SubDirOffset(x, r), r) = x
         /\ \A j \in Int : SubDirOffset(Up(j, r), r) = j
         /\ SubDirOffset(Invalid, r) = Invalid
<1>1. r \in Nat
  OBVIOUS
<1>2. \A j \in a .. (n - 2) : Up(j, r) \in a .. (n - 1) /\ Up(j, r) # r
  BY <1>1 DEF Up
<1>3. \A i, j \in Int : i < j <=> Up(i, r) < Up(j, r)
  BY <1>1 DEF Up
<1>4. \A x \in a .. (n - 1) : x # r =>
        SubDirOffset(x, r) \in a .. (n - 2) /\ Up(SubDirOffset(x, r), r) = x
  BY <1>1 DEF Up, SubDirOffset
<1>5. \A j \in Int : SubDirOffset(Up(j, r), r) = j
  BY <1>1 DEF Up, SubDirOffset
<1>6. SubDirOffset(Invalid, r) = Invalid
  BY <1>1 DEF SubDirOffset, Invalid
<1> QED
  BY <1>2, <1>3, <1>4, <1>5, <1>6

\* A childless entry is taken out, and all positions behind it move up.
LEMMA RowsShrink ==
  ASSUME NEW a, NEW n, NEW par, NEW sib, NEW child, Rows(a, n, n, par, sib, child),
         NEW r \in a .. (n - 1), Kids(a, n, par, r) = {},
         NEW C \in BOOLEAN, C <=> (r - 1 \in a .. (n - 1) /\ sib[r - 1] = r),
         NEW sib0, NEW child0, NEW par1, NEW sib1, NEW child1,
         \A j \in a .. (n - 1) : sib0[j] = IF C /\ j = r - 1 THEN sib[r] ELSE sib[j],
         \A p \in 0 .. (n - 1) :
           child0[p] = IF ~C /\ p = par[r] /\ child[p] = r THEN sib[r] ELSE child[p],
         \A j \in a .. (n - 2) : par1[j] = SubDirOffset(par[Up(j, r)], r),
         \A j \in a .. (n - 2) : sib1[j] = SubDirOffset(sib0[Up(j, r)], r),
         \A p \in 0 .. (n - 2) : child1[p] = SubDirOffset(child0[Up(p, r)], r)
  PROVE  Rows(a, n - 1, n - 1, par1, sib1, child1)
<1>1. a \in Nat /\ n \in Nat /\ r \in Nat /\ a <= r /\ r <= n - 1
  BY DEF Rows
<1>2. \A j \in a .. (n - 1) : par[j] \in 0 .. (n - 1) /\ par[j] # r
  BY DEF Kids, Rows
<1>3. /\ \A j \in a .. (n - 2) : Up(j, r) \in a .. (n - 1) /\ Up(j, r) # r
      /\ \A i, j \in Int : i < j <=> Up(i, r) < Up(j, r)
      /\ \A x \in a .. (n - 1) : x # r =>
           SubDirOffset(x, r) \in a .. (n - 2) /\ Up(SubDirOffset(x, r), r) = x
      /\ \A j \in Int : SubDirOffset(Up(j, r), r) = j
      /\ SubDirOffset(Invalid, r) = Invalid
  BY <1>1, UpIs
<1>4. /\ \A j \in 0 .. (n - 2) : Up(j, r) \in 0 .. (n - 1) /\ Up(j, r) # r
      /\ \A x \in 0 .. (n - 1) : x # r =>
           SubDirOffset(x, r) \in 0 .. (n - 2) /\ Up(SubDirOffset(x, r), r) = x
  <2>1. r \in 0 .. (n - 1) /\ 0 \in Nat /\ n \in Nat
    BY <1>1
  <2>2. /\ \A j \in 0 .. (n - 2) : Up(j, r) \in 0 .. (n - 1) /\ Up(j, r) # r
        /\ \A i, j \in Int : i < j <=> Up(i, r) < Up(j, r)
        /\ \A x \in 0 .. (n - 1) : x # r =>
             SubDirOffset(x, r) \in 0 .. (n - 2) /\ Up(SubDirOffset(x, r), r) = x
        /\ \A j \in Int : SubDirOffset(Up(j, r), r) = j
        /\ SubDirOffset(Invalid, r) = Invalid
    BY <2>1, UpIs, Zenon
  <2> QED
    BY <2>2
<1>5. ASSUME NEW j \in a .. (n - 2)
      PROVE  par1[j] \in 0 .. (n - 2) /\ Up(par1[j], r) = par[Up(j, r)]
  BY <1>2, <1>3, <1>4
<1>6. ASSUME NEW i \in a .. (n - 2), NEW j \in a .. (n - 2)
      PROVE  par1[i] = par1[j] <=> par[Up(i, r)] = par[Up(j, r)]
  <2>1. par1[i] = SubDirOffset(par[Up(i, r)], r) /\ par1[j] = SubDirOffset(par[Up(j, r)], r)
    OBVIOUS
  <2> QED
    BY <1>5, <2>1
<1>7. \A j \in a .. (n - 1) :
        sib[j] = IF j + 1 <= n - 1 /\ par[j + 1] = par[j] THEN j + 1 ELSE Invalid
  BY DEF Rows
<1>8. C => par[r] = par[r - 1]
  BY <1>1, <1>7 DEF Invalid
<1>9. \A i, j, k \in a .. (n - 1) : i < j /\ j < k /\ par[i] = par[k] => par[j] = par[i]
  BY DEF Rows
<1>10. ASSUME NEW j \in a .. (n - 2)
       PROVE  sib1[j] = IF j + 1 <= n - 2 /\ par1[j + 1] = par1[j] THEN j + 1 ELSE Invalid
  <2> DEFINE o == Up(j, r)
             G == j + 1 <= n - 2 /\ par[Up(j + 1, r)] = par[o]
  <2>1. j \in Int /\ o \in a .. (n - 1)
    BY <1>1, <1>3
  <2>2. (j + 1 <= n - 2 /\ par1[j + 1] = par1[j]) <=> G
    <3>1. j + 1 <= n - 2 => j + 1 \in a .. (n - 2)
      BY <1>1
    <3> QED
      BY <1>6, <3>1
  <2>3. sib1[j] = SubDirOffset(sib0[o], r)
    OBVIOUS
  <2>4. CASE j + 1 # r
    <3>1. Up(j + 1, r) = o + 1 /\ SubDirOffset(o + 1, r) = j + 1
          /\ (j + 1 <= n - 2 <=> o + 1 <= n - 1) /\ o # r - 1
      BY <1>1, <2>1, <2>4 DEF Up, SubDirOffset
    <3>2. sib0[o] = sib[o]
      BY <2>1, <3>1
    <3>3. sib0[o] = IF G THEN o + 1 ELSE Invalid
      BY <1>7, <2>1, <3>1, <3>2
    <3> QED
      BY <1>3, <2>2, <2>3, <3>1, <3>3
  <2>5. CASE j + 1 = r
    <3>1. o = r - 1 /\ Up(j + 1, r) = r + 1 /\ r - 1 \in a .. (n - 1) /\ SubDirOffset(r + 1, r) = j + 1
          /\ (j + 1 <= n - 2 <=> r + 1 <= n - 1)
      BY <1>1, <2>1, <2>5 DEF Up, SubDirOffset
    <3>2. CASE C
      <4>1. sib0[o] = sib[r] /\ par[r] = par[o]
        BY <1>8, <3>1, <3>2
      <4>2. sib[r] = IF r + 1 <= n - 1 /\ par[r + 1] = par[r] THEN r + 1 ELSE Invalid
        BY <1>7
      <4>3. sib0[o] = IF G THEN r + 1 ELSE Invalid
        BY <3>1, <4>1, <4>2
      <4> QED
        BY <1>3, <2>2, <2>3, <3>1, <4>3
    <3>3. CASE ~C
      <4>1. sib0[o] = sib[o]
        BY <2>1, <3>3
      <4>2. sib[o] = IF o + 1 <= n - 1 /\ par[o + 1] = par[o] THEN o + 1 ELSE Invalid
        BY <1>7, <2>1
      <4>3. sib[o] # r /\ o + 1 = r
        BY <1>1, <3>1, <3>3
      <4>4. sib[o] = Invalid /\ par[r] # par[o]
        BY <1>1, <4>2, <4>3
      <4>5. ~G
        <5> SUFFICES ASSUME G PROVE FALSE
          OBVIOUS
        <5>1. r + 1 \in a .. (n - 1) /\ par[r + 1] = par[o] /\ o < r /\ r < r + 1
          BY <1>1, <3>1
        <5>2. par[r] = par[o]
          BY <1>9, <2>1, <5>1
        <5> QED
          BY <4>4, <5>2
      <4> QED
        BY <1>3, <2>2, <2>3, <4>1, <4>4, <4>5
    <3> QED
      BY <3>2, <3>3
  <2> QED
    BY <2>4, <2>5
<1>11. ASSUME NEW i \in a .. (n - 2), NEW j \in a .. (n - 2), NEW k \in a .. (n - 2),
              i < j, j < k, par1[i] = par1[k]
       PROVE  par1[j] = par1[i]
  <2>1. Up(i, r) < Up(j, r) /\ Up(j, r) < Up(k, r)
    BY <1>1, <1>3, <1>11
  <2>2. par[Up(i, r)] = par[Up(k, r)]
    BY <1>6, <1>11
  <2>3. par[Up(j, r)] = par[Up(i, r)]
    BY <1>3, <1>9, <2>1, <2>2
  <2> QED
    BY <1>6, <2>3
<1>12. ASSUME NEW p \in 0 .. (n - 2)
       PROVE  IsFirst(child1[p], Kids(a, n - 1, par1, p))
  <2> DEFINE P == Up(p, r)
             K == Kids(a, n, par, P)
             K1 == Kids(a, n - 1, par1, p)
             c == child[P]
  <2>1. P \in 0 .. (n - 1) /\ p \in Int
    BY <1>1, <1>4
  <2>2. IsFirst(c, K)
    BY <2>1 DEF Rows
  <2>3. ASSUME NEW j \in K1
        PROVE  j \in a .. (n - 2) /\ Up(j, r) \in K
    <3>1. j \in a .. (n - 2) /\ par1[j] = p
      BY <1>1, <2>3 DEF Kids
    <3>2. par[Up(j, r)] = P /\ Up(j, r) \in a .. (n - 1)
      BY <1>3, <1>5, <3>1
    <3> QED
      BY <3>1, <3>2 DEF Kids
  <2>4. ASSUME NEW x \in K, x # r
        PROVE  SubDirOffset(x, r) \in K1
    <3>1. x \in a .. (n - 1) /\ par[x] = P
      BY DEF Kids
    <3> DEFINE j == SubDirOffset(x, r)
    <3>2. j \in a .. (n - 2) /\ Up(j, r) = x
      BY <1>3, <2>4, <3>1
    <3> HIDE DEF j
    <3>3. par1[j] = SubDirOffset(P, r)
      BY <3>1, <3>2
    <3>4. par1[j] = p
      BY <1>3, <2>1, <3>3
    <3>5. j \in K1
      BY <1>1, <3>2, <3>4 DEF Kids
    <3> QED
      BY <3>5 DEF j
  <2>5. child1[p] = SubDirOffset(child0[P], r)
    OBVIOUS
  <2>6. K \subseteq a .. (n - 1) /\ \A j \in K : par[j] = P
    BY DEF Kids
  <2>7. \A j \in a .. (n - 1) : par[j] = P => j \in K
    BY DEF Kids
  <2>8. child0[P] = IF ~C /\ P = par[r] /\ c = r THEN sib[r] ELSE c
    BY <2>1
  <2>9. \A j \in K1 : Up(j, r) # r
    BY <1>3, <2>3
  <2> HIDE DEF P, K, K1, c
  <2>10. CASE c = Invalid
    <3>1. K = {} /\ c # r
      BY <1>1, <2>2, <2>6, <2>10 DEF IsFirst, Invalid
    <3>2. K1 = {} /\ child1[p] = Invalid
      BY <1>3, <2>3, <2>5, <2>8, <2>10, <3>1
    <3> QED
      BY <3>2 DEF IsFirst, K1
  <2>11. CASE c # Invalid /\ c # r
    <3>1. c \in K /\ \A j \in K : c <= j
      BY <2>2, <2>11 DEF IsFirst
    <3>2. child1[p] = SubDirOffset(c, r)
      BY <2>5, <2>8, <2>11
    <3>3. child1[p] \in K1
      BY <2>4, <2>11, <3>1, <3>2
    <3>4. ASSUME NEW j \in K1
          PROVE  child1[p] <= j
      <4>1. Up(j, r) \in K /\ j \in Int /\ j \in a .. (n - 2)
        BY <1>1, <2>3
      <4>2. c <= Up(j, r) /\ c \in a .. (n - 1)
        BY <2>6, <3>1, <4>1
      <4>3. Up(child1[p], r) = c /\ child1[p] \in Int
        BY <1>1, <1>3, <2>11, <3>2, <4>2
      <4>4. ~(Up(j, r) < Up(child1[p], r))
        BY <1>1, <1>3, <4>1, <4>2, <4>3
      <4>5. ~(j < child1[p])
        BY <1>3, <4>1, <4>3, <4>4
      <4> QED
        BY <4>1, <4>3, <4>5
    <3> QED
      BY <3>3, <3>4 DEF IsFirst, K1
  <2>12. CASE c = r
    <3>1. r \in K /\ \A j \in K : r <= j
      BY <1>1, <2>2, <2>12 DEF IsFirst, Invalid
    <3>2. par[r] = P
      BY <2>6, <3>1
    <3>3. ~C
      <4> SUFFICES ASSUME C PROVE FALSE
        OBVIOUS
      <4>1. r - 1 \in a .. (n - 1) /\ par[r - 1] = P
        BY <1>8, <3>2
      <4> QED
        BY <1>1, <2>7, <3>1, <4>1
    <3>4. child1[p] = SubDirOffset(sib[r], r)
      BY <2>5, <2>8, <2>12, <3>2, <3>3
    <3>5. sib[r] = IF r + 1 <= n - 1 /\ par[r + 1] = par[r] THEN r + 1 ELSE Invalid
      BY <1>7
    <3>6. CASE r + 1 \in K
      <4>1. sib[r] = r + 1 /\ SubDirOffset(r + 1, r) = r
        <5>1. r + 1 \in a .. (n - 1) /\ par[r + 1] = par[r]
          BY <2>6, <3>2, <3>6
        <5>2. r + 1 <= n - 1 /\ (r + 1) - 1 = r /\ r + 1 > r
          BY <1>1, <5>1
        <5> QED
          BY <3>5, <5>1, <5>2 DEF SubDirOffset
      <4>2. child1[p] = r /\ r \in K1
        BY <1>1, <2>4, <3>4, <3>6, <4>1
      <4>3. ASSUME NEW j \in K1
            PROVE  r <= j
        <5>1. Up(j, r) \in K /\ Up(j, r) # r /\ j \in Int /\ Up(j, r) \in Int
          BY <1>1, <1>3, <2>3
        <5>2. r < Up(j, r)
          BY <1>1, <3>1, <5>1
        <5> QED
          BY <1>1, <5>1, <5>2 DEF Up
      <4> QED
        BY <4>2, <4>3 DEF IsFirst, K1
    <3>7. CASE r + 1 \notin K
      <4>1. child1[p] = Invalid
        <5>1. r + 1 <= n - 1 => r + 1 \in a .. (n - 1)
          BY <1>1
        <5> QED
          BY <1>3, <2>7, <3>2, <3>4, <3>5, <3>7, <5>1
      <4>2. K1 = {}
        <5> SUFFICES ASSUME NEW j \in K1 PROVE FALSE
          OBVIOUS
        <5> DEFINE x == Up(j, r)
        <5>1. x \in K /\ x # r /\ x \in a .. (n - 1) /\ par[x] = P
          BY <2>3, <2>6, <2>9
        <5> HIDE DEF x
        <5>2. r < r + 1 /\ r + 1 < x /\ r + 1 \in a .. (n - 1)
          <6>1. r <= x /\ x # r + 1 /\ x \in Nat
            BY <1>1, <3>1, <3>7, <5>1
          <6> QED
            BY <1>1, <5>1, <6>1
        <5>3. par[r + 1] = P
          BY <1>9, <3>2, <5>1, <5>2
        <5> QED
          BY <2>7, <3>7, <5>2, <5>3
      <4> QED
        BY <4>1, <4>2 DEF IsFirst, K1
    <3> QED
      BY <3>6, <3>7
  <2>13. IsFirst(child1[p], K1)
    BY <2>10, <2>11, <2>12 DEF K1
  <2> QED
    BY <2>13 DEF K1
<1>13. (n - 1) - 1 = n - 2 /\ n - 1 \in Nat /\ a <= n - 1
  BY <1>1
<1>14. \A j \in a .. (n - 2) : par1[j] \in 0 .. (n - 2)
  BY <1>5
<1> QED
  BY <1>1, <1>10, <1>11, <1>12, <1>13, <1>14 DEF Rows

\* The parents of the entries move up, and the links stay.
LEMMA RowsRename ==
  ASSUME NEW a, NEW n, NEW m, NEW par, NEW sib, NEW child, Rows(a, n, m, par, sib, child),
         NEW r \in 0 .. (m - 1), Kids(a, n, par, r) = {},
         NEW par1, NEW sib1, NEW child1,
         \A j \in a .. (n - 1) : par1[j] = SubDirOffset(par[j], r) /\ sib1[j] = sib[j],
         \A p \in 0 .. (m - 2) : child1[p] = child[Up(p, r)]
  PROVE  Rows(a, n, m - 1, par1, sib1, child1)
<1>1. a \in Nat /\ n \in Nat /\ m \in Nat /\ a <= n /\ r \in Nat /\ m - 1 \in Nat
  BY DEF Rows
<1>2. \A j \in a .. (n - 1) : par[j] \in 0 .. (m - 1) /\ par[j] # r
  BY DEF Kids, Rows
<1>3. /\ \A j \in 0 .. (m - 2) : Up(j, r) \in 0 .. (m - 1) /\ Up(j, r) # r
      /\ \A x \in 0 .. (m - 1) : x # r =>
           SubDirOffset(x, r) \in 0 .. (m - 2) /\ Up(SubDirOffset(x, r), r) = x
      /\ \A j \in Int : SubDirOffset(Up(j, r), r) = j
  <2>1. 0 \in Nat
    OBVIOUS
  <2>2. /\ \A j \in 0 .. (m - 2) : Up(j, r) \in 0 .. (m - 1) /\ Up(j, r) # r
        /\ \A i, j \in Int : i < j <=> Up(i, r) < Up(j, r)
        /\ \A x \in 0 .. (m - 1) : x # r =>
             SubDirOffset(x, r) \in 0 .. (m - 2) /\ Up(SubDirOffset(x, r), r) = x
        /\ \A j \in Int : SubDirOffset(Up(j, r), r) = j
        /\ SubDirOffset(Invalid, r) = Invalid
    BY <1>1, <2>1, UpIs, Zenon
  <2> QED
    BY <2>2
<1>4. ASSUME NEW j \in a .. (n - 1)
      PROVE  par1[j] \in 0 .. (m - 2) /\ Up(par1[j], r) = par[j]
  BY <1>2, <1>3
<1>5. ASSUME NEW i \in a .. (n - 1), NEW j \in a .. (n - 1)
      PROVE  par1[i] = par1[j] <=> par[i] = par[j]
  BY <1>4
<1>6. ASSUME NEW j \in a .. (n - 1)
      PROVE  sib1[j] = IF j + 1 <= n - 1 /\ par1[j + 1] = par1[j] THEN j + 1 ELSE Invalid
  <2>1. j + 1 <= n - 1 => j + 1 \in a .. (n - 1)
    BY <1>1
  <2>2. sib1[j] = IF j + 1 <= n - 1 /\ par[j + 1] = par[j] THEN j + 1 ELSE Invalid
    BY DEF Rows
  <2> QED
    BY <1>5, <2>1, <2>2
<1>7. ASSUME NEW i \in a .. (n - 1), NEW j \in a .. (n - 1), NEW k \in a .. (n - 1),
             i < j, j < k, par1[i] = par1[k]
      PROVE  par1[j] = par1[i]
  <2>1. par[i] = par[k]
    BY <1>5, <1>7
  <2>2. par[j] = par[i]
    BY <1>7, <2>1 DEF Rows
  <2> QED
    BY <1>5, <2>2
<1>8. ASSUME NEW p \in 0 .. (m - 2)
      PROVE  IsFirst(child1[p], Kids(a, n, par1, p))
  <2>1. Up(p, r) \in 0 .. (m - 1) /\ p \in Int
    BY <1>1, <1>3
  <2>2. ASSUME NEW j \in a .. (n - 1)
        PROVE  par1[j] = p <=> par[j] = Up(p, r)
    <3>1. par1[j] = p => par[j] = Up(p, r)
      BY <1>4
    <3>2. par[j] = Up(p, r) => par1[j] = p
      BY <1>3, <2>1
    <3> QED
      BY <3>1, <3>2
  <2>3. Kids(a, n, par1, p) = Kids(a, n, par, Up(p, r))
    BY <2>2 DEF Kids
  <2> QED
    BY <2>1, <2>3 DEF Rows
<1>9. (m - 1) - 1 = m - 2
  BY <1>1
<1>10. \A j \in a .. (n - 1) : par1[j] \in 0 .. (m - 2)
  BY <1>4
<1> QED
  BY <1>1, <1>6, <1>7, <1>8, <1>9, <1>10 DEF Rows

-----------------------------------------------------------------------------
(* Offsets of entries that lie one behind the other                        *)

IsSums(e, begin, sizes, n) ==
  e = [k \in 0 .. n |-> IF k = 0 THEN begin ELSE e[k - 1] + sizes[k]]

LEMMA SumsExist ==
  ASSUME NEW n \in Nat, NEW begin, NEW sizes
  PROVE  \E e : IsSums(e, begin, sizes, n)
<1> DEFINE N == {m \in 0 .. n : \E e : IsSums(e, begin, sizes, m)}
<1>1. 0 \in N
  <2> DEFINE e == [k \in 0 .. 0 |-> begin]
  <2>1. e = [k \in 0 .. 0 |-> IF k = 0 THEN begin ELSE e[k - 1] + sizes[k]]
    OBVIOUS
  <2>2. IsSums(e, begin, sizes, 0)
    BY <2>1 DEF IsSums
  <2> QED
    BY <2>2
<1>2. ASSUME NEW m \in 0 .. (n - 1), m \in N
      PROVE  m + 1 \in N
  <2>1. PICK f : IsSums(f, begin, sizes, m)
    BY <1>2
  <2> DEFINE g == [k \in 0 .. (m + 1) |-> IF k = m + 1 THEN f[m] + sizes[m + 1] ELSE f[k]]
  <2>2. ASSUME NEW k \in 0 .. (m + 1)
        PROVE  g[k] = IF k = 0 THEN begin ELSE g[k - 1] + sizes[k]
    <3>1. CASE k = m + 1
      <4>1. k - 1 = m /\ m \in 0 .. (m + 1) /\ m # m + 1 /\ k # 0
        BY <3>1
      <4>2. g[k - 1] = f[m] /\ g[k] = f[m] + sizes[k]
        BY <3>1, <4>1
      <4> QED
        BY <4>1, <4>2
    <3>2. CASE k # m + 1
      <4>1. k \in 0 .. m /\ (k # 0 => k - 1 \in 0 .. (m + 1) /\ k - 1 # m + 1)
        BY <3>2
      <4>2. g[k] = f[k] /\ (k # 0 => g[k - 1] = f[k - 1])
        BY <3>2, <4>1
      <4>3. f[k] = IF k = 0 THEN begin ELSE f[k - 1] + sizes[k]
        BY <2>1, <4>1 DEF IsSums
      <4> QED
        BY <4>2, <4>3
    <3> QED
      BY <3>1, <3>2
  <2>3. g = [k \in 0 .. (m + 1) |-> IF k = 0 THEN begin ELSE g[k - 1] + sizes[k]]
    BY <2>2
  <2> HIDE DEF g
  <2>4. IsSums(g, begin, sizes, m + 1)
    BY <2>3 DEF IsSums
  <2>5. m + 1 \in 0 .. n
    OBVIOUS
  <2> QED
    BY <2>4, <2>5
<1> HIDE DEF N
<1>3. n \in N
  BY <1>1, <1>2, UpTo
<1> QED
  BY <1>3 DEF N

LEMMA EntryEndsAre ==
  ASSUME NEW begin \in Nat, NEW sizes, NEW n \in Nat, sizes = [k \in 1 .. n |-> sizes[k]],
         \A k \in 1 .. n : sizes[k] \in Nat \ {0}
  PROVE  LET e == EntryEnds(begin, sizes) IN
         /\ e[0] = begin
         /\ \A k \in 1 .. n : e[k] = e[k - 1] + sizes[k]
         /\ \A k \in 0 .. n : e[k] \in Nat
         /\ \A j, k \in 0 .. n : j < k => e[j] < e[k]
<1> DEFINE e == CHOOSE f : IsSums(f, begin, sizes, n)
           N == {k \in 0 .. n : /\ e[k] \in Nat
                                /\ \A j \in 0 .. n : j < k => e[j] \in Nat /\ e[j] < e[k]}
<1>1. Len(sizes) = n
  BY TupleSeq
<1>2. EntryEnds(begin, sizes) = e
  BY <1>1 DEF EntryEnds, IsSums
<1>3. IsSums(e, begin, sizes, n)
  BY SumsExist
<1> HIDE DEF e
<1>4. e[0] = begin /\ \A k \in 1 .. n : e[k] = e[k - 1] + sizes[k]
  <2>1. \A k \in 0 .. n : e[k] = IF k = 0 THEN begin ELSE e[k - 1] + sizes[k]
    BY <1>3 DEF IsSums
  <2>2. 0 \in 0 .. n /\ \A k \in 1 .. n : k \in 0 .. n /\ k # 0
    OBVIOUS
  <2> QED
    BY <2>1, <2>2
<1>5. 0 \in N
  BY <1>4
<1>6. ASSUME NEW k \in 0 .. (n - 1), k \in N
      PROVE  k + 1 \in N
  <2>1. k + 1 \in 1 .. n /\ (k + 1) - 1 = k /\ k + 1 \in 0 .. n
    OBVIOUS
  <2>2. e[k + 1] = e[k] + sizes[k + 1] /\ e[k] \in Nat
    BY <1>4, <1>6, <2>1
  <2>3. sizes[k + 1] \in Nat \ {0}
    BY <2>1
  <2>4. e[k + 1] \in Nat /\ e[k] < e[k + 1]
    BY <2>2, <2>3
  <2>5. ASSUME NEW j \in 0 .. n, j < k + 1
        PROVE  e[j] \in Nat /\ e[j] < e[k + 1]
    <3>1. CASE j = k
      BY <2>2, <2>4, <3>1
    <3>2. CASE j < k
      <4>1. e[j] \in Nat /\ e[j] < e[k]
        BY <1>6, <3>2
      <4> QED
        BY <2>2, <2>4, <4>1
    <3> QED
      BY <2>5, <3>1, <3>2
  <2> QED
    BY <2>1, <2>4, <2>5
<1> HIDE DEF N
<1>7. \A k \in 0 .. n : k \in N
  BY <1>5, <1>6, UpTo
<1>8. \A k \in 0 .. n : e[k] \in Nat /\ \A j \in 0 .. n : j < k => e[j] < e[k]
  BY <1>7 DEF N
<1> QED
  BY <1>2, <1>4, <1>8

-----------------------------------------------------------------------------
(* The paths of rows: those of the children of an entry, in the order of   *)
(* their names                                                             *)

Pathed(a, n, par, path, up, S) ==
  /\ \A j \in a .. (n - 1) : path[j] \in S \ {Root} /\ Parent(path[j]) = up[par[j]]
  /\ \A i, j \in a .. (n - 1) : path[i] = path[j] => i = j
  /\ \A i, j \in a .. (n - 1) : i < j /\ par[i] = par[j] => Last(path[i]) < Last(path[j])

LEMMA UpFromZero ==
  ASSUME NEW n \in Nat, NEW r \in 0 .. (n - 1)
  PROVE  /\ \A j \in 0 .. (n - 2) : Up(j, r) \in 0 .. (n - 1) /\ Up(j, r) # r
         /\ \A x \in 0 .. (n - 1) : x # r =>
              SubDirOffset(x, r) \in 0 .. (n - 2) /\ Up(SubDirOffset(x, r), r) = x
<1>1. 0 \in Nat
  OBVIOUS
<1> QED
  BY <1>1, UpIs

\* An entry without children is taken out of a table.
LEMMA PathedShrink ==
  ASSUME NEW a \in Nat, NEW n \in Nat, NEW par, NEW path, NEW S, Pathed(a, n, par, path, path, S),
         \A j \in a .. (n - 1) : par[j] \in 0 .. (n - 1),
         NEW r \in a .. (n - 1), Kids(a, n, par, r) = {}, NEW par1, NEW path1,
         \A j \in a .. (n - 2) : par1[j] = SubDirOffset(par[Up(j, r)], r),
         \A j \in 0 .. (n - 2) : path1[j] = path[Up(j, r)]
  PROVE  Pathed(a, n - 1, par1, path1, path1, S)
<1>1. r \in 0 .. (n - 1) /\ 0 \in Nat /\ n \in Nat
  OBVIOUS
<1>2. /\ \A j \in a .. (n - 2) : Up(j, r) \in a .. (n - 1) /\ Up(j, r) # r
      /\ \A i, j \in Int : i < j <=> Up(i, r) < Up(j, r)
  BY UpIs
<1>3. \A x \in 0 .. (n - 1) : x # r =>
        SubDirOffset(x, r) \in 0 .. (n - 2) /\ Up(SubDirOffset(x, r), r) = x
  BY <1>1, UpFromZero
<1>4. ASSUME NEW j \in a .. (n - 2)
      PROVE  /\ j \in 0 .. (n - 2) /\ j \in Int /\ path1[j] = path[Up(j, r)]
             /\ Up(par1[j], r) = par[Up(j, r)] /\ par1[j] \in 0 .. (n - 2)
  <2>1. j \in 0 .. (n - 2) /\ j \in Int
    OBVIOUS
  <2>2. Up(j, r) \in a .. (n - 1) /\ par1[j] = SubDirOffset(par[Up(j, r)], r)
    BY <1>2
  <2>3. par[Up(j, r)] \in 0 .. (n - 1) /\ par[Up(j, r)] # r
    BY <2>2 DEF Kids
  <2> QED
    BY <1>3, <2>1, <2>2, <2>3
<1>5. ASSUME NEW j \in a .. (n - 2)
      PROVE  path1[j] \in S \ {Root} /\ Parent(path1[j]) = path1[par1[j]]
  <2>1. path1[par1[j]] = path[par[Up(j, r)]]
    BY <1>4
  <2>2. path[Up(j, r)] \in S \ {Root} /\ Parent(path[Up(j, r)]) = path[par[Up(j, r)]]
    BY <1>2 DEF Pathed
  <2> QED
    BY <1>4, <2>1, <2>2
<1>6. ASSUME NEW i \in a .. (n - 2), NEW j \in a .. (n - 2), path1[i] = path1[j]
      PROVE  i = j
  <2>1. Up(i, r) = Up(j, r)
    BY <1>2, <1>4, <1>6 DEF Pathed
  <2> QED
    BY <1>4, <2>1 DEF Up
<1>7. ASSUME NEW i \in a .. (n - 2), NEW j \in a .. (n - 2), i < j, par1[i] = par1[j]
      PROVE  Last(path1[i]) < Last(path1[j])
  <2>1. Up(i, r) < Up(j, r) /\ par[Up(i, r)] = par[Up(j, r)]
    BY <1>2, <1>4, <1>7
  <2> QED
    BY <1>2, <1>4, <2>1 DEF Pathed
<1>8. (n - 1) - 1 = n - 2
  OBVIOUS
<1> HIDE DEF Pathed
<1> QED
  BY <1>5, <1>6, <1>7, <1>8 DEF Pathed

\* Parents move up, and so do the paths of the parents.
ParentsUp(a, n, r, par, path, par1, path1) ==
  \A j \in a .. (n - 1) : par1[j] = SubDirOffset(par[j], r) /\ path1[j] = path[j]

PathsUp(m, r, up, up1) == \A p \in 0 .. (m - 2) : up1[p] = up[Up(p, r)]

\* A directory without files is taken out of the other table.
LEMMA PathedRename ==
  ASSUME NEW a \in Nat, NEW n \in Nat, NEW m \in Nat, NEW par, NEW path, NEW up, NEW S,
         Pathed(a, n, par, path, up, S),
         \A j \in a .. (n - 1) : par[j] \in 0 .. (m - 1),
         NEW r \in 0 .. (m - 1), Kids(a, n, par, r) = {}, NEW par1, NEW path1, NEW up1,
         ParentsUp(a, n, r, par, path, par1, path1), PathsUp(m, r, up, up1)
  PROVE  Pathed(a, n, par1, path1, up1, S)
<1>1. \A x \in 0 .. (m - 1) : x # r =>
        SubDirOffset(x, r) \in 0 .. (m - 2) /\ Up(SubDirOffset(x, r), r) = x
  BY UpFromZero
<1>2. ASSUME NEW j \in a .. (n - 1)
      PROVE  Up(par1[j], r) = par[j] /\ par1[j] \in 0 .. (m - 2)
  <2>1. par[j] \in 0 .. (m - 1) /\ par[j] # r
    BY DEF Kids
  <2> QED
    BY <1>1, <2>1 DEF ParentsUp
<1>3. ASSUME NEW j \in a .. (n - 1)
      PROVE  path1[j] \in S \ {Root} /\ Parent(path1[j]) = up1[par1[j]]
  BY <1>2 DEF Pathed, ParentsUp, PathsUp
<1>4. ASSUME NEW i \in a .. (n - 1), NEW j \in a .. (n - 1), path1[i] = path1[j]
      PROVE  i = j
  BY <1>4 DEF Pathed, ParentsUp
<1>5. ASSUME NEW i \in a .. (n - 1), NEW j \in a .. (n - 1), i < j, par1[i] = par1[j]
      PROVE  Last(path1[i]) < Last(path1[j])
  BY <1>2, <1>5 DEF Pathed, ParentsUp
<1> HIDE DEF Pathed
<1> QED
  BY <1>3, <1>4, <1>5 DEF Pathed

-----------------------------------------------------------------------------
(* The table of entries, while positions link them                         *)

DirEntries ==
  [Path : Seq(Nat), ParentDirOffset : Int, SiblingDirOffset : Int, ChildDirOffset : Int,
   ChildFileOffset : Int, PrevDirOffset : Int, EntryOffset : Int]

FileEntries ==
  [Path : Seq(Nat), ParentDirOffset : Int, SiblingFileOffset : Int, PrevFileOffset : Int,
   EntryOffset : Int]

Pars(E) == [j \in 0 .. (Len(E) - 1) |-> E[j + 1].ParentDirOffset]
Paths(E) == [j \in 0 .. (Len(E) - 1) |-> E[j + 1].Path]
DirSibs(D) == [j \in 0 .. (Len(D) - 1) |-> D[j + 1].SiblingDirOffset]
FileSibs(F) == [j \in 0 .. (Len(F) - 1) |-> F[j + 1].SiblingFileOffset]
DirKids(D) == [j \in 0 .. (Len(D) - 1) |-> D[j + 1].ChildDirOffset]
FileKids(D) == [j \in 0 .. (Len(D) - 1) |-> D[j + 1].ChildFileOffset]

DirRows(D) == Rows(1, Len(D), Len(D), Pars(D), DirSibs(D), DirKids(D))
FileRows(D, F) == Rows(0, Len(F), Len(D), Pars(F), FileSibs(F), FileKids(D))

Growing(E) == \A j, k \in 1 .. Len(E) :
                E[j].EntryOffset \in Nat /\ (j < k => E[j].EntryOffset < E[k].EntryOffset)

Table(D, F) ==
  /\ D \in Seq(DirEntries) /\ F \in Seq(FileEntries) /\ Len(D) >= 1
  /\ D[1].Path = Root /\ D[1].ParentDirOffset = 0 /\ D[1].SiblingDirOffset = Invalid
  /\ DirRows(D) /\ FileRows(D, F)
  /\ Pathed(1, Len(D), Pars(D), Paths(D), Paths(D), source.Dirs)
  /\ Pathed(0, Len(F), Pars(F), Paths(F), Paths(D), source.Files)
  /\ Growing(F)

Childless(D, F, i) == Kids(1, Len(D), Pars(D), i) = {} /\ Kids(0, Len(F), Pars(F), i) = {}

LEMMA PathsDiffer ==
  ASSUME NEW D, NEW F, Table(D, F), SourceInv
  PROVE  /\ \A j \in 0 .. (Len(D) - 1) : Paths(D)[j] \in source.Dirs
         /\ \A i, j \in 0 .. (Len(D) - 1) : Paths(D)[i] = Paths(D)[j] => i = j
<1>1. D \in Seq(DirEntries) /\ Len(D) \in Nat /\ Len(D) >= 1
  BY DEF Table
<1>2. \A j \in 0 .. (Len(D) - 1) : j = 0 \/ j \in 1 .. (Len(D) - 1)
  BY <1>1
<1>3. Paths(D)[0] = Root
  BY <1>1 DEF Paths, Table
<1>4. /\ \A j \in 1 .. (Len(D) - 1) : Paths(D)[j] \in source.Dirs \ {Root}
      /\ \A i, j \in 1 .. (Len(D) - 1) : Paths(D)[i] = Paths(D)[j] => i = j
  BY DEF Table, Pathed
<1>5. Root \in source.Dirs
  BY DEF SourceInv
<1> QED
  BY <1>2, <1>3, <1>4, <1>5

\* One sequence behind the other.
LEMMA Joined ==
  ASSUME NEW S, NEW a \in Seq(S), NEW b \in Seq(S)
  PROVE  /\ a \o b \in Seq(S) /\ Len(a \o b) = Len(a) + Len(b)
         /\ \A j \in 1 .. Len(a) : (a \o b)[j] = a[j]
         /\ \A k \in 1 .. Len(b) : (a \o b)[Len(a) + k] = b[k]
<1>1. Len(a) \in Nat /\ Len(b) \in Nat
  OBVIOUS
<1>2. /\ a \o b \in Seq(S) /\ Len(a \o b) = Len(a) + Len(b)
      /\ \A j \in 1 .. (Len(a) + Len(b)) : (a \o b)[j] = IF j <= Len(a) THEN a[j] ELSE b[j - Len(a)]
  BY ConcatProperties
<1>3. \A j \in 1 .. Len(a) : (a \o b)[j] = a[j]
  BY <1>1, <1>2
<1>4. ASSUME NEW k \in 1 .. Len(b)
      PROVE  (a \o b)[Len(a) + k] = b[k]
  <2>1. /\ Len(a) + k \in 1 .. (Len(a) + Len(b)) /\ ~(Len(a) + k <= Len(a))
        /\ (Len(a) + k) - Len(a) = k
    BY <1>1
  <2> QED
    BY <1>2, <2>1
<1> QED
  BY <1>2, <1>3, <1>4

LEMMA DirEntryIs ==
  ASSUME NEW path \in Seq(Nat), NEW parent \in Int, NEW sibling \in Int
  PROVE  LET e == DirEntry(path, parent, sibling) IN
         /\ e \in DirEntries /\ e.Path = path /\ e.ParentDirOffset = parent
         /\ e.SiblingDirOffset = sibling
         /\ e.ChildDirOffset = Invalid /\ e.ChildFileOffset = Invalid
BY DEF DirEntry, DirEntries, Invalid

LEMMA FileEntryIs ==
  ASSUME NEW path \in Seq(Nat), NEW parent \in Int, NEW sibling \in Int, NEW at \in Int
  PROVE  LET e == FileEntry(path, parent, sibling, at) IN
         /\ e \in FileEntries /\ e.Path = path /\ e.ParentDirOffset = parent
         /\ e.SiblingFileOffset = sibling /\ e.EntryOffset = at
BY DEF FileEntry, FileEntries, Invalid

-----------------------------------------------------------------------------
(* createEntryList                                                         *)

\* What listing the directories of the one at position i makes of the table.
NewDirsAre(i, n, C, q, s, D) ==
  /\ q \in Nat /\ InOrder(s, C, q) /\ C \subseteq source.Dirs \ {Root} /\ Named(C)
  /\ \A p \in C : Parent(p) = Dir(i).Path
  /\ D \in Seq(DirEntries) /\ Len(D) = n + q
  /\ \A j \in 1 .. n : /\ D[j].Path = createDirs[j].Path
                       /\ D[j].ParentDirOffset = createDirs[j].ParentDirOffset
                       /\ D[j].SiblingDirOffset = createDirs[j].SiblingDirOffset
  /\ \A j \in 1 .. n : j # i + 1 => D[j] = createDirs[j]
  /\ D[i + 1].ChildDirOffset = IF q = 0 THEN Invalid ELSE n
  /\ D[i + 1].ChildFileOffset = IF ChildFiles(Dir(i).Path) = {} THEN Invalid ELSE Len(createFiles)
  /\ \A k \in 1 .. q : D[n + k] = DirEntry(s[k], i, IF k < q THEN n + k ELSE Invalid)

LEMMA ListDirsAre ==
  ASSUME SourceInv, createDirs \in Seq(DirEntries), createFiles \in Seq(FileEntries),
         NEW i \in DirPositions, Dir(i).Path \in source.Dirs,
         NEW n, n = Len(createDirs), NEW C, C = ChildDirs(Dir(i).Path), NEW q, q = Cardinality(C),
         NEW s, s = Sorted(C), NEW D, D = ListDirs(i)
  PROVE  NewDirsAre(i, n, C, q, s, D)
<1>1. n \in Nat /\ i \in Nat /\ i + 1 \in 1 .. n /\ Len(createFiles) \in Nat
  BY DEF DirPositions
<1>2. /\ C \subseteq source.Dirs \ {Root} /\ \A p \in C : Parent(p) = Dir(i).Path
      /\ IsFiniteSet(C) /\ Named(C)
  BY ChildrenAre
<1>3. q \in Nat /\ InOrder(s, C, q) /\ (s = <<>> <=> C = {})
  BY <1>2, SortedIs
<1>4. s \in [1 .. q -> C]
  BY <1>3 DEF InOrder
<1>5. s = [k \in 1 .. q |-> s[k]] /\ DOMAIN s = 1 .. q
  BY <1>4
<1>6. Len(s) = q
  BY <1>3, <1>5, TupleSeq
<1>7. q = 0 <=> s = <<>>
  BY <1>2, <1>3, FS_EmptySet
<1> DEFINE first == IF q = 0 THEN Invalid ELSE n
           file == IF ChildFiles(Dir(i).Path) = {} THEN Invalid ELSE Len(createFiles)
           own == [createDirs[i + 1] EXCEPT !.ChildDirOffset = first, !.ChildFileOffset = file]
           entry(k) == DirEntry(s[k], i, IF k < q THEN n + k ELSE Invalid)
           A == [createDirs EXCEPT ![i + 1] = own]
           B == [k \in 1 .. q |-> entry(k)]
<1>8. D = A \o B
  BY <1>5, <1>6, <1>7 DEF ListDirs, Dir
<1>9. createDirs[i + 1] \in DirEntries
  BY <1>1
<1>10. /\ own \in DirEntries /\ own.Path = createDirs[i + 1].Path
       /\ own.ParentDirOffset = createDirs[i + 1].ParentDirOffset
       /\ own.SiblingDirOffset = createDirs[i + 1].SiblingDirOffset
       /\ own.ChildDirOffset = first /\ own.ChildFileOffset = file
  <2>1. first \in Int /\ file \in Int
    BY <1>1 DEF Invalid
  <2> DEFINE e == createDirs[i + 1]
  <2>2. own = [e EXCEPT !.ChildDirOffset = first, !.ChildFileOffset = file]
    OBVIOUS
  <2>3. e \in DirEntries
    BY <1>9
  <2> HIDE DEF first, file, own, e
  <2>4. /\ own \in DirEntries /\ own.Path = e.Path /\ own.ParentDirOffset = e.ParentDirOffset
        /\ own.SiblingDirOffset = e.SiblingDirOffset
        /\ own.ChildDirOffset = first /\ own.ChildFileOffset = file
    BY <2>1, <2>2, <2>3 DEF DirEntries
  <2> QED
    BY <2>4 DEF e
<1> HIDE DEF own
<1>11. /\ A \in Seq(DirEntries) /\ Len(A) = n /\ A[i + 1] = own
       /\ \A j \in 1 .. n : j # i + 1 => A[j] = createDirs[j]
  BY <1>1, <1>10
<1>12. ASSUME NEW k \in 1 .. q
       PROVE  entry(k) \in DirEntries
  <2>1. s[k] \in Seq(Nat)
    BY <1>2, <1>4 DEF SourceInv
  <2>2. (IF k < q THEN n + k ELSE Invalid) \in Int
    BY <1>1 DEF Invalid
  <2> QED
    BY <1>1, <2>1, <2>2, DirEntryIs
<1> HIDE DEF entry
<1>13. B \in Seq(DirEntries) /\ Len(B) = q /\ \A k \in 1 .. q : B[k] = entry(k)
  BY <1>3, <1>12
<1> HIDE DEF A, B
<1>14. /\ D \in Seq(DirEntries) /\ Len(D) = n + q
       /\ \A j \in 1 .. n : D[j] = A[j]
       /\ \A k \in 1 .. q : D[n + k] = B[k]
  <2>1. A \in Seq(DirEntries) /\ B \in Seq(DirEntries) /\ n = Len(A) /\ q = Len(B) /\ D = A \o B
    BY <1>8, <1>11, <1>13, Zenon
  <2> QED
    BY <2>1, Joined
<1>15. \A j \in 1 .. n : D[j] = A[j]
  BY <1>14
<1>16. \A k \in 1 .. q : D[n + k] = entry(k)
  BY <1>13, <1>14
<1>17. ASSUME NEW j \in 1 .. n
       PROVE  /\ D[j].Path = createDirs[j].Path
              /\ D[j].ParentDirOffset = createDirs[j].ParentDirOffset
              /\ D[j].SiblingDirOffset = createDirs[j].SiblingDirOffset
  <2>1. CASE j = i + 1
    BY <1>10, <1>11, <1>15, <2>1
  <2>2. CASE j # i + 1
    BY <1>11, <1>15, <2>2
  <2> QED
    BY <2>1, <2>2
<1>18. /\ D[i + 1].ChildDirOffset = IF q = 0 THEN Invalid ELSE n
       /\ D[i + 1].ChildFileOffset = IF ChildFiles(Dir(i).Path) = {} THEN Invalid ELSE Len(createFiles)
  BY <1>1, <1>10, <1>11, <1>15
<1> QED
  BY <1>2, <1>3, <1>11, <1>14, <1>15, <1>16, <1>17, <1>18 DEF entry, NewDirsAre

NewFilesAre(i, n, C, q, s, F) ==
  /\ q \in Nat /\ InOrder(s, C, q) /\ C \subseteq source.Files \ {Root} /\ Named(C)
  /\ \A p \in C : Parent(p) = Dir(i).Path
  /\ q = 0 <=> C = {}
  /\ F \in Seq(FileEntries) /\ Len(F) = n + q /\ Growing(F)
  /\ \A j \in 1 .. n : F[j] = createFiles[j]
  /\ \A k \in 1 .. q : /\ F[n + k].Path = s[k] /\ F[n + k].ParentDirOffset = i
                       /\ F[n + k].SiblingFileOffset = IF k < q THEN n + k ELSE Invalid

LEMMA ListFilesAre ==
  ASSUME SourceInv, createFiles \in Seq(FileEntries), Growing(createFiles),
         \A j \in 1 .. Len(createFiles) : createFiles[j].Path \in source.Files,
         NEW i \in DirPositions, Dir(i).Path \in source.Dirs,
         NEW n, n = Len(createFiles), NEW C, C = ChildFiles(Dir(i).Path), NEW q, q = Cardinality(C),
         NEW s, s = Sorted(C), NEW F, F = ListFiles(i)
  PROVE  NewFilesAre(i, n, C, q, s, F)
<1>1. n \in Nat /\ i \in Nat
  BY DEF DirPositions
<1>2. /\ C \subseteq source.Files \ {Root} /\ \A p \in C : Parent(p) = Dir(i).Path
      /\ IsFiniteSet(C) /\ Named(C)
  BY ChildrenAre DEF SourceInv
<1>3. q \in Nat /\ InOrder(s, C, q)
  BY <1>2, SortedIs
<1>4. s \in [1 .. q -> C]
  BY <1>3 DEF InOrder
<1>5. s = [k \in 1 .. q |-> s[k]] /\ DOMAIN s = 1 .. q
  BY <1>4
<1>6. Len(s) = q
  BY <1>3, <1>5, TupleSeq
<1>7. q = 0 <=> C = {}
  BY <1>2, FS_EmptySet
<1>8. \A p \in source.Files : FileEntrySize(p) \in Nat \ {0}
  <2> SUFFICES ASSUME NEW p \in source.Files PROVE FileEntrySize(p) \in Nat \ {0}
    OBVIOUS
  <2>1. p \in Seq(Nat) /\ p # Root
    BY DEF SourceInv
  <2>2. Last(p) \in Nat
    BY <2>1, PathIs
  <2> QED
    BY <2>1, <2>2 DEF FileEntrySize, FileHead, NameSize
<1>9. /\ FilesEnd \in Nat
      /\ \A j \in 1 .. n : createFiles[j].EntryOffset < FilesEnd
  <2>1. CASE createFiles = <<>>
    BY <2>1 DEF FilesEnd
  <2>2. CASE createFiles # <<>>
    <3>1. n \in 1 .. n
      BY <1>1, <2>2
    <3>2. /\ Last(createFiles) = createFiles[n]
          /\ FilesEnd = createFiles[n].EntryOffset + FileEntrySize(createFiles[n].Path)
      BY <2>2 DEF FilesEnd, Last
    <3>3. createFiles[n].EntryOffset \in Nat /\ FileEntrySize(createFiles[n].Path) \in Nat \ {0}
      BY <1>8, <3>1 DEF Growing
    <3>4. ASSUME NEW j \in 1 .. n
          PROVE  createFiles[j].EntryOffset \in Nat
                 /\ createFiles[j].EntryOffset <= createFiles[n].EntryOffset
      <4>1. j < n \/ j = n
        BY <1>1
      <4> QED
        BY <3>1, <3>3, <4>1 DEF Growing
    <3> QED
      BY <3>2, <3>3, <3>4
  <2> QED
    BY <2>1, <2>2
<1> DEFINE sizes == [k \in 1 .. q |-> FileEntrySize(s[k])]
           ends == EntryEnds(FilesEnd, sizes)
           entry(k) == FileEntry(s[k], i, IF k < q THEN n + k ELSE Invalid, ends[k - 1])
           B == [k \in 1 .. q |-> entry(k)]
<1>10. F = createFiles \o B
  BY <1>5, <1>6 DEF ListFiles
<1>11. sizes = [k \in 1 .. q |-> sizes[k]] /\ \A k \in 1 .. q : sizes[k] \in Nat \ {0}
  BY <1>2, <1>4, <1>8
<1> HIDE DEF sizes
<1>12. /\ ends[0] = FilesEnd /\ \A k \in 0 .. q : ends[k] \in Nat
       /\ \A j, k \in 0 .. q : j < k => ends[j] < ends[k]
  BY <1>3, <1>9, <1>11, EntryEndsAre
<1> HIDE DEF ends
<1>13. ASSUME NEW k \in 1 .. q
       PROVE  /\ entry(k) \in FileEntries /\ entry(k).Path = s[k] /\ entry(k).ParentDirOffset = i
              /\ entry(k).SiblingFileOffset = IF k < q THEN n + k ELSE Invalid
              /\ entry(k).EntryOffset = ends[k - 1]
  <2>1. s[k] \in Seq(Nat)
    BY <1>2, <1>4 DEF SourceInv
  <2>2. (IF k < q THEN n + k ELSE Invalid) \in Int
    BY <1>1 DEF Invalid
  <2>3. ends[k - 1] \in Int
    BY <1>3, <1>12
  <2> QED
    BY <1>1, <2>1, <2>2, <2>3, FileEntryIs
<1> HIDE DEF entry
<1>14. B \in Seq(FileEntries) /\ Len(B) = q /\ \A k \in 1 .. q : B[k] = entry(k)
  BY <1>3, <1>13
<1> HIDE DEF B
<1>15. /\ F \in Seq(FileEntries) /\ Len(F) = n + q
       /\ \A j \in 1 .. n : F[j] = createFiles[j]
       /\ \A k \in 1 .. q : F[n + k] = B[k]
  BY <1>10, <1>14, Joined
<1>16. \A j \in 1 .. n : F[j] = createFiles[j]
  BY <1>15
<1>17. \A k \in 1 .. q : F[n + k] = entry(k)
  BY <1>14, <1>15
<1>18. ASSUME NEW j \in 1 .. (n + q), j \notin 1 .. n
       PROVE  j - n \in 1 .. q /\ F[j].EntryOffset = ends[(j - n) - 1] /\ (j - n) - 1 \in 0 .. q
  <2> DEFINE k == j - n
  <2>1. k \in 1 .. q /\ n + k = j /\ k - 1 \in 0 .. q
    BY <1>1, <1>3, <1>18
  <2> HIDE DEF k
  <2>2. F[j].EntryOffset = ends[k - 1]
    BY <1>13, <1>17, <2>1
  <2> QED
    BY <2>1, <2>2 DEF k
<1>19. ASSUME NEW j \in 1 .. (n + q)
       PROVE  F[j].EntryOffset \in Nat
  <2>1. CASE j \in 1 .. n
    BY <1>16, <2>1 DEF Growing
  <2>2. CASE j \notin 1 .. n
    BY <1>12, <1>18, <2>2
  <2> QED
    BY <2>1, <2>2
<1>20. ASSUME NEW j \in 1 .. (n + q), NEW k \in 1 .. (n + q), j < k
       PROVE  F[j].EntryOffset < F[k].EntryOffset
  <2>1. CASE j \in 1 .. n /\ k \in 1 .. n
    BY <1>16, <1>20, <2>1 DEF Growing
  <2>2. CASE j \in 1 .. n /\ k \notin 1 .. n
    <3>1. F[j].EntryOffset < FilesEnd /\ F[j].EntryOffset \in Nat
      BY <1>9, <1>16, <1>19, <2>2
    <3>2. F[k].EntryOffset = ends[(k - n) - 1] /\ (k - n) - 1 \in 0 .. q
      BY <1>18, <2>2
    <3>3. FilesEnd <= ends[(k - n) - 1]
      <4>1. (k - n) - 1 = 0 \/ 0 < (k - n) - 1
        <5>1. (k - n) - 1 \in Nat
          BY <1>3, <3>2
        <5> QED
          BY <5>1
      <4>2. ends[0] <= ends[(k - n) - 1]
        <5>1. 0 \in 0 .. q /\ ends[0] \in Nat /\ ends[(k - n) - 1] \in Nat
          BY <1>3, <1>12, <3>2
        <5>2. CASE (k - n) - 1 = 0
          BY <5>1, <5>2
        <5>3. CASE 0 < (k - n) - 1
          <6>1. ends[0] < ends[(k - n) - 1]
            BY <1>12, <3>2, <5>1, <5>3
          <6> QED
            BY <5>1, <6>1
        <5> QED
          BY <4>1, <5>2, <5>3
      <4> QED
        BY <1>12, <4>2
    <3> QED
      BY <1>9, <1>12, <3>1, <3>2, <3>3
  <2>3. CASE j \notin 1 .. n
    <3>1. k \notin 1 .. n
      BY <1>1, <1>20, <2>3
    <3>2. /\ F[j].EntryOffset = ends[(j - n) - 1] /\ (j - n) - 1 \in 0 .. q
          /\ F[k].EntryOffset = ends[(k - n) - 1] /\ (k - n) - 1 \in 0 .. q
      BY <1>18, <2>3, <3>1
    <3>3. (j - n) - 1 < (k - n) - 1
      BY <1>1, <1>20
    <3> QED
      BY <1>12, <3>2, <3>3
  <2> QED
    BY <2>1, <2>2, <2>3
<1>21. Growing(F)
  BY <1>15, <1>19, <1>20 DEF Growing
<1>22. ASSUME NEW k \in 1 .. q
       PROVE  /\ F[n + k].Path = s[k] /\ F[n + k].ParentDirOffset = i
              /\ F[n + k].SiblingFileOffset = IF k < q THEN n + k ELSE Invalid
  <2>1. F[n + k] = entry(k)
    BY <1>17
  <2> QED
    BY <1>13, <2>1
<1> QED
  BY <1>2, <1>3, <1>7, <1>15, <1>16, <1>21, <1>22 DEF NewFilesAre

\* Entries for the names in s come behind the first n, as children of the one at position i.
Grown(n, q, i, s, par, path, sib, par1, path1, sib1) ==
  /\ n \in Nat /\ q \in Nat
  /\ \A j \in 0 .. (n - 1) : par1[j] = par[j] /\ path1[j] = path[j] /\ sib1[j] = sib[j]
  /\ \A k \in 1 .. q : /\ par1[n + k - 1] = i /\ path1[n + k - 1] = s[k]
                       /\ sib1[n + k - 1] = IF k < q THEN n + k ELSE Invalid

KidsGrown(m, l, i, first, child, child1) ==
  /\ m \in Nat /\ l \in Nat /\ i \in 0 .. (m - 1)
  /\ \A p \in 0 .. (m - 1) : p # i => child1[p] = child[p]
  /\ child1[i] = first
  /\ \A p \in m .. (m + l - 1) : child1[p] = Invalid

\* No other entry gets children.
StayChildless(a, n, m, i, par, n1, m1, par1) ==
  \A j \in 0 .. (m1 - 1) :
    j # i /\ (j \in 0 .. (m - 1) => Kids(a, n, par, j) = {}) => Kids(a, n1, par1, j) = {}

Distinct(m, up) == \A x, y \in 0 .. (m - 1) : up[x] = up[y] => x = y
Agree(m, up, up1) == \A x \in 0 .. (m - 1) : up1[x] = up[x]
Children(C, S, parent) == C \subseteq S \ {Root} /\ Named(C) /\ \A p \in C : Parent(p) = parent
Covered(C, n, path) == \A p \in C : \E j \in 0 .. (n - 1) : path[j] = p

LEMMA GrownRows ==
  ASSUME NEW a, NEW n, NEW m, NEW par, NEW sib, NEW child, Rows(a, n, m, par, sib, child),
         NEW path, NEW q, NEW l, NEW i, Kids(a, n, par, i) = {},
         NEW s, NEW par1, NEW path1, NEW sib1, NEW child1,
         Grown(n, q, i, s, par, path, sib, par1, path1, sib1),
         KidsGrown(m, l, i, IF q = 0 THEN Invalid ELSE n, child, child1)
  PROVE  /\ Rows(a, n + q, m + l, par1, sib1, child1)
         /\ StayChildless(a, n, m, i, par, n + q, m + l, par1)
<1>1. /\ a \in Nat /\ n \in Nat /\ m \in Nat /\ a <= n
      /\ q \in Nat /\ l \in Nat /\ i \in 0 .. (m - 1)
  BY DEF Rows, Grown, KidsGrown
<1>2. \A j \in a .. (n - 1) : par1[j] = par[j] /\ sib1[j] = sib[j]
  <2>1. \A j \in a .. (n - 1) : j \in 0 .. (n - 1)
    BY <1>1
  <2> QED
    BY <2>1 DEF Grown
<1>3. ASSUME NEW j \in n .. (n + q - 1)
      PROVE  par1[j] = i /\ sib1[j] = IF j + 1 <= n + q - 1 THEN j + 1 ELSE Invalid
  <2> DEFINE k == j - n + 1
  <2>1. k \in 1 .. q /\ n + k - 1 = j /\ n + k = j + 1 /\ (k < q <=> j + 1 <= n + q - 1)
    BY <1>1
  <2> HIDE DEF k
  <2>2. par1[n + k - 1] = i /\ sib1[n + k - 1] = IF k < q THEN n + k ELSE Invalid
    BY <2>1 DEF Grown
  <2> QED
    BY <2>1, <2>2
<1>4. Rows(a, n + q, m + l, par1, sib1, child1)
  <2>1. /\ \A p \in 0 .. (m - 1) : p # i => child1[p] = child[p]
        /\ child1[i] = IF q = 0 THEN Invalid ELSE n
        /\ \A p \in m .. (m + l - 1) : child1[p] = Invalid
    BY DEF KidsGrown
  <2>2. \A j \in n .. (n + q - 1) :
          par1[j] = i /\ sib1[j] = IF j + 1 <= n + q - 1 THEN j + 1 ELSE Invalid
    BY <1>3
  <2>3. q \in Nat /\ l \in Nat /\ i \in 0 .. (m - 1)
    BY <1>1
  <2> QED
    BY <1>2, <2>1, <2>2, <2>3, RowsGrow, SMTT(60)
<1>5. ASSUME NEW j \in 0 .. ((m + l) - 1), j # i, j \in 0 .. (m - 1) => Kids(a, n, par, j) = {}
      PROVE  Kids(a, n + q, par1, j) = {}
  <2>1. ASSUME NEW k \in a .. (n + q - 1)
        PROVE  par1[k] # j
    <3>1. CASE k \in a .. (n - 1)
      <4>1. par1[k] = par[k] /\ par[k] \in 0 .. (m - 1)
        BY <1>2, <3>1 DEF Rows
      <4> QED
        BY <1>5, <3>1, <4>1 DEF Kids
    <3>2. CASE k \in n .. (n + q - 1)
      BY <1>3, <1>5, <3>2
    <3> QED
      BY <1>1, <3>1, <3>2
  <2>2. (n + q) - 1 = n + q - 1
    BY <1>1
  <2> QED
    BY <2>1, <2>2 DEF Kids
<1> QED
  BY <1>4, <1>5 DEF StayChildless

LEMMA GrownPaths ==
  ASSUME NEW a, NEW n, NEW m, NEW par, NEW sib, NEW child, Rows(a, n, m, par, sib, child),
         NEW path, NEW up, NEW S, Pathed(a, n, par, path, up, S), Distinct(m, up),
         NEW q, NEW i, i \in 0 .. (m - 1), Kids(a, n, par, i) = {},
         NEW C, Children(C, S, up[i]), NEW s, InOrder(s, C, q),
         NEW par1, NEW path1, NEW sib1, NEW up1,
         Grown(n, q, i, s, par, path, sib, par1, path1, sib1), Agree(m, up, up1)
  PROVE  Pathed(a, n + q, par1, path1, up1, S) /\ Covered(C, n + q, path1)
<1>1. a \in Nat /\ n \in Nat /\ m \in Nat /\ a <= n /\ q \in Nat
  BY DEF Rows, Grown
<1>2. \A j \in a .. (n - 1) : par1[j] = par[j] /\ path1[j] = path[j]
  <2>1. \A j \in a .. (n - 1) : j \in 0 .. (n - 1)
    BY <1>1
  <2> QED
    BY <2>1 DEF Grown
<1>3. \A k \in 1 .. q : par1[n + k - 1] = i /\ path1[n + k - 1] = s[k]
  BY DEF Grown
<1>4. \A j \in a .. (n - 1) : par[j] \in 0 .. (m - 1)
  BY DEF Rows
<1>5. Pathed(a, n + q, par1, path1, up1, S)
  <2>0. /\ C \subseteq S \ {Root} /\ Named(C) /\ \A p \in C : Parent(p) = up[i]
        /\ \A x, y \in 0 .. (m - 1) : up[x] = up[y] => x = y
        /\ \A p \in 0 .. (m - 1) : up1[p] = up[p]
    BY DEF Children, Distinct, Agree
  <2> USE <1>1, <1>2, <1>3, <1>4, <2>0
  <2>1. ASSUME NEW j \in a .. (n + q - 1), j \notin a .. (n - 1)
        PROVE  /\ j - n + 1 \in 1 .. q /\ par1[j] = i /\ path1[j] = s[j - n + 1]
               /\ path1[j] \in C
    <3> DEFINE k == j - n + 1
    <3>1. k \in 1 .. q /\ n + k - 1 = j
      BY <2>1
    <3> HIDE DEF k
    <3>2. par1[j] = i /\ path1[j] = s[k]
      BY <3>1
    <3>3. s[k] \in C
      BY <3>1 DEF InOrder
    <3> QED
      BY <3>1, <3>2, <3>3 DEF k
  <2>2. ASSUME NEW j \in a .. (n - 1)
        PROVE  par[j] # i /\ Parent(path[j]) # up[i] /\ Parent(path[j]) = up[par[j]]
    <3>1. par[j] # i
      BY DEF Kids
    <3> QED
      BY <3>1 DEF Pathed
  <2>3. ASSUME NEW j \in a .. (n + q - 1)
        PROVE  path1[j] \in S \ {Root} /\ Parent(path1[j]) = up1[par1[j]]
    <3>1. CASE j \in a .. (n - 1)
      <4>1. path1[j] = path[j] /\ par1[j] = par[j] /\ up1[par[j]] = up[par[j]]
        BY <3>1
      <4>2. path[j] \in S \ {Root} /\ Parent(path[j]) = up[par[j]]
        BY <3>1 DEF Pathed
      <4> QED
        BY <4>1, <4>2
    <3>2. CASE j \notin a .. (n - 1)
      BY <2>1, <3>2
    <3> QED
      BY <3>1, <3>2
  <2>4. ASSUME NEW x \in a .. (n + q - 1), NEW y \in a .. (n + q - 1), x # y
        PROVE  path1[x] # path1[y]
    <3>1. CASE x \in a .. (n - 1) /\ y \in a .. (n - 1)
      BY <2>4, <3>1 DEF Pathed
    <3>2. CASE x \in a .. (n - 1) /\ y \notin a .. (n - 1)
      BY <2>1, <2>2, <3>2
    <3>3. CASE x \notin a .. (n - 1) /\ y \in a .. (n - 1)
      BY <2>1, <2>2, <3>3
    <3>4. CASE x \notin a .. (n - 1) /\ y \notin a .. (n - 1)
      <4> DEFINE k == x - n + 1
                 l == y - n + 1
      <4>1. k \in 1 .. q /\ l \in 1 .. q /\ path1[x] = s[k] /\ path1[y] = s[l]
            /\ path1[x] \in C /\ path1[y] \in C
        BY <2>1, <3>4
      <4>2. k < l \/ l < k
        BY <2>4
      <4> HIDE DEF k, l
      <4>3. Last(s[k]) < Last(s[l]) \/ Last(s[l]) < Last(s[k])
        BY <4>1, <4>2 DEF InOrder
      <4>4. Last(s[k]) \in Nat /\ Last(s[l]) \in Nat
        BY <4>1 DEF Named
      <4> QED
        BY <4>1, <4>3, <4>4
    <3> QED
      BY <3>1, <3>2, <3>3, <3>4
  <2>5. ASSUME NEW x \in a .. (n + q - 1), NEW y \in a .. (n + q - 1), x < y, par1[x] = par1[y]
        PROVE  Last(path1[x]) < Last(path1[y])
    <3>1. CASE x \in a .. (n - 1) /\ y \in a .. (n - 1)
      BY <2>5, <3>1 DEF Pathed
    <3>2. CASE x \in a .. (n - 1) /\ y \notin a .. (n - 1)
      BY <2>1, <2>2, <2>5, <3>2
    <3>3. CASE x \notin a .. (n - 1)
      <4> DEFINE k == x - n + 1
                 l == y - n + 1
      <4>1. y \notin a .. (n - 1)
        BY <2>5, <3>3
      <4>2. k \in 1 .. q /\ l \in 1 .. q /\ path1[x] = s[k] /\ path1[y] = s[l]
        BY <2>1, <3>3, <4>1
      <4>3. k < l
        BY <2>5
      <4> HIDE DEF k, l
      <4> QED
        BY <4>2, <4>3 DEF InOrder
    <3> QED
      BY <3>1, <3>2, <3>3
  <2> HIDE DEF Pathed
  <2> QED
    BY <2>3, <2>4, <2>5 DEF Pathed
<1>6. ASSUME NEW p \in C
      PROVE  \E j \in 0 .. ((n + q) - 1) : path1[j] = p
  <2>1. PICK k \in 1 .. q : s[k] = p
    BY DEF InOrder
  <2>2. n + k - 1 \in 0 .. (n + q - 1) /\ path1[n + k - 1] = p
    BY <1>1, <1>3, <2>1
  <2> QED
    BY <1>1, <2>2
<1> QED
  BY <1>5, <1>6 DEF Covered

LEMMA DirsGrown ==
  ASSUME NEW i, NEW n \in Nat, n = Len(createDirs), i \in 0 .. (n - 1), NEW C, NEW q, NEW s, NEW D,
         NewDirsAre(i, n, C, q, s, D), C \subseteq Seq(Nat), NEW l, NEW m, m = Len(createFiles),
         l = 0 <=> ChildFiles(Dir(i).Path) = {}
  PROVE  /\ Grown(n, q, i, s, Pars(createDirs), Paths(createDirs), DirSibs(createDirs),
                  Pars(D), Paths(D), DirSibs(D))
         /\ KidsGrown(n, q, i, IF q = 0 THEN Invalid ELSE n, DirKids(createDirs), DirKids(D))
         /\ KidsGrown(n, q, i, IF l = 0 THEN Invalid ELSE m, FileKids(createDirs), FileKids(D))
<1>1. q \in Nat /\ Len(D) = n + q
  BY DEF NewDirsAre
<1>2. ASSUME NEW j \in 0 .. (n - 1)
      PROVE  /\ Pars(D)[j] = Pars(createDirs)[j] /\ Paths(D)[j] = Paths(createDirs)[j]
             /\ DirSibs(D)[j] = DirSibs(createDirs)[j]
             /\ j # i => /\ DirKids(D)[j] = DirKids(createDirs)[j]
                         /\ FileKids(D)[j] = FileKids(createDirs)[j]
  <2>1. j \in 0 .. (Len(D) - 1) /\ j \in 0 .. (Len(createDirs) - 1) /\ j + 1 \in 1 .. n
    BY <1>1
  <2>2. /\ D[j + 1].Path = createDirs[j + 1].Path
        /\ D[j + 1].ParentDirOffset = createDirs[j + 1].ParentDirOffset
        /\ D[j + 1].SiblingDirOffset = createDirs[j + 1].SiblingDirOffset
    BY <2>1 DEF NewDirsAre
  <2>3. j # i => D[j + 1] = createDirs[j + 1]
    <3>1. j # i => j + 1 # i + 1
      OBVIOUS
    <3> QED
      BY <2>1, <3>1 DEF NewDirsAre
  <2> QED
    BY <2>1, <2>2, <2>3 DEF Pars, Paths, DirSibs, DirKids, FileKids
<1>3. /\ DirKids(D)[i] = IF q = 0 THEN Invalid ELSE n
      /\ FileKids(D)[i] = IF l = 0 THEN Invalid ELSE m
  <2>1. i \in 0 .. (Len(D) - 1)
    BY <1>1
  <2>2. DirKids(D)[i] = D[i + 1].ChildDirOffset /\ FileKids(D)[i] = D[i + 1].ChildFileOffset
    BY <2>1 DEF DirKids, FileKids
  <2> QED
    BY <2>2 DEF NewDirsAre
<1>4. ASSUME NEW k \in 1 .. q
      PROVE  /\ Pars(D)[n + k - 1] = i /\ Paths(D)[n + k - 1] = s[k]
             /\ DirSibs(D)[n + k - 1] = IF k < q THEN n + k ELSE Invalid
             /\ DirKids(D)[n + k - 1] = Invalid /\ FileKids(D)[n + k - 1] = Invalid
  <2> DEFINE j == n + k - 1
  <2>1. j \in 0 .. (Len(D) - 1) /\ n + k = j + 1
    BY <1>1
  <2> HIDE DEF j
  <2>2. D[j + 1] = DirEntry(s[k], i, IF k < q THEN n + k ELSE Invalid)
    BY <2>1 DEF NewDirsAre
  <2>3. s[k] \in Seq(Nat)
    BY DEF NewDirsAre, InOrder
  <2>4. (IF k < q THEN n + k ELSE Invalid) \in Int
    BY <1>1 DEF Invalid
  <2>5. /\ D[j + 1].Path = s[k] /\ D[j + 1].ParentDirOffset = i
        /\ D[j + 1].SiblingDirOffset = IF k < q THEN n + k ELSE Invalid
        /\ D[j + 1].ChildDirOffset = Invalid /\ D[j + 1].ChildFileOffset = Invalid
    BY <2>2, <2>3, <2>4, DirEntryIs
  <2>6. /\ Pars(D)[j] = i /\ Paths(D)[j] = s[k]
        /\ DirSibs(D)[j] = IF k < q THEN n + k ELSE Invalid
        /\ DirKids(D)[j] = Invalid /\ FileKids(D)[j] = Invalid
    BY <2>1, <2>5 DEF Pars, Paths, DirSibs, DirKids, FileKids
  <2> QED
    BY <2>6 DEF j
<1>5. ASSUME NEW j \in n .. (n + q - 1)
      PROVE  DirKids(D)[j] = Invalid /\ FileKids(D)[j] = Invalid
  <2> DEFINE k == j - n + 1
  <2>1. k \in 1 .. q /\ n + k - 1 = j
    BY <1>1
  <2> HIDE DEF k
  <2>2. DirKids(D)[n + k - 1] = Invalid /\ FileKids(D)[n + k - 1] = Invalid
    BY <1>4, <2>1
  <2> QED
    BY <2>1, <2>2
<1>6. Grown(n, q, i, s, Pars(createDirs), Paths(createDirs), DirSibs(createDirs),
            Pars(D), Paths(D), DirSibs(D))
  BY <1>1, <1>2, <1>4 DEF Grown
<1> QED
  BY <1>1, <1>2, <1>3, <1>5, <1>6 DEF KidsGrown

LEMMA FilesGrown ==
  ASSUME NEW i, NEW n \in Nat, n = Len(createFiles), NEW C, NEW q, NEW s, NEW F,
         NewFilesAre(i, n, C, q, s, F)
  PROVE  Grown(n, q, i, s, Pars(createFiles), Paths(createFiles), FileSibs(createFiles),
               Pars(F), Paths(F), FileSibs(F))
<1>1. q \in Nat /\ Len(F) = n + q
  BY DEF NewFilesAre
<1>2. ASSUME NEW j \in 0 .. (n - 1)
      PROVE  /\ Pars(F)[j] = Pars(createFiles)[j] /\ Paths(F)[j] = Paths(createFiles)[j]
             /\ FileSibs(F)[j] = FileSibs(createFiles)[j]
  <2>1. j \in 0 .. (Len(F) - 1) /\ j \in 0 .. (Len(createFiles) - 1) /\ j + 1 \in 1 .. n
    BY <1>1
  <2>2. F[j + 1] = createFiles[j + 1]
    BY <2>1 DEF NewFilesAre
  <2> QED
    BY <2>1, <2>2 DEF Pars, Paths, FileSibs
<1>3. ASSUME NEW k \in 1 .. q
      PROVE  /\ Pars(F)[n + k - 1] = i /\ Paths(F)[n + k - 1] = s[k]
             /\ FileSibs(F)[n + k - 1] = IF k < q THEN n + k ELSE Invalid
  <2> DEFINE j == n + k - 1
  <2>1. j \in 0 .. (Len(F) - 1) /\ n + k = j + 1
    BY <1>1
  <2> HIDE DEF j
  <2>2. /\ F[j + 1].Path = s[k] /\ F[j + 1].ParentDirOffset = i
        /\ F[j + 1].SiblingFileOffset = IF k < q THEN n + k ELSE Invalid
    BY <2>1 DEF NewFilesAre
  <2>3. /\ Pars(F)[j] = i /\ Paths(F)[j] = s[k]
        /\ FileSibs(F)[j] = IF k < q THEN n + k ELSE Invalid
    BY <2>1, <2>2 DEF Pars, Paths, FileSibs
  <2> QED
    BY <2>3 DEF j
<1> QED
  BY <1>1, <1>2, <1>3 DEF Grown

\* The table with the children of the directory at position i.
ReadInto(i, D, F, n, m, q) ==
  /\ n \in Nat /\ m \in Nat /\ q \in Nat /\ i \in 0 .. (n - 1)
  /\ Table(D, F) /\ Len(D) = n + q
  /\ \E l \in Nat : Len(F) = m + l
  /\ Agree(n, Paths(createDirs), Paths(D)) /\ Agree(m, Paths(createFiles), Paths(F))
  /\ \A j \in 0 .. (Len(D) - 1) :
       j # i /\ (j \in 0 .. (n - 1) => Childless(createDirs, createFiles, j)) => Childless(D, F, j)
  /\ Covered(ChildDirs(Dir(i).Path), Len(D), Paths(D))
  /\ Covered(ChildFiles(Dir(i).Path), Len(F), Paths(F))

LEMMA ListTable ==
  ASSUME SourceInv, Table(createDirs, createFiles), NEW i \in DirPositions,
         Childless(createDirs, createFiles, i),
         NEW D, D = ListDirs(i), NEW F, F = ListFiles(i), NEW n, n = Len(createDirs),
         NEW m, m = Len(createFiles),
         NEW q, q = Cardinality(ChildDirs(Dir(i).Path))
  PROVE  ReadInto(i, D, F, n, m, q)
<1> DEFINE C == ChildDirs(Dir(i).Path)
           s == Sorted(C)
           G == ChildFiles(Dir(i).Path)
           l == Cardinality(G)
           t == Sorted(G)
<1>1. /\ createDirs \in Seq(DirEntries) /\ createFiles \in Seq(FileEntries) /\ n >= 1
      /\ createDirs[1].Path = Root /\ createDirs[1].ParentDirOffset = 0
      /\ createDirs[1].SiblingDirOffset = Invalid /\ Growing(createFiles)
  BY DEF Table
<1>2. n \in Nat /\ m \in Nat /\ i \in 0 .. (n - 1) /\ i \in Nat
  BY <1>1 DEF DirPositions
<1>3. Dir(i).Path = Paths(createDirs)[i] /\ Dir(i).Path \in source.Dirs
  BY <1>2, PathsDiffer DEF Dir, Paths
<1>4. \A j \in 1 .. m : createFiles[j].Path \in source.Files
  <2> SUFFICES ASSUME NEW j \in 1 .. m PROVE createFiles[j].Path \in source.Files
    OBVIOUS
  <2>1. j - 1 \in 0 .. (m - 1) /\ (j - 1) + 1 = j
    BY <1>2
  <2>2. Paths(createFiles)[j - 1] = createFiles[j].Path
    BY <2>1 DEF Paths
  <2>3. Paths(createFiles)[j - 1] \in source.Files
    BY <2>1 DEF Table, Pathed
  <2> QED
    BY <2>2, <2>3
<1>5. NewDirsAre(i, n, C, q, s, D)
  BY <1>1, <1>3, ListDirsAre
<1>6. NewFilesAre(i, m, G, l, t, F)
  BY <1>1, <1>3, <1>4, ListFilesAre
<1>7. l = 0 <=> ChildFiles(Dir(i).Path) = {}
  BY <1>6 DEF NewFilesAre
<1>8. \A p \in C \cup G : Parent(p) = Paths(createDirs)[i]
  BY <1>3, <1>5, <1>6 DEF NewDirsAre, NewFilesAre
<1> HIDE DEF C, s, G, l, t
<1>9. /\ q \in Nat /\ InOrder(s, C, q) /\ C \subseteq source.Dirs \ {Root} /\ Named(C)
      /\ D \in Seq(DirEntries) /\ Len(D) = n + q
  BY <1>5 DEF NewDirsAre
<1>10. /\ l \in Nat /\ InOrder(t, G, l) /\ G \subseteq source.Files \ {Root} /\ Named(G)
       /\ F \in Seq(FileEntries) /\ Len(F) = m + l /\ Growing(F)
  BY <1>6 DEF NewFilesAre
<1>11. D[1].Path = Root /\ D[1].ParentDirOffset = 0 /\ D[1].SiblingDirOffset = Invalid
  BY <1>1, <1>2, <1>5 DEF NewDirsAre
<1>12. C \subseteq Seq(Nat)
  BY <1>9 DEF SourceInv
<1>13. /\ Grown(n, q, i, s, Pars(createDirs), Paths(createDirs), DirSibs(createDirs),
                Pars(D), Paths(D), DirSibs(D))
       /\ KidsGrown(n, q, i, IF q = 0 THEN Invalid ELSE n, DirKids(createDirs), DirKids(D))
       /\ KidsGrown(n, q, i, IF l = 0 THEN Invalid ELSE m, FileKids(createDirs), FileKids(D))
  BY <1>2, <1>5, <1>7, <1>12, DirsGrown
<1>14. Grown(m, l, i, t, Pars(createFiles), Paths(createFiles), FileSibs(createFiles),
             Pars(F), Paths(F), FileSibs(F))
  BY <1>2, <1>6, FilesGrown
<1>15. /\ Rows(1, n, n, Pars(createDirs), DirSibs(createDirs), DirKids(createDirs))
       /\ Rows(0, m, n, Pars(createFiles), FileSibs(createFiles), FileKids(createDirs))
       /\ Pathed(1, n, Pars(createDirs), Paths(createDirs), Paths(createDirs), source.Dirs)
       /\ Pathed(0, m, Pars(createFiles), Paths(createFiles), Paths(createDirs), source.Files)
  BY DEF Table, DirRows, FileRows
<1>16. /\ Kids(1, n, Pars(createDirs), i) = {} /\ Kids(0, m, Pars(createFiles), i) = {}
  BY DEF Childless
<1>17. /\ Rows(1, n + q, n + q, Pars(D), DirSibs(D), DirKids(D))
       /\ StayChildless(1, n, n, i, Pars(createDirs), n + q, n + q, Pars(D))
  BY <1>13, <1>15, <1>16, GrownRows
<1>18. /\ Rows(0, m + l, n + q, Pars(F), FileSibs(F), FileKids(D))
       /\ StayChildless(0, m, n, i, Pars(createFiles), m + l, n + q, Pars(F))
  BY <1>13, <1>14, <1>15, <1>16, GrownRows
<1>19. Distinct(n, Paths(createDirs))
  BY PathsDiffer DEF Distinct
<1>20. Agree(n, Paths(createDirs), Paths(D))
  BY <1>13 DEF Grown, Agree
<1>21. Agree(m, Paths(createFiles), Paths(F))
  BY <1>14 DEF Grown, Agree
<1>22. Pathed(1, n + q, Pars(D), Paths(D), Paths(D), source.Dirs) /\ Covered(C, n + q, Paths(D))
  <2>1. Children(C, source.Dirs, Paths(createDirs)[i])
    BY <1>8, <1>9 DEF Children
  <2> QED
    BY <1>2, <1>9, <1>13, <1>15, <1>16, <1>19, <1>20, <2>1, GrownPaths
<1>23. Pathed(0, m + l, Pars(F), Paths(F), Paths(D), source.Files) /\ Covered(G, m + l, Paths(F))
  <2>1. Children(G, source.Files, Paths(createDirs)[i])
    BY <1>8, <1>10 DEF Children
  <2> QED
    BY <1>2, <1>10, <1>14, <1>15, <1>16, <1>19, <1>20, <2>1, GrownPaths
<1>24. Len(D) >= 1
  BY <1>1, <1>2, <1>9
<1>25. Table(D, F)
  BY <1>9, <1>10, <1>11, <1>17, <1>18, <1>22, <1>23, <1>24 DEF Table, DirRows, FileRows
<1>26. \A j \in 0 .. (Len(D) - 1) :
         j # i /\ (j \in 0 .. (n - 1) => Childless(createDirs, createFiles, j)) => Childless(D, F, j)
  BY <1>9, <1>10, <1>17, <1>18 DEF Childless, StayChildless
<1>27. Covered(C, Len(D), Paths(D)) /\ Covered(G, Len(F), Paths(F))
  BY <1>9, <1>10, <1>22, <1>23
<1> QED
  BY <1>2, <1>9, <1>10, <1>20, <1>21, <1>25, <1>26, <1>27 DEF C, G, ReadInto

-----------------------------------------------------------------------------
(* What is still to be read stands on the stack                            *)

ListElements == [EntryOffset : Nat, ChildIndex : Int, ChildOffset : Seq(Nat)]

\* The directories an element of the stack stands for that are still to be read.
Pending(s) ==
  IF s.ChildIndex = -1 THEN {s.EntryOffset}
  ELSE {s.ChildOffset[k] : k \in (s.ChildIndex + 1) .. Len(s.ChildOffset)}

GoodElement(s) ==
  /\ s \in ListElements /\ s.ChildIndex \in -1 .. Len(s.ChildOffset)
  /\ \A k, l \in 1 .. Len(s.ChildOffset) : s.ChildOffset[k] = s.ChildOffset[l] => k = l

ReadAlready(D, F, j) ==
  /\ Covered(ChildDirs(Paths(D)[j]), Len(D), Paths(D))
  /\ Covered(ChildFiles(Paths(D)[j]), Len(F), Paths(F))

Listed(D, F, st) ==
  /\ Table(D, F)
  /\ st \in Seq(ListElements)
  /\ \A x \in 1 .. Len(st) : GoodElement(st[x])
  /\ \A x \in 1 .. Len(st) : \A p \in Pending(st[x]) : p \in 0 .. (Len(D) - 1) /\ Childless(D, F, p)
  /\ \A x, y \in 1 .. Len(st) : x # y => Pending(st[x]) \cap Pending(st[y]) = {}
  /\ \A j \in 0 .. (Len(D) - 1) :
       (\A x \in 1 .. Len(st) : j \notin Pending(st[x])) => ReadAlready(D, F, j)

\* Elements come in the place of the one on top.
Replaced(t, w, st) ==
  /\ Len(t) = Len(w) + Len(st) - 1
  /\ \A x \in 1 .. Len(w) : t[x] = w[x]
  /\ \A y \in 2 .. Len(st) : t[Len(w) + y - 1] = st[y]

LEMMA ReplacedIs ==
  ASSUME NEW S, NEW st \in Seq(S), st # <<>>, NEW w \in Seq(S), NEW t, t = w \o Tail(st)
  PROVE  t \in Seq(S) /\ Replaced(t, w, st)
<1>1. Len(st) \in Nat \ {0} /\ Len(w) \in Nat
  OBVIOUS
<1>2. Tail(st) \in Seq(S) /\ Len(Tail(st)) = Len(st) - 1
      /\ \A k \in 1 .. (Len(st) - 1) : Tail(st)[k] = st[k + 1]
  BY <1>1
<1> DEFINE u == Tail(st)
<1> HIDE DEF u
<1>3. u \in Seq(S) /\ Len(u) = Len(st) - 1 /\ t = w \o u
      /\ \A k \in 1 .. (Len(st) - 1) : u[k] = st[k + 1]
  BY <1>2 DEF u
<1>4. /\ t \in Seq(S) /\ Len(t) = Len(w) + (Len(st) - 1)
      /\ \A j \in 1 .. Len(w) : t[j] = w[j]
      /\ \A k \in 1 .. Len(u) : t[Len(w) + k] = u[k]
  BY <1>3, Joined
<1>5. ASSUME NEW y \in 2 .. Len(st)
      PROVE  t[Len(w) + y - 1] = st[y]
  <2> DEFINE k == y - 1
  <2>1. k \in 1 .. (Len(st) - 1) /\ k + 1 = y
    BY <1>1
  <2>2. t[Len(w) + k] = st[y]
    BY <1>3, <1>4, <2>1
  <2>3. Len(w) + k = Len(w) + y - 1
    BY <1>1
  <2> QED
    BY <2>2, <2>3
<1> QED
  BY <1>1, <1>4, <1>5 DEF Replaced

\* What the elements in w stand for, and what may change in a table, when they come in the
\* place of the one on top.
Instead(D, F, st, D1, F1, w) ==
  LET n == Len(D)
      n1 == Len(D1)
  IN /\ n <= n1
     /\ \A x \in 1 .. Len(w) : GoodElement(w[x])
     /\ \A x \in 1 .. Len(w) : \A p \in Pending(w[x]) :
          /\ p \in 0 .. (n1 - 1) /\ Childless(D1, F1, p)
          /\ p \in Pending(st[1]) \/ p \in n .. (n1 - 1)
     /\ \A x, y \in 1 .. Len(w) : x # y => Pending(w[x]) \cap Pending(w[y]) = {}
     /\ \A j \in 0 .. (n - 1) : j \notin Pending(st[1]) /\ Childless(D, F, j) => Childless(D1, F1, j)
     /\ \A j \in 0 .. (n - 1) : ReadAlready(D, F, j) => ReadAlready(D1, F1, j)
     /\ \A j \in 0 .. (n1 - 1) :
          (j \in Pending(st[1]) \/ j \in n .. (n1 - 1))
            /\ (\A x \in 1 .. Len(w) : j \notin Pending(w[x])) => ReadAlready(D1, F1, j)

LEMMA ListedAgain ==
  ASSUME NEW D, NEW F, NEW st, Listed(D, F, st), st # <<>>, NEW D1, NEW F1, Table(D1, F1),
         NEW w, w \in Seq(ListElements), NEW t, t \in Seq(ListElements), Replaced(t, w, st),
         Instead(D, F, st, D1, F1, w)
  PROVE  Listed(D1, F1, t)
<1> DEFINE n == Len(D)
           n1 == Len(D1)
<1>0. /\ n <= n1
      /\ \A x \in 1 .. Len(w) : GoodElement(w[x])
      /\ \A x \in 1 .. Len(w) : \A p \in Pending(w[x]) :
           /\ p \in 0 .. (n1 - 1) /\ Childless(D1, F1, p)
           /\ p \in Pending(st[1]) \/ p \in n .. (n1 - 1)
      /\ \A x, y \in 1 .. Len(w) : x # y => Pending(w[x]) \cap Pending(w[y]) = {}
      /\ \A j \in 0 .. (n - 1) : j \notin Pending(st[1]) /\ Childless(D, F, j) => Childless(D1, F1, j)
      /\ \A j \in 0 .. (n - 1) : ReadAlready(D, F, j) => ReadAlready(D1, F1, j)
      /\ \A j \in 0 .. (n1 - 1) :
           (j \in Pending(st[1]) \/ j \in n .. (n1 - 1))
             /\ (\A x \in 1 .. Len(w) : j \notin Pending(w[x])) => ReadAlready(D1, F1, j)
  BY DEF Instead
<1> USE <1>0
<1>1. /\ n \in Nat /\ n1 \in Nat /\ Len(w) \in Nat /\ Len(st) \in Nat \ {0} /\ Len(t) \in Nat
      /\ 1 \in 1 .. Len(st)
  BY DEF Listed, Table
<1>2. ASSUME NEW x \in 1 .. Len(t)
      PROVE  \/ x \in 1 .. Len(w) /\ t[x] = w[x]
             \/ \E y \in 2 .. Len(st) : x = Len(w) + y - 1 /\ t[x] = st[y]
  <2>1. CASE x <= Len(w)
    BY <1>1, <2>1 DEF Replaced
  <2>2. CASE ~(x <= Len(w))
    <3>1. x - Len(w) + 1 \in 2 .. Len(st) /\ x = Len(w) + (x - Len(w) + 1) - 1
      BY <1>1, <2>2 DEF Replaced
    <3> QED
      BY <3>1 DEF Replaced
  <2> QED
    BY <2>1, <2>2
<1>3. ASSUME NEW y \in 2 .. Len(st), NEW p \in Pending(st[y])
      PROVE  /\ y \in 1 .. Len(st) /\ p \in 0 .. (n - 1) /\ p \in 0 .. (n1 - 1)
             /\ p \notin Pending(st[1]) /\ p \notin n .. (n1 - 1)
             /\ Childless(D1, F1, p)
  <2>1. y \in 1 .. Len(st) /\ y # 1
    BY <1>1
  <2>2. p \in 0 .. (n - 1) /\ Childless(D, F, p) /\ p \notin Pending(st[1])
    BY <1>1, <2>1 DEF Listed
  <2>3. p \in 0 .. (n1 - 1) /\ p \notin n .. (n1 - 1)
    BY <1>1, <2>2
  <2> QED
    BY <2>1, <2>2, <2>3
<1>4. ASSUME NEW x \in 1 .. Len(t)
      PROVE  GoodElement(t[x]) /\ \A p \in Pending(t[x]) : p \in 0 .. (n1 - 1) /\ Childless(D1, F1, p)
  <2>1. CASE x \in 1 .. Len(w) /\ t[x] = w[x]
    BY <2>1
  <2>2. ASSUME NEW y \in 2 .. Len(st), t[x] = st[y]
        PROVE  GoodElement(t[x]) /\ \A p \in Pending(t[x]) : p \in 0 .. (n1 - 1) /\ Childless(D1, F1, p)
    <3>1. y \in 1 .. Len(st)
      BY <1>1
    <3> QED
      BY <1>3, <2>2, <3>1 DEF Listed
  <2> QED
    BY <1>2, <2>1, <2>2
<1>5. ASSUME NEW x \in 1 .. Len(t), NEW y \in 1 .. Len(t), x # y,
             NEW p \in Pending(t[x]), p \in Pending(t[y])
      PROVE  FALSE
  <2>1. CASE x \in 1 .. Len(w) /\ t[x] = w[x]
    <3>1. CASE y \in 1 .. Len(w) /\ t[y] = w[y]
      BY <1>5, <2>1, <3>1
    <3>2. CASE \E z \in 2 .. Len(st) : y = Len(w) + z - 1 /\ t[y] = st[z]
      BY <1>3, <1>5, <2>1, <3>2
    <3> QED
      BY <1>2, <3>1, <3>2
  <2>2. CASE \E z \in 2 .. Len(st) : x = Len(w) + z - 1 /\ t[x] = st[z]
    <3>1. CASE y \in 1 .. Len(w) /\ t[y] = w[y]
      BY <1>3, <1>5, <2>2, <3>1
    <3>2. CASE \E z \in 2 .. Len(st) : y = Len(w) + z - 1 /\ t[y] = st[z]
      <4>1. PICK v \in 2 .. Len(st) : x = Len(w) + v - 1 /\ t[x] = st[v]
        BY <2>2
      <4>2. PICK z \in 2 .. Len(st) : y = Len(w) + z - 1 /\ t[y] = st[z]
        BY <3>2
      <4>3. v # z /\ v \in 1 .. Len(st) /\ z \in 1 .. Len(st)
        <5>1. v # z
          BY <1>5, <4>1, <4>2
        <5>2. v \in 1 .. Len(st) /\ z \in 1 .. Len(st)
          BY <1>1
        <5> QED
          BY <5>1, <5>2
      <4> QED
        BY <1>5, <4>1, <4>2, <4>3 DEF Listed
    <3> QED
      BY <1>2, <3>1, <3>2
  <2> QED
    BY <1>2, <2>1, <2>2
<1>6. ASSUME NEW j \in 0 .. (n1 - 1), \A x \in 1 .. Len(t) : j \notin Pending(t[x])
      PROVE  ReadAlready(D1, F1, j)
  <2>1. \A x \in 1 .. Len(w) : j \notin Pending(w[x])
    <3>1. \A x \in 1 .. Len(w) : x \in 1 .. Len(t) /\ t[x] = w[x]
      BY <1>1 DEF Replaced
    <3> QED
      BY <1>6, <3>1
  <2>2. CASE j \in Pending(st[1]) \/ j \in n .. (n1 - 1)
    BY <2>1, <2>2
  <2>3. CASE j \notin Pending(st[1]) /\ j \in 0 .. (n - 1)
    <3>1. ASSUME NEW y \in 1 .. Len(st)
          PROVE  j \notin Pending(st[y])
      <4>1. CASE y = 1
        BY <2>3, <4>1
      <4>2. CASE y # 1
        <5>1. y \in 2 .. Len(st) /\ Len(w) + y - 1 \in 1 .. Len(t)
          BY <1>1, <4>2 DEF Replaced
        <5>2. t[Len(w) + y - 1] = st[y]
          BY <5>1 DEF Replaced
        <5> QED
          BY <1>6, <5>1, <5>2
      <4> QED
        BY <4>1, <4>2
    <3>2. ReadAlready(D, F, j)
      BY <2>3, <3>1 DEF Listed
    <3> QED
      BY <2>3, <3>2
  <2> QED
    BY <1>1, <2>2, <2>3
<1>7. \A x, y \in 1 .. Len(t) : x # y => Pending(t[x]) \cap Pending(t[y]) = {}
  BY <1>5
<1>8. /\ \A x \in 1 .. Len(t) : GoodElement(t[x])
      /\ \A x \in 1 .. Len(t) : \A p \in Pending(t[x]) : p \in 0 .. (n1 - 1) /\ Childless(D1, F1, p)
  BY <1>4
<1> QED
  BY <1>6, <1>7, <1>8 DEF Listed

LEMMA UnreadIs ==
  ASSUME NEW p \in Nat
  PROVE  /\ Unread(p) \in ListElements /\ GoodElement(Unread(p)) /\ Pending(Unread(p)) = {p}
BY DEF Unread, ListElements, GoodElement, Pending

LEMMA FirstListed ==
  ASSUME SourceInv, NEW D, D = <<DirEntry(Root, 0, Invalid)>>, NEW st, st = <<Unread(0)>>
  PROVE  Listed(D, <<>>, st)
<1> DEFINE e == DirEntry(Root, 0, Invalid)
<1>1. Root \in Seq(Nat) /\ 0 \in Int /\ Invalid \in Int
  BY DEF Root, Invalid
<1>2. /\ e \in DirEntries /\ e.Path = Root /\ e.ParentDirOffset = 0
      /\ e.SiblingDirOffset = Invalid
      /\ e.ChildDirOffset = Invalid /\ e.ChildFileOffset = Invalid
  BY <1>1, DirEntryIs
<1> HIDE DEF e
<1>3. D = <<e>>
  BY DEF e
<1>4. D \in Seq(DirEntries) /\ Len(D) = 1 /\ D[1] = e
  BY <1>2, <1>3
<1>5. <<>> \in Seq(FileEntries) /\ Len(<<>>) = 0
  OBVIOUS
<1> DEFINE F == <<>>
<1>6. F \in Seq(FileEntries) /\ Len(F) = 0
  BY <1>5
<1> HIDE DEF F
<1>7. DirKids(D)[0] = Invalid /\ FileKids(D)[0] = Invalid
  BY <1>2, <1>4 DEF DirKids, FileKids
<1>8. Rows(1, 1, 1, Pars(D), DirSibs(D), DirKids(D))
  <2>1. 1 .. (1 - 1) = {} /\ 0 .. (1 - 1) = {0}
    OBVIOUS
  <2> QED
    BY <1>7, <2>1 DEF Rows, Kids, IsFirst
<1>9. Rows(0, 0, 1, Pars(F), FileSibs(F), FileKids(D))
  <2>1. 0 .. (0 - 1) = {} /\ 0 .. (1 - 1) = {0}
    OBVIOUS
  <2> QED
    BY <1>7, <2>1 DEF Rows, Kids, IsFirst
<1>10. Pathed(1, 1, Pars(D), Paths(D), Paths(D), source.Dirs)
  <2>1. 1 .. (1 - 1) = {}
    OBVIOUS
  <2> QED
    BY <2>1 DEF Pathed
<1>11. Pathed(0, 0, Pars(F), Paths(F), Paths(D), source.Files)
  <2>1. 0 .. (0 - 1) = {}
    OBVIOUS
  <2> QED
    BY <2>1 DEF Pathed
<1>12. Growing(F)
  BY <1>6 DEF Growing
<1>13. Table(D, F)
  BY <1>2, <1>4, <1>6, <1>8, <1>9, <1>10, <1>11, <1>12 DEF Table, DirRows, FileRows
<1>14. /\ Unread(0) \in ListElements /\ GoodElement(Unread(0)) /\ Pending(Unread(0)) = {0}
  BY UnreadIs
<1>15. /\ st \in Seq(ListElements) /\ Len(st) = 1 /\ st[1] = Unread(0)
  BY <1>14
<1>16. Childless(D, F, 0)
  BY <1>4, <1>6 DEF Childless, Kids
<1>17. \A x \in 1 .. Len(st) : x = 1
  BY <1>15
<1>18. Listed(D, F, st)
  <2>1. \A x \in 1 .. Len(st) : GoodElement(st[x])
    BY <1>14, <1>15, <1>17
  <2>2. \A x \in 1 .. Len(st) : \A p \in Pending(st[x]) : p \in 0 .. (Len(D) - 1) /\ Childless(D, F, p)
    BY <1>4, <1>14, <1>15, <1>16, <1>17
  <2>3. \A x, y \in 1 .. Len(st) : x # y => Pending(st[x]) \cap Pending(st[y]) = {}
    BY <1>17
  <2>4. \A j \in 0 .. (Len(D) - 1) :
          (\A x \in 1 .. Len(st) : j \notin Pending(st[x])) => ReadAlready(D, F, j)
    <3>1. \A j \in 0 .. (Len(D) - 1) : j = 0
      BY <1>4
    <3>2. 1 \in 1 .. Len(st)
      BY <1>15
    <3> QED
      BY <1>14, <1>15, <3>1, <3>2
  <2> QED
    BY <1>13, <1>15, <2>1, <2>2, <2>3, <2>4 DEF Listed
<1> QED
  BY <1>18 DEF F

LEMMA ElementIs ==
  ASSUME NEW i \in Nat, NEW c \in Int, NEW o \in Seq(Nat)
  PROVE  LET e == [EntryOffset |-> i, ChildIndex |-> c, ChildOffset |-> o] IN
         /\ e \in ListElements /\ e.EntryOffset = i /\ e.ChildIndex = c /\ e.ChildOffset = o
BY DEF ListElements

LEMMA ReadListed ==
  ASSUME SourceInv, Listed(createDirs, createFiles, stack), stack # <<>>, Top.ChildIndex = -1,
         NEW i, i = Top.EntryOffset, NEW D, D = ListDirs(i), NEW F, F = ListFiles(i),
         NEW t,
         t = <<[EntryOffset |-> i, ChildIndex |-> 0,
                ChildOffset |-> [k \in 1 .. Cardinality(ChildDirs(Dir(i).Path)) |->
                                   Len(createDirs) + k - 1]]>> \o Tail(stack)
  PROVE  Listed(D, F, t)
<1> DEFINE n == Len(createDirs)
           m == Len(createFiles)
           q == Cardinality(ChildDirs(Dir(i).Path))
           n1 == Len(D)
<1>1. Table(createDirs, createFiles) /\ stack \in Seq(ListElements)
  BY DEF Listed
<1>2. Top = stack[1] /\ 1 \in 1 .. Len(stack)
  BY <1>1 DEF Top
<1>3. stack[1] \in ListElements /\ Pending(stack[1]) = {i}
  BY <1>1, <1>2 DEF Pending
<1>4. i \in Nat /\ i \in 0 .. (n - 1) /\ Childless(createDirs, createFiles, i)
  BY <1>1, <1>2, <1>3 DEF Listed, ListElements, Table
<1>5. i \in DirPositions
  BY <1>4 DEF DirPositions
<1>5a. ReadInto(i, D, F, n, m, q)
  BY <1>1, <1>4, <1>5, ListTable
<1>6. /\ n \in Nat /\ m \in Nat /\ q \in Nat /\ i \in 0 .. (n - 1)
      /\ Table(D, F) /\ Len(D) = n + q
      /\ \E l \in Nat : Len(F) = m + l
      /\ Agree(n, Paths(createDirs), Paths(D)) /\ Agree(m, Paths(createFiles), Paths(F))
  BY <1>5a DEF ReadInto
<1>6a. /\ \A j \in 0 .. (Len(D) - 1) :
            j # i /\ (j \in 0 .. (n - 1) => Childless(createDirs, createFiles, j)) => Childless(D, F, j)
       /\ Covered(ChildDirs(Dir(i).Path), Len(D), Paths(D))
       /\ Covered(ChildFiles(Dir(i).Path), Len(F), Paths(F))
  BY <1>5a DEF ReadInto
<1>6b. n \in Nat /\ q \in Nat
  BY <1>6
<1> DEFINE new == [k \in 1 .. q |-> n + k - 1]
<1>7. new \in Seq(Nat) /\ Len(new) = q /\ \A k \in 1 .. q : new[k] = n + k - 1
  <2> HIDE DEF n, q
  <2>1. \A k \in 1 .. q : n + k - 1 \in Nat
    BY <1>6b
  <2> QED
    BY <1>6b, <2>1
<1> DEFINE e == [EntryOffset |-> i, ChildIndex |-> 0, ChildOffset |-> new]
<1>8. t = <<e>> \o Tail(stack)
  OBVIOUS
<1> HIDE DEF new, n, m, q
<1>9. /\ e \in ListElements /\ e.ChildIndex = 0 /\ e.ChildOffset = new
  <2>1. i \in Nat /\ 0 \in Int /\ new \in Seq(Nat)
    BY <1>4, <1>7
  <2> QED
    BY <2>1, ElementIs, Zenon
<1> HIDE DEF e
<1>10. GoodElement(e)
  <2>1. \A k, l \in 1 .. q : new[k] = new[l] => k = l
    BY <1>6b, <1>7
  <2> QED
    BY <1>6b, <1>7, <1>9, <2>1 DEF GoodElement
<1>11. Pending(e) = n .. (n1 - 1)
  <2>1. Pending(e) = {new[k] : k \in 1 .. q}
    <3>1. e.ChildIndex # -1 /\ e.ChildIndex + 1 = 1 /\ Len(e.ChildOffset) = q
      BY <1>7, <1>9
    <3> QED
      BY <1>9, <3>1 DEF Pending
  <2>2. ASSUME NEW p
        PROVE  p \in {new[k] : k \in 1 .. q} <=> p \in n .. (n1 - 1)
    <3>1. ASSUME NEW k \in 1 .. q
          PROVE  new[k] \in n .. (n1 - 1)
      BY <1>6, <1>7
    <3>2. ASSUME p \in n .. (n1 - 1)
          PROVE  \E k \in 1 .. q : new[k] = p
      <4>1. p - n + 1 \in 1 .. q /\ n + (p - n + 1) - 1 = p
        BY <1>6, <3>2
      <4> QED
        BY <1>7, <4>1
    <3> QED
      BY <3>1, <3>2
  <2> QED
    BY <2>1, <2>2
<1> DEFINE w == <<e>>
<1>12. w \in Seq(ListElements) /\ Len(w) = 1 /\ w[1] = e
  BY <1>9
<1> HIDE DEF w
<1>13. t \in Seq(ListElements) /\ Replaced(t, w, stack)
  BY <1>1, <1>8, <1>12, ReplacedIs DEF w
<1>14. n <= n1 /\ n1 \in Nat
  BY <1>6
<1>15. \A x \in 1 .. Len(w) : x = 1
  BY <1>12
<1>16. \A p \in n .. (n1 - 1) : p \in 0 .. (n1 - 1) /\ p # i /\ p \notin 0 .. (n - 1)
  BY <1>4, <1>6 DEF n
<1>17. \A x \in 1 .. Len(w) : \A p \in Pending(w[x]) :
         /\ p \in 0 .. (n1 - 1) /\ Childless(D, F, p)
         /\ p \in Pending(stack[1]) \/ p \in n .. (n1 - 1)
  BY <1>6a, <1>11, <1>12, <1>15, <1>16
<1>18. \A j \in 0 .. (n - 1) :
         j \notin Pending(stack[1]) /\ Childless(createDirs, createFiles, j) => Childless(D, F, j)
  <2>1. \A j \in 0 .. (n - 1) : j \in 0 .. (n1 - 1)
    BY <1>6
  <2> QED
    BY <1>3, <1>6a, <2>1
<1>19. ASSUME NEW C, NEW N1 \in Nat, NEW N2 \in Nat, N1 <= N2, NEW p1, NEW p2, Agree(N1, p1, p2), Covered(C, N1, p1)
       PROVE  Covered(C, N2, p2)
  <2> SUFFICES ASSUME NEW p \in C PROVE \E j \in 0 .. (N2 - 1) : p2[j] = p
    BY DEF Covered
  <2>1. PICK j \in 0 .. (N1 - 1) : p1[j] = p
    BY <1>19 DEF Covered
  <2>2. j \in 0 .. (N2 - 1) /\ p2[j] = p
    BY <1>19, <2>1 DEF Agree
  <2> QED
    BY <2>2
<1>20. ASSUME NEW j \in 0 .. (n - 1), ReadAlready(createDirs, createFiles, j)
       PROVE  ReadAlready(D, F, j)
  <2>1. Paths(D)[j] = Paths(createDirs)[j]
    BY <1>6 DEF Agree
  <2>2. m <= Len(F) /\ Len(F) \in Nat
    BY <1>6
  <2>3. Covered(ChildDirs(Paths(D)[j]), Len(D), Paths(D))
    BY <1>6, <1>14, <1>19, <1>20, <2>1 DEF ReadAlready, n
  <2>4. Covered(ChildFiles(Paths(D)[j]), Len(F), Paths(F))
    BY <1>6, <1>19, <1>20, <2>1, <2>2 DEF ReadAlready, m
  <2> QED
    BY <2>3, <2>4 DEF ReadAlready
<1>21. ReadAlready(D, F, i)
  <2>1. Dir(i).Path = Paths(createDirs)[i]
    BY <1>4 DEF Dir, Paths, n
  <2>2. Paths(D)[i] = Dir(i).Path
    BY <1>4, <1>6, <2>1 DEF Agree
  <2> QED
    BY <1>6a, <2>2 DEF ReadAlready
<1>22. \A j \in 0 .. (n1 - 1) :
         (j \in Pending(stack[1]) \/ j \in n .. (n1 - 1))
           /\ (\A x \in 1 .. Len(w) : j \notin Pending(w[x])) => ReadAlready(D, F, j)
  <2>1. 1 \in 1 .. Len(w) /\ Pending(w[1]) = n .. (n1 - 1) /\ Pending(stack[1]) = {i}
    BY <1>3, <1>11, <1>12
  <2> HIDE DEF n1
  <2> QED
    BY <1>21, <2>1
<1>23. \A x \in 1 .. Len(w) : GoodElement(w[x])
  BY <1>10, <1>12, <1>15
<1>24. \A x, y \in 1 .. Len(w) : x # y => Pending(w[x]) \cap Pending(w[y]) = {}
  BY <1>15
<1>25. \A j \in 0 .. (n - 1) : ReadAlready(createDirs, createFiles, j) => ReadAlready(D, F, j)
  BY <1>20
<1>26. Instead(createDirs, createFiles, stack, D, F, w)
  BY <1>14, <1>17, <1>18, <1>22, <1>23, <1>24, <1>25 DEF n, Instead
<1> QED
  BY <1>6, <1>12, <1>13, <1>26, ListedAgain

LEMMA NextListed ==
  ASSUME NEW D, NEW F, NEW st, Listed(D, F, st), st # <<>>, st[1].ChildIndex # -1,
         NEW t, t = IF st[1].ChildIndex # Len(st[1].ChildOffset)
                    THEN <<Unread(st[1].ChildOffset[st[1].ChildIndex + 1]),
                           [st[1] EXCEPT !.ChildIndex = @ + 1]>> \o Tail(st)
                    ELSE Tail(st)
  PROVE  Listed(D, F, t)
<1> DEFINE top == st[1]
           c == top.ChildIndex
           o == top.ChildOffset
           a == Unread(o[c + 1])
           b == [top EXCEPT !.ChildIndex = @ + 1]
           w == IF c # Len(o) THEN <<a, b>> ELSE <<>>
           P == {o[k] : k \in (c + 1) .. Len(o)}
<1>1. Table(D, F) /\ st \in Seq(ListElements) /\ 1 \in 1 .. Len(st) /\ top \in ListElements
  BY DEF Listed
<1>2. /\ o \in Seq(Nat) /\ Len(o) \in Nat /\ c \in 0 .. Len(o) /\ c \in Int
      /\ top.EntryOffset \in Nat
      /\ \A k, l \in 1 .. Len(o) : o[k] = o[l] => k = l
  <2>1. GoodElement(top)
    BY <1>1 DEF Listed
  <2>2. top.ChildOffset \in Seq(Nat) /\ top.ChildIndex \in Int /\ top.EntryOffset \in Nat
    BY <1>1 DEF ListElements
  <2>3. Len(o) \in Nat
    BY <2>2
  <2>4. c \in -1 .. Len(o) /\ \A k, l \in 1 .. Len(o) : o[k] = o[l] => k = l
    BY <2>1 DEF GoodElement
  <2>5. c # -1
    OBVIOUS
  <2> HIDE DEF c, o
  <2>6. c \in 0 .. Len(o) /\ c \in Int
    BY <2>3, <2>4, <2>5
  <2> QED
    BY <2>2, <2>3, <2>4, <2>6 DEF o, c
<1>3. Pending(top) = P
  BY DEF Pending
<1>4. top = [EntryOffset |-> top.EntryOffset, ChildIndex |-> c, ChildOffset |-> o]
  BY <1>1 DEF ListElements
<1>5. b = [EntryOffset |-> top.EntryOffset, ChildIndex |-> c + 1, ChildOffset |-> o]
  BY <1>4
<1>6. t = w \o Tail(st)
  <2> DEFINE u == Tail(st)
  <2>1. u \in Seq(ListElements)
    BY <1>1
  <2>2. t = IF c # Len(o) THEN <<a, b>> \o u ELSE u
    OBVIOUS
  <2> HIDE DEF u, a, b, c, o
  <2>3. <<>> \o u = u
    BY <2>1
  <2> QED
    BY <2>2, <2>3 DEF u
<1> HIDE DEF top, c, o, a, b
<1>7. b \in ListElements /\ b.ChildIndex = c + 1 /\ b.ChildOffset = o
  <2>1. top.EntryOffset \in Nat /\ c + 1 \in Int /\ o \in Seq(Nat)
    BY <1>2
  <2> QED
    BY <1>5, <2>1, ElementIs
<1>8. c # Len(o) => /\ o[c + 1] \in Nat /\ c + 1 \in 1 .. Len(o)
                    /\ a \in ListElements /\ GoodElement(a) /\ Pending(a) = {o[c + 1]}
  <2> SUFFICES ASSUME c # Len(o)
               PROVE  /\ o[c + 1] \in Nat /\ c + 1 \in 1 .. Len(o)
                      /\ a \in ListElements /\ GoodElement(a) /\ Pending(a) = {o[c + 1]}
    OBVIOUS
  <2>1. c + 1 \in 1 .. Len(o)
    BY <1>2
  <2>2. o[c + 1] \in Nat
    BY <1>2, <2>1
  <2> QED
    BY <2>1, <2>2, UnreadIs DEF a
<1>9. c # Len(o) => GoodElement(b) /\ Pending(b) = {o[k] : k \in (c + 2) .. Len(o)}
  <2> SUFFICES ASSUME c # Len(o)
               PROVE  GoodElement(b) /\ Pending(b) = {o[k] : k \in (c + 2) .. Len(o)}
    OBVIOUS
  <2>1. c + 1 \in -1 .. Len(o) /\ c + 1 # -1 /\ (c + 1) + 1 = c + 2
    BY <1>2
  <2> QED
    BY <1>2, <1>7, <2>1 DEF GoodElement, Pending
<1>10. /\ w \in Seq(ListElements)
       /\ \A x \in 1 .. Len(w) : c # Len(o) /\ ((x = 1 /\ w[x] = a) \/ (x = 2 /\ w[x] = b))
       /\ c # Len(o) => Len(w) = 2 /\ w[1] = a /\ w[2] = b
  <2>1. CASE c # Len(o)
    <3>1. w = <<a, b>> /\ a \in ListElements /\ b \in ListElements
      BY <1>7, <1>8, <2>1
    <3> QED
      BY <2>1, <3>1
  <2>2. CASE c = Len(o)
    <3>1. w = <<>>
      BY <2>2
    <3> QED
      BY <2>2, <3>1
  <2> QED
    BY <2>1, <2>2
<1> HIDE DEF w
<1>11. t \in Seq(ListElements) /\ Replaced(t, w, st)
  BY <1>1, <1>6, <1>10, ReplacedIs
<1>12. \A p \in P : p \in 0 .. (Len(D) - 1) /\ Childless(D, F, p)
  BY <1>1, <1>3 DEF Listed, top
<1> DEFINE R == {o[k] : k \in (c + 2) .. Len(o)}
<1>13. c # Len(o) => o[c + 1] \in P /\ R \subseteq P /\ P \subseteq R \cup {o[c + 1]} /\ o[c + 1] \notin R
  <2> SUFFICES ASSUME c # Len(o)
               PROVE  o[c + 1] \in P /\ R \subseteq P /\ P \subseteq R \cup {o[c + 1]} /\ o[c + 1] \notin R
    OBVIOUS
  <2>1. c + 1 \in (c + 1) .. Len(o) /\ c + 1 \in 1 .. Len(o)
    BY <1>2
  <2>2. \A k \in (c + 2) .. Len(o) : k \in (c + 1) .. Len(o) /\ k # c + 1 /\ k \in 1 .. Len(o)
    BY <1>2
  <2>3. \A k \in (c + 1) .. Len(o) : k = c + 1 \/ k \in (c + 2) .. Len(o)
    BY <1>2
  <2> HIDE <1>3
  <2> QED
    BY <1>2, <2>1, <2>2, <2>3
<1>14. c = Len(o) => P = {}
  BY <1>2
<1> HIDE DEF P, R
<1>15. Pending(st[1]) = P
  BY <1>3 DEF top
<1>16. Len(D) \in Nat /\ Len(D) <= Len(D) /\ \A j : j \notin Len(D) .. (Len(D) - 1)
  BY <1>1 DEF Table
<1>17. \A x \in 1 .. Len(w) : GoodElement(w[x])
  BY <1>8, <1>9, <1>10
<1>18. \A x \in 1 .. Len(w) : \A p \in Pending(w[x]) : p \in P
  BY <1>8, <1>9, <1>10, <1>13 DEF R
<1>19. \A x, y \in 1 .. Len(w) : x # y => Pending(w[x]) \cap Pending(w[y]) = {}
  BY <1>8, <1>9, <1>10, <1>13 DEF R
<1>20. \A j \in P : \E x \in 1 .. Len(w) : j \in Pending(w[x])
  <2> SUFFICES ASSUME NEW j \in P PROVE \E x \in 1 .. Len(w) : j \in Pending(w[x])
    OBVIOUS
  <2>1. c # Len(o) /\ 1 \in 1 .. Len(w) /\ 2 \in 1 .. Len(w)
    BY <1>10, <1>14
  <2>2. Pending(w[1]) = {o[c + 1]} /\ Pending(w[2]) = R
    BY <1>8, <1>9, <1>10, <2>1 DEF R
  <2> QED
    BY <1>13, <2>1, <2>2
<1>21. Instead(D, F, st, D, F, w)
  BY <1>12, <1>15, <1>16, <1>17, <1>18, <1>19, <1>20 DEF Instead
<1> QED
  BY <1>1, <1>10, <1>11, <1>21, ListedAgain

-----------------------------------------------------------------------------
(* removeDirEntry                                                          *)

LEMMA SubIs ==
  ASSUME NEW x \in Int, NEW r \in Int
  PROVE  SubDirOffset(x, r) \in Int
BY DEF SubDirOffset

\* A table with other links: the sibling of the entry at index k and the child of the one
\* at l, 0 for none.
Relinked(D, U, k, l, v) ==
  /\ U \in Seq(DirEntries) /\ Len(U) = Len(D)
  /\ \A j \in 1 .. Len(D) :
       /\ U[j].Path = D[j].Path /\ U[j].ParentDirOffset = D[j].ParentDirOffset
       /\ U[j].SiblingDirOffset = IF j = k THEN v ELSE D[j].SiblingDirOffset
       /\ U[j].ChildDirOffset = IF j = l THEN v ELSE D[j].ChildDirOffset
       /\ U[j].ChildFileOffset = D[j].ChildFileOffset

LEMMA SetSibling ==
  ASSUME NEW D \in Seq(DirEntries), NEW k \in 1 .. Len(D), NEW v \in Int
  PROVE  Relinked(D, [D EXCEPT ![k].SiblingDirOffset = v], k, 0, v)
<1> DEFINE d == D[k]
           e == [d EXCEPT !.SiblingDirOffset = v]
           E == [D EXCEPT ![k] = e]
<1>1. d \in DirEntries /\ Len(D) \in Nat
  OBVIOUS
<1> HIDE DEF d
<1>2. /\ e \in DirEntries /\ e.Path = d.Path /\ e.ParentDirOffset = d.ParentDirOffset
      /\ e.SiblingDirOffset = v /\ e.ChildDirOffset = d.ChildDirOffset
      /\ e.ChildFileOffset = d.ChildFileOffset
  BY <1>1 DEF DirEntries
<1> HIDE DEF e
<1>3. E \in Seq(DirEntries) /\ Len(E) = Len(D) /\ \A j \in 1 .. Len(D) : E[j] = IF j = k THEN e ELSE D[j]
  BY <1>2
<1> HIDE DEF E
<1>4. ASSUME NEW j \in 1 .. Len(D)
      PROVE  /\ E[j].Path = D[j].Path
             /\ E[j].ParentDirOffset = D[j].ParentDirOffset
             /\ E[j].SiblingDirOffset = IF j = k THEN v ELSE D[j].SiblingDirOffset
             /\ E[j].ChildDirOffset = D[j].ChildDirOffset
             /\ E[j].ChildFileOffset = D[j].ChildFileOffset
  <2>1. CASE j = k
    BY <1>2, <1>3, <2>1 DEF d
  <2>2. CASE j # k
    BY <1>3, <2>2
  <2> QED
    BY <2>1, <2>2
<1>5. \A j \in 1 .. Len(D) : j # 0
  BY <1>1
<1>6. Relinked(D, E, k, 0, v)
  BY <1>3, <1>4, <1>5 DEF Relinked
<1> QED
  BY <1>6 DEF E, e, d

LEMMA SetChild ==
  ASSUME NEW D \in Seq(DirEntries), NEW k \in 1 .. Len(D), NEW v \in Int
  PROVE  Relinked(D, [D EXCEPT ![k].ChildDirOffset = v], 0, k, v)
<1> DEFINE d == D[k]
           e == [d EXCEPT !.ChildDirOffset = v]
           E == [D EXCEPT ![k] = e]
<1>1. d \in DirEntries /\ Len(D) \in Nat
  OBVIOUS
<1> HIDE DEF d
<1>2. /\ e \in DirEntries /\ e.Path = d.Path /\ e.ParentDirOffset = d.ParentDirOffset
      /\ e.SiblingDirOffset = d.SiblingDirOffset /\ e.ChildDirOffset = v
      /\ e.ChildFileOffset = d.ChildFileOffset
  BY <1>1 DEF DirEntries
<1> HIDE DEF e
<1>3. E \in Seq(DirEntries) /\ Len(E) = Len(D) /\ \A j \in 1 .. Len(D) : E[j] = IF j = k THEN e ELSE D[j]
  BY <1>2
<1> HIDE DEF E
<1>4. ASSUME NEW j \in 1 .. Len(D)
      PROVE  /\ E[j].Path = D[j].Path
             /\ E[j].ParentDirOffset = D[j].ParentDirOffset
             /\ E[j].SiblingDirOffset = D[j].SiblingDirOffset
             /\ E[j].ChildDirOffset = IF j = k THEN v ELSE D[j].ChildDirOffset
             /\ E[j].ChildFileOffset = D[j].ChildFileOffset
  <2>1. CASE j = k
    BY <1>2, <1>3, <2>1 DEF d
  <2>2. CASE j # k
    BY <1>3, <2>2
  <2> QED
    BY <2>1, <2>2
<1>5. \A j \in 1 .. Len(D) : j # 0
  BY <1>1
<1>6. Relinked(D, E, 0, k, v)
  BY <1>3, <1>4, <1>5 DEF Relinked
<1> QED
  BY <1>6 DEF E, e, d

\* The entry before the one at position i, or else their parent, is linked past it.
LEMMA UnlinkedIs ==
  ASSUME createDirs \in Seq(DirEntries), NEW i \in 1 .. (Len(createDirs) - 1),
         NEW p \in 0 .. (Len(createDirs) - 1), p = createDirs[i + 1].ParentDirOffset
  PROVE  Relinked(createDirs, Unlinked(i),
                  IF createDirs[i].SiblingDirOffset = i THEN i ELSE 0,
                  IF createDirs[i].SiblingDirOffset # i /\ createDirs[p + 1].ChildDirOffset = i
                  THEN p + 1 ELSE 0,
                  createDirs[i + 1].SiblingDirOffset)
<1> DEFINE D == createDirs
           v == D[i + 1].SiblingDirOffset
           C == D[i].SiblingDirOffset = i
           B == D[p + 1].ChildDirOffset = i
<1>1. /\ Len(D) \in Nat /\ i \in 1 .. Len(D) /\ i + 1 \in 1 .. Len(D) /\ (i - 1) + 1 = i
      /\ p + 1 \in 1 .. Len(D) /\ D \in Seq(DirEntries)
  OBVIOUS
<1>2. D[i + 1] \in DirEntries
  BY <1>1
<1>3. v \in Int
  BY <1>2 DEF DirEntries
<1>4. Unlinked(i) = IF C THEN [D EXCEPT ![i].SiblingDirOffset = v]
                    ELSE IF B THEN [D EXCEPT ![p + 1].ChildDirOffset = v]
                    ELSE D
  BY <1>1 DEF Unlinked, Dir
<1> HIDE DEF v, C, B
<1> DEFINE u == Unlinked(i)
<1> HIDE DEF u
<1>5. u = IF C THEN [D EXCEPT ![i].SiblingDirOffset = v]
          ELSE IF B THEN [D EXCEPT ![p + 1].ChildDirOffset = v]
          ELSE D
  BY <1>4 DEF u
<1> HIDE DEF D
<1>6. Relinked(D, [D EXCEPT ![i].SiblingDirOffset = v], i, 0, v)
  BY <1>1, <1>3, SetSibling
<1>7. Relinked(D, [D EXCEPT ![p + 1].ChildDirOffset = v], 0, p + 1, v)
  BY <1>1, <1>3, SetChild
<1>8. Relinked(D, D, 0, 0, v)
  BY <1>1 DEF Relinked
<1>9. Relinked(D, u, IF C THEN i ELSE 0, IF ~C /\ B THEN p + 1 ELSE 0, v)
  <2>1. CASE C
    <3>1. u = [D EXCEPT ![i].SiblingDirOffset = v]
      BY <1>5, <2>1
    <3> QED
      BY <1>6, <2>1, <3>1, Zenon
  <2>2. CASE ~C /\ B
    <3>1. u = [D EXCEPT ![p + 1].ChildDirOffset = v]
      BY <1>5, <2>2
    <3> QED
      BY <1>7, <2>2, <3>1, Zenon
  <2>3. CASE ~C /\ ~B
    <3>1. u = D
      BY <1>5, <2>3
    <3> QED
      BY <1>8, <2>3, <3>1, Zenon
  <2> QED
    BY <2>1, <2>2, <2>3
<1> QED
  BY <1>9 DEF D, v, C, B, u

\* The entry at position i is taken out, and the positions behind it move up.
LEMMA MovedUp ==
  ASSUME NEW e \in DirEntries, NEW i \in Int
  PROVE  LET f == [e EXCEPT !.ParentDirOffset  = SubDirOffset(@, i),
                            !.SiblingDirOffset = SubDirOffset(@, i),
                            !.ChildDirOffset   = SubDirOffset(@, i)]
         IN /\ f \in DirEntries /\ f.Path = e.Path
            /\ f.ParentDirOffset = SubDirOffset(e.ParentDirOffset, i)
            /\ f.SiblingDirOffset = SubDirOffset(e.SiblingDirOffset, i)
            /\ f.ChildDirOffset = SubDirOffset(e.ChildDirOffset, i)
            /\ f.ChildFileOffset = e.ChildFileOffset
<1>1. e.ParentDirOffset \in Int /\ e.SiblingDirOffset \in Int /\ e.ChildDirOffset \in Int
  BY DEF DirEntries
<1> DEFINE a == SubDirOffset(e.ParentDirOffset, i)
           b == SubDirOffset(e.SiblingDirOffset, i)
           c == SubDirOffset(e.ChildDirOffset, i)
           f == [e EXCEPT !.ParentDirOffset = a, !.SiblingDirOffset = b, !.ChildDirOffset = c]
<1>2. a \in Int /\ b \in Int /\ c \in Int
  BY <1>1, SubIs
<1> HIDE DEF a, b, c
<1>3. /\ f \in DirEntries /\ f.Path = e.Path
      /\ f.ParentDirOffset = a /\ f.SiblingDirOffset = b /\ f.ChildDirOffset = c
      /\ f.ChildFileOffset = e.ChildFileOffset
  BY <1>2 DEF DirEntries
<1> QED
  BY <1>3 DEF a, b, c


\* The table without the entry at position i.
Moved(U, n, i, D1) ==
  /\ D1 \in Seq(DirEntries) /\ Len(D1) = n - 1
  /\ \A j \in 0 .. (n - 2) :
       /\ D1[j + 1].Path = U[Up(j, i) + 1].Path
       /\ D1[j + 1].ParentDirOffset = SubDirOffset(U[Up(j, i) + 1].ParentDirOffset, i)
       /\ D1[j + 1].SiblingDirOffset = SubDirOffset(U[Up(j, i) + 1].SiblingDirOffset, i)
       /\ D1[j + 1].ChildDirOffset = SubDirOffset(U[Up(j, i) + 1].ChildDirOffset, i)
       /\ D1[j + 1].ChildFileOffset = U[Up(j, i) + 1].ChildFileOffset

\* One element less, and those behind it move up.
Without(S, s, i, t) ==
  /\ t \in Seq(S) /\ Len(t) = Len(s) - 1
  /\ \A j \in 0 .. (Len(s) - 2) : t[j + 1] = s[Up(j, i) + 1]

LEMMA RemoveAtIs ==
  ASSUME NEW S, NEW s, s \in Seq(S), NEW i, i \in 0 .. (Len(s) - 1), NEW t, t = RemoveAt(s, i + 1)
  PROVE  Without(S, s, i, t)
<1> DEFINE n == Len(s)
           a == SubSeq(s, 1, i)
           b == SubSeq(s, i + 2, n)
<1>1. n \in Nat /\ i \in Nat /\ i <= n - 1
  OBVIOUS
<1>2. t = a \o b
  <2>1. (i + 1) - 1 = i /\ (i + 1) + 1 = i + 2
    BY <1>1
  <2> QED
    BY <2>1 DEF RemoveAt
<1>3. a \in Seq(S) /\ Len(a) = i /\ \A k \in 1 .. i : a[k] = s[k]
  BY <1>1
<1>4. b \in Seq(S) /\ Len(b) = n - i - 1 /\ \A k \in 1 .. (n - i - 1) : b[k] = s[k + i + 1]
  <2>1. i + 2 \in 1 .. (n + 1) /\ \A k \in (i + 2) .. n : s[k] \in S
    BY <1>1
  <2>2. b \in Seq(S) /\ Len(b) = n - (i + 2) + 1 /\ \A k \in 1 .. (n - (i + 2) + 1) : b[k] = s[(i + 2) + k - 1]
    BY <1>1, <2>1
  <2> HIDE DEF b
  <2>3. n - (i + 2) + 1 = n - i - 1
    BY <1>1
  <2>4. ASSUME NEW k \in 1 .. (n - i - 1)
        PROVE  b[k] = s[k + i + 1]
    <3>1. (i + 2) + k - 1 = k + i + 1
      BY <1>1
    <3>2. b[k] = s[(i + 2) + k - 1]
      BY <2>2, <2>3
    <3> QED
      BY <3>1, <3>2
  <2> QED
    BY <2>2, <2>3, <2>4
<1> HIDE DEF a, b
<1>5. /\ t \in Seq(S) /\ Len(t) = n - 1
      /\ \A k \in 1 .. i : t[k] = s[k]
      /\ \A k \in 1 .. (n - i - 1) : t[i + k] = s[k + i + 1]
  <2>1. /\ t \in Seq(S) /\ Len(t) = Len(a) + Len(b)
        /\ \A k \in 1 .. Len(a) : t[k] = a[k]
        /\ \A k \in 1 .. Len(b) : t[Len(a) + k] = b[k]
    <3>1. a \in Seq(S) /\ b \in Seq(S) /\ t = a \o b
      BY <1>2, <1>3, <1>4
    <3>2. /\ a \o b \in Seq(S) /\ Len(a \o b) = Len(a) + Len(b)
          /\ \A k \in 1 .. Len(a) : (a \o b)[k] = a[k]
          /\ \A k \in 1 .. Len(b) : (a \o b)[Len(a) + k] = b[k]
      BY <3>1, Joined
    <3> QED
      BY <3>1, <3>2
  <2>2. i + (n - i - 1) = n - 1
    BY <1>1
  <2> QED
    BY <1>3, <1>4, <2>1, <2>2
<1>6. ASSUME NEW j \in 0 .. (n - 2)
      PROVE  t[j + 1] = s[Up(j, i) + 1]
  <2>1. CASE j < i
    <3>1. j + 1 \in 1 .. i /\ Up(j, i) = j
      BY <1>1, <2>1 DEF Up
    <3> QED
      BY <1>5, <3>1
  <2>2. CASE ~(j < i)
    <3> DEFINE k == j + 1 - i
    <3>1. k \in 1 .. (n - i - 1) /\ i + k = j + 1 /\ k + i + 1 = j + 2
      BY <1>1, <2>2
    <3>2. Up(j, i) + 1 = j + 2
      BY <1>1, <2>2 DEF Up
    <3> HIDE DEF k
    <3>3. t[i + k] = s[k + i + 1]
      BY <1>5, <3>1
    <3> QED
      BY <3>1, <3>2, <3>3
  <2> QED
    BY <2>1, <2>2
<1> QED
  BY <1>5, <1>6 DEF Without

\* The entry with its links moved up.
UpEntry(e, i) ==
  [e EXCEPT !.ParentDirOffset  = SubDirOffset(@, i),
            !.SiblingDirOffset = SubDirOffset(@, i),
            !.ChildDirOffset   = SubDirOffset(@, i)]

LEMMA RemovedDirs ==
  ASSUME NEW U, U \in Seq(DirEntries), NEW i, i \in 0 .. (Len(U) - 1), NEW D1,
         D1 = RemoveAt([k \in 1 .. Len(U) |-> UpEntry(U[k], i)], i + 1)
  PROVE  Moved(U, Len(U), i, D1)
<1> DEFINE n == Len(U)
           V == [k \in 1 .. n |-> UpEntry(U[k], i)]
<1>1. n \in Nat /\ i \in Int
  OBVIOUS
<1>2. ASSUME NEW k \in 1 .. n
      PROVE  /\ UpEntry(U[k], i) \in DirEntries /\ UpEntry(U[k], i).Path = U[k].Path
             /\ UpEntry(U[k], i).ParentDirOffset = SubDirOffset(U[k].ParentDirOffset, i)
             /\ UpEntry(U[k], i).SiblingDirOffset = SubDirOffset(U[k].SiblingDirOffset, i)
             /\ UpEntry(U[k], i).ChildDirOffset = SubDirOffset(U[k].ChildDirOffset, i)
             /\ UpEntry(U[k], i).ChildFileOffset = U[k].ChildFileOffset
  <2>1. U[k] \in DirEntries
    OBVIOUS
  <2> QED
    BY <1>1, <2>1, MovedUp DEF UpEntry
<1>3. V \in Seq(DirEntries) /\ Len(V) = n /\ \A k \in 1 .. n : V[k] = UpEntry(U[k], i)
  BY <1>1, <1>2
<1>4. D1 = RemoveAt(V, i + 1)
  OBVIOUS
<1> HIDE DEF V
<1>5. /\ D1 \in Seq(DirEntries) /\ Len(D1) = n - 1
      /\ \A j \in 0 .. (n - 2) : D1[j + 1] = V[Up(j, i) + 1]
  <2>1. i \in 0 .. (Len(V) - 1) /\ V \in Seq(DirEntries)
    BY <1>3
  <2>2. Without(DirEntries, V, i, D1)
    BY <1>4, <2>1, RemoveAtIs
  <2> QED
    BY <1>3, <2>2 DEF Without
<1>6. \A j \in 0 .. (n - 2) : Up(j, i) + 1 \in 1 .. n
  <2>1. \A j \in 0 .. (n - 2) : Up(j, i) \in 0 .. (n - 1)
    BY <1>1, UpFromZero
  <2> QED
    BY <1>1, <2>1
<1>7. \A j \in 0 .. (n - 2) : D1[j + 1] = UpEntry(U[Up(j, i) + 1], i)
  BY <1>3, <1>5, <1>6
<1> HIDE DEF n
<1>8. Moved(U, n, i, D1)
  BY <1>2, <1>5, <1>6, <1>7 DEF Moved
<1> QED
  BY <1>8 DEF n

\* What the links of an entry are when the one at position i is linked past.
Bypassed(D, U, n, i, C) ==
  /\ U \in Seq(DirEntries) /\ Len(U) = n
  /\ \A j \in 0 .. (n - 1) :
       /\ Pars(U)[j] = Pars(D)[j] /\ Paths(U)[j] = Paths(D)[j] /\ FileKids(U)[j] = FileKids(D)[j]
       /\ DirSibs(U)[j] = IF C /\ j = i - 1 THEN DirSibs(D)[i] ELSE DirSibs(D)[j]
       /\ DirKids(U)[j] = IF ~C /\ j = Pars(D)[i] /\ DirKids(D)[j] = i
                          THEN DirSibs(D)[i] ELSE DirKids(D)[j]

LEMMA BypassedIs ==
  ASSUME createDirs \in Seq(DirEntries), NEW i \in 1 .. (Len(createDirs) - 1),
         Pars(createDirs)[i] \in 0 .. (Len(createDirs) - 1)
  PROVE  Bypassed(createDirs, Unlinked(i), Len(createDirs), i, DirSibs(createDirs)[i - 1] = i)
<1> DEFINE D == createDirs
           n == Len(D)
           p == Pars(D)[i]
           v == D[i + 1].SiblingDirOffset
           C == D[i].SiblingDirOffset = i
           k == IF C THEN i ELSE 0
           l == IF ~C /\ D[p + 1].ChildDirOffset = i THEN p + 1 ELSE 0
           U == Unlinked(i)
<1>1. n \in Nat /\ i \in 0 .. (n - 1) /\ i - 1 \in 0 .. (n - 1) /\ (i - 1) + 1 = i
  OBVIOUS
<1>2. p = createDirs[i + 1].ParentDirOffset /\ p \in 0 .. (n - 1) /\ p + 1 # 0
  BY <1>1 DEF Pars
<1>3. Relinked(D, U, k, l, v)
  BY <1>2, UnlinkedIs
<1>4. v = DirSibs(D)[i] /\ (C <=> DirSibs(D)[i - 1] = i)
  BY <1>1 DEF DirSibs
<1> HIDE DEF U, v, p, C
<1>5. Len(U) = n /\ U \in Seq(DirEntries)
  BY <1>3 DEF Relinked
<1>6. ASSUME NEW j \in 0 .. (n - 1)
      PROVE  /\ Pars(U)[j] = Pars(D)[j] /\ Paths(U)[j] = Paths(D)[j]
             /\ FileKids(U)[j] = FileKids(D)[j]
             /\ DirSibs(U)[j] = IF C /\ j = i - 1 THEN v ELSE DirSibs(D)[j]
             /\ DirKids(U)[j] = IF ~C /\ j = p /\ DirKids(D)[j] = i THEN v ELSE DirKids(D)[j]
  <2>1. j + 1 \in 1 .. n /\ j + 1 # 0 /\ (j + 1 = i <=> j = i - 1) /\ (j + 1 = p + 1 <=> j = p)
    BY <1>1, <1>2
  <2>2. /\ U[j + 1].Path = D[j + 1].Path /\ U[j + 1].ParentDirOffset = D[j + 1].ParentDirOffset
        /\ U[j + 1].SiblingDirOffset = IF j + 1 = k THEN v ELSE D[j + 1].SiblingDirOffset
        /\ U[j + 1].ChildDirOffset = IF j + 1 = l THEN v ELSE D[j + 1].ChildDirOffset
        /\ U[j + 1].ChildFileOffset = D[j + 1].ChildFileOffset
    BY <1>3, <2>1 DEF Relinked
  <2>3. /\ Pars(U)[j] = U[j + 1].ParentDirOffset /\ Pars(D)[j] = D[j + 1].ParentDirOffset
        /\ Paths(U)[j] = U[j + 1].Path /\ Paths(D)[j] = D[j + 1].Path
        /\ FileKids(U)[j] = U[j + 1].ChildFileOffset /\ FileKids(D)[j] = D[j + 1].ChildFileOffset
    BY <1>5 DEF Pars, Paths, FileKids
  <2>4. /\ DirSibs(U)[j] = U[j + 1].SiblingDirOffset /\ DirSibs(D)[j] = D[j + 1].SiblingDirOffset
        /\ DirKids(U)[j] = U[j + 1].ChildDirOffset /\ DirKids(D)[j] = D[j + 1].ChildDirOffset
    BY <1>5 DEF DirSibs, DirKids
  <2>5. j + 1 = k <=> C /\ j = i - 1
    BY <2>1
  <2>6. j + 1 = l <=> ~C /\ j = p /\ DirKids(D)[j] = i
    BY <2>1, <2>4
  <2> HIDE DEF k, l
  <2> QED
    BY <2>2, <2>3, <2>4, <2>5, <2>6
<1> HIDE DEF D, n
<1>7. Bypassed(D, U, n, i, DirSibs(D)[i - 1] = i)
  BY <1>4, <1>5, <1>6 DEF Bypassed, p
<1> QED
  BY <1>7 DEF D, n, U

\* What the links of an entry are when the one at position i is taken out.
TakenOut(D, U, n, i, D1) ==
  /\ D1 \in Seq(DirEntries) /\ Len(D1) = n - 1
  /\ \A j \in 0 .. (n - 2) :
       /\ Pars(D1)[j] = SubDirOffset(Pars(D)[Up(j, i)], i)
       /\ Paths(D1)[j] = Paths(D)[Up(j, i)]
       /\ DirSibs(D1)[j] = SubDirOffset(DirSibs(U)[Up(j, i)], i)
       /\ DirKids(D1)[j] = SubDirOffset(DirKids(U)[Up(j, i)], i)
       /\ FileKids(D1)[j] = FileKids(D)[Up(j, i)]

LEMMA TakenOutIs ==
  ASSUME NEW D, NEW U, NEW n \in Nat, NEW C, NEW i \in 0 .. (n - 1), Bypassed(D, U, n, i, C),
         NEW D1, Moved(U, n, i, D1)
  PROVE  TakenOut(D, U, n, i, D1)
<1>1. Len(D1) = n - 1 /\ D1 \in Seq(DirEntries) /\ Len(U) = n /\ (n - 1) - 1 = n - 2
  BY DEF Moved, Bypassed
<1>2. ASSUME NEW j \in 0 .. (n - 2)
      PROVE  /\ Pars(D1)[j] = SubDirOffset(Pars(D)[Up(j, i)], i)
             /\ Paths(D1)[j] = Paths(D)[Up(j, i)]
             /\ DirSibs(D1)[j] = SubDirOffset(DirSibs(U)[Up(j, i)], i)
             /\ DirKids(D1)[j] = SubDirOffset(DirKids(U)[Up(j, i)], i)
             /\ FileKids(D1)[j] = FileKids(D)[Up(j, i)]
  <2> DEFINE u == Up(j, i)
  <2>1. u \in 0 .. (n - 1)
    BY UpFromZero
  <2> HIDE DEF u
  <2>2. /\ D1[j + 1].Path = U[u + 1].Path
        /\ D1[j + 1].ParentDirOffset = SubDirOffset(U[u + 1].ParentDirOffset, i)
        /\ D1[j + 1].SiblingDirOffset = SubDirOffset(U[u + 1].SiblingDirOffset, i)
        /\ D1[j + 1].ChildDirOffset = SubDirOffset(U[u + 1].ChildDirOffset, i)
        /\ D1[j + 1].ChildFileOffset = U[u + 1].ChildFileOffset
    BY DEF Moved, u
  <2>3. /\ Pars(U)[u] = U[u + 1].ParentDirOffset /\ Pars(D1)[j] = D1[j + 1].ParentDirOffset
        /\ Paths(U)[u] = U[u + 1].Path /\ Paths(D1)[j] = D1[j + 1].Path
        /\ FileKids(U)[u] = U[u + 1].ChildFileOffset /\ FileKids(D1)[j] = D1[j + 1].ChildFileOffset
    BY <1>1, <2>1 DEF Pars, Paths, FileKids
  <2>4. /\ DirSibs(U)[u] = U[u + 1].SiblingDirOffset /\ DirSibs(D1)[j] = D1[j + 1].SiblingDirOffset
        /\ DirKids(U)[u] = U[u + 1].ChildDirOffset /\ DirKids(D1)[j] = D1[j + 1].ChildDirOffset
    BY <1>1, <2>1 DEF DirSibs, DirKids
  <2>5. Pars(U)[u] = Pars(D)[u] /\ Paths(U)[u] = Paths(D)[u] /\ FileKids(U)[u] = FileKids(D)[u]
    BY <2>1 DEF Bypassed
  <2>6. /\ Pars(D1)[j] = SubDirOffset(Pars(D)[u], i) /\ Paths(D1)[j] = Paths(D)[u]
        /\ DirSibs(D1)[j] = SubDirOffset(DirSibs(U)[u], i)
        /\ DirKids(D1)[j] = SubDirOffset(DirKids(U)[u], i)
        /\ FileKids(D1)[j] = FileKids(D)[u]
    BY <2>2, <2>3, <2>4, <2>5
  <2> QED
    BY <2>6 DEF u
<1> QED
  BY <1>1, <1>2 DEF TakenOut

FilesRenamed(F, i, F1) ==
  /\ F1 \in Seq(FileEntries) /\ Len(F1) = Len(F)
  /\ \A k \in 1 .. Len(F) : F1[k].EntryOffset = F[k].EntryOffset
  /\ \A j \in 0 .. (Len(F) - 1) : /\ Pars(F1)[j] = SubDirOffset(Pars(F)[j], i)
                                  /\ Paths(F1)[j] = Paths(F)[j] /\ FileSibs(F1)[j] = FileSibs(F)[j]

LEMMA FilesRenamedIs ==
  ASSUME NEW F, F \in Seq(FileEntries), NEW i, i \in Int, NEW F1,
         F1 = [k \in DOMAIN F |-> [F[k] EXCEPT !.ParentDirOffset = SubDirOffset(@, i)]]
  PROVE  FilesRenamed(F, i, F1)
<1> DEFINE f(k) == [F[k] EXCEPT !.ParentDirOffset = SubDirOffset(@, i)]
           m == Len(F)
<1>1. m \in Nat /\ DOMAIN F = 1 .. m
  OBVIOUS
<1>2. ASSUME NEW k \in 1 .. m
      PROVE  /\ f(k) \in FileEntries /\ f(k).Path = F[k].Path
             /\ f(k).ParentDirOffset = SubDirOffset(F[k].ParentDirOffset, i)
             /\ f(k).SiblingFileOffset = F[k].SiblingFileOffset
             /\ f(k).EntryOffset = F[k].EntryOffset
  <2> DEFINE e == F[k]
             a == SubDirOffset(e.ParentDirOffset, i)
  <2>1. e \in FileEntries /\ f(k) = [e EXCEPT !.ParentDirOffset = a]
    OBVIOUS
  <2> HIDE DEF e, f
  <2>2. e.ParentDirOffset \in Int
    BY <2>1 DEF FileEntries
  <2>3. a \in Int
    BY <2>2, SubIs
  <2> HIDE DEF a
  <2>4. /\ f(k) \in FileEntries /\ f(k).Path = e.Path
        /\ f(k).ParentDirOffset = a /\ f(k).SiblingFileOffset = e.SiblingFileOffset
        /\ f(k).EntryOffset = e.EntryOffset
    BY <2>1, <2>3 DEF FileEntries
  <2> QED
    BY <2>4 DEF a, e
<1> HIDE DEF f
<1>3. F1 = [k \in 1 .. m |-> f(k)]
  BY <1>1 DEF f
<1>4. F1 \in Seq(FileEntries) /\ Len(F1) = m /\ \A k \in 1 .. m : F1[k] = f(k)
  BY <1>1, <1>2, <1>3
<1>5. ASSUME NEW j \in 0 .. (m - 1)
      PROVE  /\ Pars(F1)[j] = SubDirOffset(Pars(F)[j], i)
             /\ Paths(F1)[j] = Paths(F)[j] /\ FileSibs(F1)[j] = FileSibs(F)[j]
  <2>1. j + 1 \in 1 .. m
    BY <1>1
  <2>2. /\ Pars(F1)[j] = F1[j + 1].ParentDirOffset /\ Pars(F)[j] = F[j + 1].ParentDirOffset
        /\ Paths(F1)[j] = F1[j + 1].Path /\ Paths(F)[j] = F[j + 1].Path
        /\ FileSibs(F1)[j] = F1[j + 1].SiblingFileOffset /\ FileSibs(F)[j] = F[j + 1].SiblingFileOffset
    BY <1>4 DEF Pars, Paths, FileSibs
  <2> QED
    BY <1>2, <1>4, <2>1, <2>2
<1>6. \A k \in 1 .. m : F1[k].EntryOffset = F[k].EntryOffset
  BY <1>2, <1>4
<1> QED
  BY <1>4, <1>5, <1>6 DEF FilesRenamed

\* A directory whose links lead nowhere has no children.
LEMMA EmptyIsChildless ==
  ASSUME Table(createDirs, createFiles), NEW i \in EmptyDirs
  PROVE  i \in 1 .. (Len(createDirs) - 1) /\ Childless(createDirs, createFiles, i)
<1> DEFINE n == Len(createDirs)
           m == Len(createFiles)
<1>1. n \in Nat /\ m \in Nat
  BY DEF Table
<1>2. i \in 1 .. (n - 1) /\ i \in 0 .. (n - 1)
  BY <1>1 DEF EmptyDirs, DirPositions
<1>3. DirKids(createDirs)[i] = Invalid /\ FileKids(createDirs)[i] = Invalid
  BY <1>2 DEF EmptyDirs, Dir, DirKids, FileKids
<1>4. /\ IsFirst(DirKids(createDirs)[i], Kids(1, n, Pars(createDirs), i))
      /\ IsFirst(FileKids(createDirs)[i], Kids(0, m, Pars(createFiles), i))
  BY <1>2 DEF Table, DirRows, FileRows, Rows
<1>5. Invalid \notin Kids(1, n, Pars(createDirs), i) /\ Invalid \notin Kids(0, m, Pars(createFiles), i)
  BY <1>1 DEF Kids, Invalid
<1> QED
  BY <1>2, <1>3, <1>4, <1>5 DEF Childless, IsFirst

\* The table of directories without one that has no children.
LEMMA WithoutDir ==
  ASSUME NEW D, NEW U, NEW n, NEW i, i \in 1 .. (n - 1), NEW S,
         Rows(1, n, n, Pars(D), DirSibs(D), DirKids(D)),
         Pathed(1, n, Pars(D), Paths(D), Paths(D), S),
         DirSibs(D)[0] = Invalid, Kids(1, n, Pars(D), i) = {},
         Bypassed(D, U, n, i, DirSibs(D)[i - 1] = i), NEW D1, TakenOut(D, U, n, i, D1)
  PROVE  /\ Rows(1, n - 1, n - 1, Pars(D1), DirSibs(D1), DirKids(D1))
         /\ Pathed(1, n - 1, Pars(D1), Paths(D1), Paths(D1), S)
<1> DEFINE C == DirSibs(D)[i - 1] = i
<1>1. n \in Nat /\ 1 \in Nat /\ i \in Nat
  BY DEF Rows
<1>2. C \in BOOLEAN /\ (C <=> (i - 1 \in 1 .. (n - 1) /\ DirSibs(D)[i - 1] = i))
  <2>1. i - 1 = 0 \/ i - 1 \in 1 .. (n - 1)
    BY <1>1
  <2>2. i - 1 = 0 => DirSibs(D)[i - 1] # i
    BY <1>1 DEF Invalid
  <2> QED
    BY <2>1, <2>2
<1> HIDE DEF C
<1>3. /\ \A j \in 1 .. (n - 1) :
           DirSibs(U)[j] = IF C /\ j = i - 1 THEN DirSibs(D)[i] ELSE DirSibs(D)[j]
      /\ \A p \in 0 .. (n - 1) :
           DirKids(U)[p] = IF ~C /\ p = Pars(D)[i] /\ DirKids(D)[p] = i
                           THEN DirSibs(D)[i] ELSE DirKids(D)[p]
  <2>1. \A j \in 1 .. (n - 1) : j \in 0 .. (n - 1)
    BY <1>1
  <2> QED
    BY <2>1 DEF Bypassed, C
<1>4. /\ \A j \in 1 .. (n - 2) : Pars(D1)[j] = SubDirOffset(Pars(D)[Up(j, i)], i)
      /\ \A j \in 1 .. (n - 2) : DirSibs(D1)[j] = SubDirOffset(DirSibs(U)[Up(j, i)], i)
      /\ \A p \in 0 .. (n - 2) : DirKids(D1)[p] = SubDirOffset(DirKids(U)[Up(p, i)], i)
      /\ \A p \in 0 .. (n - 2) : Paths(D1)[p] = Paths(D)[Up(p, i)]
  <2>1. \A j \in 1 .. (n - 2) : j \in 0 .. (n - 2)
    BY <1>1
  <2> QED
    BY <2>1 DEF TakenOut
<1>5. Rows(1, n - 1, n - 1, Pars(D1), DirSibs(D1), DirKids(D1))
  BY <1>2, <1>3, <1>4, RowsShrink
<1>6. \A j \in 1 .. (n - 1) : Pars(D)[j] \in 0 .. (n - 1)
  BY DEF Rows
<1>7. Pathed(1, n - 1, Pars(D1), Paths(D1), Paths(D1), S)
  BY <1>1, <1>4, <1>6, PathedShrink
<1> QED
  BY <1>5, <1>7

\* The table of files when a directory without files is taken out.
LEMMA WithoutParent ==
  ASSUME NEW D, NEW F, NEW U, NEW n, n \in Nat, NEW m, m = Len(F), m \in Nat,
         NEW i, i \in 0 .. (n - 1), NEW S,
         Rows(0, m, n, Pars(F), FileSibs(F), FileKids(D)),
         Pathed(0, m, Pars(F), Paths(F), Paths(D), S),
         Kids(0, m, Pars(F), i) = {}, NEW D1, TakenOut(D, U, n, i, D1), NEW F1, FilesRenamed(F, i, F1)
  PROVE  /\ Rows(0, m, n - 1, Pars(F1), FileSibs(F1), FileKids(D1))
         /\ Pathed(0, m, Pars(F1), Paths(F1), Paths(D1), S)
<1>1. /\ \A j \in 0 .. (m - 1) : Pars(F1)[j] = SubDirOffset(Pars(F)[j], i) /\ FileSibs(F1)[j] = FileSibs(F)[j]
      /\ \A j \in 0 .. (m - 1) : Pars(F1)[j] = SubDirOffset(Pars(F)[j], i) /\ Paths(F1)[j] = Paths(F)[j]
  BY DEF FilesRenamed
<1>2. /\ \A p \in 0 .. (n - 2) : FileKids(D1)[p] = FileKids(D)[Up(p, i)]
      /\ \A p \in 0 .. (n - 2) : Paths(D1)[p] = Paths(D)[Up(p, i)]
  BY DEF TakenOut
<1>3. Rows(0, m, n - 1, Pars(F1), FileSibs(F1), FileKids(D1))
  BY <1>1, <1>2, RowsRename
<1>4. \A j \in 0 .. (m - 1) : Pars(F)[j] \in 0 .. (n - 1)
  BY DEF Rows
<1>5. Pathed(0, m, Pars(F1), Paths(F1), Paths(D1), S)
  <2>1. 0 \in Nat /\ ParentsUp(0, m, i, Pars(F), Paths(F), Pars(F1), Paths(F1))
    BY <1>1 DEF ParentsUp
  <2>2. PathsUp(n, i, Paths(D), Paths(D1))
    BY <1>2 DEF PathsUp
  <2> QED
    BY <1>4, <2>1, <2>2, PathedRename
<1> QED
  BY <1>3, <1>5

\* The table without the directory at position i.
Removed(i, n, m, D1, F1) ==
  /\ Table(D1, F1) /\ n \in Nat /\ Len(D1) = n - 1 /\ Len(F1) = m
  /\ \A j \in 0 .. (n - 2) : Paths(D1)[j] = Paths(createDirs)[Up(j, i)]
  /\ \A j \in 0 .. (m - 1) : Paths(F1)[j] = Paths(createFiles)[j]

LEMMA RemovedTable ==
  ASSUME Table(createDirs, createFiles), NEW i \in EmptyDirs, RemoveDirEntry(i),
         NEW D1, D1 = createDirs', NEW F1, F1 = createFiles'
  PROVE  Removed(i, Len(createDirs), Len(createFiles), D1, F1)
<1> DEFINE D == createDirs
           F == createFiles
           n == Len(D)
           m == Len(F)
           U == Unlinked(i)
<1>1. i \in 1 .. (n - 1) /\ Childless(D, F, i)
  BY EmptyIsChildless
<1>2. /\ D \in Seq(DirEntries) /\ F \in Seq(FileEntries)
      /\ D[1].Path = Root /\ D[1].ParentDirOffset = 0 /\ D[1].SiblingDirOffset = Invalid
      /\ Growing(F)
  BY DEF Table
<1>3. n \in Nat /\ m \in Nat /\ i \in 0 .. (n - 1) /\ i \in Int /\ n - 1 >= 1
  BY <1>1, <1>2
<1>4. /\ Rows(1, n, n, Pars(D), DirSibs(D), DirKids(D))
      /\ Rows(0, m, n, Pars(F), FileSibs(F), FileKids(D))
      /\ Pathed(1, n, Pars(D), Paths(D), Paths(D), source.Dirs)
      /\ Pathed(0, m, Pars(F), Paths(F), Paths(D), source.Files)
  BY DEF Table, DirRows, FileRows
<1>5. Pars(D)[i] \in 0 .. (n - 1)
  BY <1>1, <1>4 DEF Rows
<1>6. Bypassed(D, U, n, i, DirSibs(D)[i - 1] = i)
  BY <1>1, <1>2, <1>5, BypassedIs
<1>7. U \in Seq(DirEntries) /\ Len(U) = n
  BY <1>6 DEF Bypassed
<1>8. D1 = RemoveAt([k \in 1 .. Len(U) |-> UpEntry(U[k], i)], i + 1)
  <2>1. DOMAIN createDirs = 1 .. Len(U)
    BY <1>2, <1>7
  <2> HIDE DEF U
  <2>2. D1 = RemoveAt([k \in DOMAIN createDirs |-> UpEntry(U[k], i)], i + 1)
    BY DEF RemoveDirEntry, UpEntry, U
  <2> QED
    BY <2>1, <2>2
<1> HIDE DEF U
<1>9. Moved(U, n, i, D1)
  <2>1. Moved(U, Len(U), i, D1)
    BY <1>3, <1>7, <1>8, RemovedDirs
  <2> QED
    BY <1>7, <2>1
<1>10. TakenOut(D, U, n, i, D1)
  BY <1>3, <1>6, <1>9, TakenOutIs
<1>11. FilesRenamed(F, i, F1)
  <2>1. F1 = [k \in DOMAIN F |-> [F[k] EXCEPT !.ParentDirOffset = SubDirOffset(@, i)]]
    BY DEF RemoveDirEntry
  <2> QED
    BY <1>2, <1>3, <2>1, FilesRenamedIs
<1>12. Kids(1, n, Pars(D), i) = {} /\ Kids(0, m, Pars(F), i) = {}
  BY <1>1 DEF Childless
<1>13. DirSibs(D)[0] = Invalid
  BY <1>2, <1>3 DEF DirSibs
<1> HIDE DEF D, F, n, m
<1>14. /\ Rows(1, n - 1, n - 1, Pars(D1), DirSibs(D1), DirKids(D1))
       /\ Pathed(1, n - 1, Pars(D1), Paths(D1), Paths(D1), source.Dirs)
  BY <1>1, <1>4, <1>6, <1>10, <1>12, <1>13, WithoutDir
<1>15. /\ Rows(0, m, n - 1, Pars(F1), FileSibs(F1), FileKids(D1))
       /\ Pathed(0, m, Pars(F1), Paths(F1), Paths(D1), source.Files)
  BY <1>3, <1>4, <1>10, <1>11, <1>12, WithoutParent DEF m
<1>16. D1 \in Seq(DirEntries) /\ Len(D1) = n - 1
  BY <1>10 DEF TakenOut
<1>17. F1 \in Seq(FileEntries) /\ Len(F1) = m /\ Growing(F1)
  BY <1>2, <1>11 DEF FilesRenamed, Growing, m
<1>18. D1[1].Path = Root /\ D1[1].ParentDirOffset = 0 /\ D1[1].SiblingDirOffset = Invalid
  <2>1. Up(0, i) = 0 /\ 0 \in 0 .. (n - 2) /\ 0 + 1 = 1
    BY <1>1, <1>3 DEF Up
  <2>2. /\ D1[1].Path = U[1].Path /\ D1[1].ParentDirOffset = SubDirOffset(U[1].ParentDirOffset, i)
        /\ D1[1].SiblingDirOffset = SubDirOffset(U[1].SiblingDirOffset, i)
    BY <1>9, <2>1 DEF Moved
  <2>3. /\ Pars(U)[0] = Pars(D)[0] /\ Paths(U)[0] = Paths(D)[0]
        /\ DirSibs(U)[0] = IF DirSibs(D)[i - 1] = i /\ 0 = i - 1 THEN DirSibs(D)[i] ELSE DirSibs(D)[0]
    BY <1>3, <1>6 DEF Bypassed
  <2>4. DirSibs(U)[0] = Invalid
    BY <1>3, <1>13, <2>3 DEF Invalid
  <2>5. /\ Pars(U)[0] = U[1].ParentDirOffset /\ Pars(D)[0] = D[1].ParentDirOffset
        /\ Paths(U)[0] = U[1].Path /\ Paths(D)[0] = D[1].Path
        /\ DirSibs(U)[0] = U[1].SiblingDirOffset
    BY <1>3, <1>7 DEF Pars, Paths, DirSibs, n
  <2>6. SubDirOffset(0, i) = 0 /\ SubDirOffset(Invalid, i) = Invalid
    BY <1>1, <1>3 DEF SubDirOffset, Invalid
  <2> QED
    BY <1>2, <2>2, <2>3, <2>4, <2>5, <2>6
<1>19. Table(D1, F1)
  BY <1>3, <1>14, <1>15, <1>16, <1>17, <1>18 DEF Table, DirRows, FileRows
<1>20. \A j \in 0 .. (n - 2) : Paths(D1)[j] = Paths(D)[Up(j, i)]
  BY <1>10 DEF TakenOut
<1>21. \A j \in 0 .. (m - 1) : Paths(F1)[j] = Paths(F)[j]
  BY <1>11 DEF FilesRenamed, m
<1>22. Removed(i, n, m, D1, F1)
  BY <1>3, <1>16, <1>17, <1>19, <1>20, <1>21 DEF Removed, D, F
<1> QED
  BY <1>22 DEF D, F, n, m

LEMMA LastEmpty ==
  ASSUME createDirs \in Seq(DirEntries), EmptyDirs # {}
  PROVE  (CHOOSE i \in EmptyDirs : \A j \in EmptyDirs : j <= i) \in EmptyDirs
<1>1. Len(createDirs) \in Nat
  OBVIOUS
<1>2. EmptyDirs \subseteq Nat /\ \A j \in EmptyDirs : j <= Len(createDirs)
  BY <1>1 DEF EmptyDirs, DirPositions
<1>3. \E i \in EmptyDirs : \A j \in EmptyDirs : j <= i
  BY <1>1, <1>2, Largest
<1> QED
  BY <1>3

LEMMA PlacedEntry ==
  ASSUME NEW e \in DirEntries, NEW a \in Int
  PROVE  LET f == [e EXCEPT !.EntryOffset = a] IN
         /\ f \in DirEntries /\ f.Path = e.Path
         /\ f.ParentDirOffset = e.ParentDirOffset
         /\ f.SiblingDirOffset = e.SiblingDirOffset
         /\ f.ChildDirOffset = e.ChildDirOffset
         /\ f.ChildFileOffset = e.ChildFileOffset
         /\ f.EntryOffset = a
BY DEF DirEntries

\* Giving the directories their offsets moves no link.
LEMMA PlacedTable ==
  ASSUME SourceInv, Table(createDirs, createFiles), PlaceDirs, NEW D1, D1 = createDirs'
  PROVE  Table(D1, createFiles) /\ Growing(D1) /\ Len(D1) = Len(createDirs)
         /\ Paths(D1) = Paths(createDirs)
<1> DEFINE D == createDirs
           n == Len(D)
           sizes == [k \in 1 .. n |-> DirEntrySize(D[k].Path)]
           ends == EntryEnds(0, sizes)
           f(k) == [D[k] EXCEPT !.EntryOffset = ends[k - 1]]
<1>1. /\ D \in Seq(DirEntries) /\ n \in Nat /\ n >= 1 /\ DOMAIN D = 1 .. n
      /\ D[1].Path = Root /\ D[1].ParentDirOffset = 0 /\ D[1].SiblingDirOffset = Invalid
  BY DEF Table
<1>2. D1 = [k \in 1 .. n |-> f(k)]
  <2> HIDE DEF n
  <2>1. D1 = [k \in DOMAIN D |->
               [D[k] EXCEPT !.EntryOffset =
                  EntryEnds(0, [l \in DOMAIN D |-> DirEntrySize(D[l].Path)])[k - 1]]]
    BY DEF PlaceDirs
  <2> QED
    BY <1>1, <2>1
<1>3. ASSUME NEW k \in 1 .. n
      PROVE  DirEntrySize(D[k].Path) \in Nat \ {0}
  <2>1. k - 1 \in 0 .. (n - 1) /\ (k - 1) + 1 = k
    BY <1>1
  <2>2. Paths(D)[k - 1] \in source.Dirs
    BY <2>1, PathsDiffer
  <2>3. D[k].Path \in source.Dirs
    BY <2>1, <2>2 DEF Paths
  <2> DEFINE p == D[k].Path
  <2>4. p \in source.Dirs
    BY <2>3
  <2> HIDE DEF p
  <2>5. p \in Seq(Nat)
    BY <2>4 DEF SourceInv
  <2>6. NameSize(p) \in Nat
    BY <2>5, PathIs DEF NameSize
  <2>7. DirEntrySize(p) \in Nat \ {0}
    BY <2>6 DEF DirEntrySize, DirHead
  <2> QED
    BY <2>7 DEF p
<1>4. sizes = [k \in 1 .. n |-> sizes[k]] /\ \A k \in 1 .. n : sizes[k] \in Nat \ {0}
  BY <1>3
<1> HIDE DEF sizes
<1>5. /\ \A k \in 0 .. n : ends[k] \in Nat
      /\ \A j, k \in 0 .. n : j < k => ends[j] < ends[k]
  <2>1. 0 \in Nat
    OBVIOUS
  <2> QED
    BY <1>1, <1>4, <2>1, EntryEndsAre
<1> HIDE DEF ends
<1>6. ASSUME NEW k \in 1 .. n
      PROVE  /\ f(k) \in DirEntries /\ f(k).Path = D[k].Path
             /\ f(k).ParentDirOffset = D[k].ParentDirOffset
             /\ f(k).SiblingDirOffset = D[k].SiblingDirOffset
             /\ f(k).ChildDirOffset = D[k].ChildDirOffset
             /\ f(k).ChildFileOffset = D[k].ChildFileOffset
             /\ f(k).EntryOffset = ends[k - 1] /\ ends[k - 1] \in Nat
  <2> DEFINE e == D[k]
             a == ends[k - 1]
  <2>1. e \in DirEntries /\ f(k) = [e EXCEPT !.EntryOffset = a]
    BY <1>1
  <2>2. a \in Nat /\ a \in Int
    BY <1>1, <1>5
  <2> HIDE DEF e, a, f
  <2>3. /\ f(k) \in DirEntries /\ f(k).Path = e.Path
        /\ f(k).ParentDirOffset = e.ParentDirOffset
        /\ f(k).SiblingDirOffset = e.SiblingDirOffset
        /\ f(k).ChildDirOffset = e.ChildDirOffset
        /\ f(k).ChildFileOffset = e.ChildFileOffset
        /\ f(k).EntryOffset = a
    BY <2>1, <2>2, PlacedEntry
  <2> QED
    BY <2>2, <2>3 DEF e, a
<1> HIDE DEF f
<1>7. D1 \in Seq(DirEntries) /\ Len(D1) = n /\ \A k \in 1 .. n : D1[k] = f(k)
  BY <1>1, <1>2, <1>6
<1>8. Growing(D1)
  <2>1. ASSUME NEW j \in 1 .. n, NEW k \in 1 .. n, j < k
        PROVE  D1[j].EntryOffset < D1[k].EntryOffset
    <3>1. D1[j].EntryOffset = ends[j - 1] /\ D1[k].EntryOffset = ends[k - 1]
      BY <1>6, <1>7
    <3>2. j - 1 \in 0 .. n /\ k - 1 \in 0 .. n /\ j - 1 < k - 1
      BY <1>1, <2>1
    <3> QED
      BY <1>5, <3>1, <3>2
  <2>2. \A k \in 1 .. n : D1[k].EntryOffset \in Nat
    BY <1>6, <1>7
  <2> QED
    BY <1>7, <2>1, <2>2 DEF Growing
<1>9. ASSUME NEW j \in 0 .. (n - 1)
      PROVE  /\ D1[j + 1].Path = D[j + 1].Path
             /\ D1[j + 1].ParentDirOffset = D[j + 1].ParentDirOffset
             /\ D1[j + 1].SiblingDirOffset = D[j + 1].SiblingDirOffset
             /\ D1[j + 1].ChildDirOffset = D[j + 1].ChildDirOffset
             /\ D1[j + 1].ChildFileOffset = D[j + 1].ChildFileOffset
  <2>1. j + 1 \in 1 .. n
    BY <1>1
  <2> QED
    BY <1>6, <1>7, <2>1
<1>10. /\ Pars(D1) = Pars(D) /\ Paths(D1) = Paths(D) /\ DirSibs(D1) = DirSibs(D)
       /\ DirKids(D1) = DirKids(D) /\ FileKids(D1) = FileKids(D)
  <2>1. Pars(D1) = Pars(D) /\ Paths(D1) = Paths(D)
    BY <1>7, <1>9 DEF Pars, Paths
  <2>2. DirSibs(D1) = DirSibs(D)
    BY <1>7, <1>9 DEF DirSibs
  <2>3. DirKids(D1) = DirKids(D) /\ FileKids(D1) = FileKids(D)
    BY <1>7, <1>9 DEF DirKids, FileKids
  <2> QED
    BY <2>1, <2>2, <2>3
<1>11. D1[1].Path = Root /\ D1[1].ParentDirOffset = 0 /\ D1[1].SiblingDirOffset = Invalid
  <2>1. 0 \in 0 .. (n - 1) /\ 0 + 1 = 1
    BY <1>1
  <2> QED
    BY <1>1, <1>9, <2>1
<1>12. Table(D, createFiles)
  OBVIOUS
<1> HIDE DEF D, n
<1>13. Table(D1, createFiles)
  BY <1>1, <1>7, <1>10, <1>11, <1>12 DEF Table, DirRows, FileRows, n
<1> QED
  BY <1>7, <1>8, <1>10, <1>13 DEF D, n

-----------------------------------------------------------------------------
(* The links of a table lead to the children                               *)

LEMMA DirChain ==
  ASSUME Table(createDirs, createFiles), NEW i \in DirPositions
  PROVE  Chain(Dir(i).ChildDirOffset, LAMBDA j : Dir(j).SiblingDirOffset, DirPositions)
           = {j \in DirPositions : j # 0 /\ Dir(j).ParentDirOffset = i}
<1> DEFINE D == createDirs
           n == Len(D)
           bound == Cardinality(DirPositions)
           first == Dir(i).ChildDirOffset
           K == Kids(1, n, Pars(D), i)
           at == CHOOSE f : f = [k \in 0 .. bound |->
                   IF k = 0 THEN first
                   ELSE IF f[k - 1] \in DirPositions THEN Dir(f[k - 1]).SiblingDirOffset
                   ELSE Invalid]
<1>1. n \in Nat /\ D \in Seq(DirEntries) /\ n >= 1
  BY DEF Table
<1>2. DirPositions = 0 .. (n - 1) /\ i \in 0 .. (n - 1)
  BY DEF DirPositions
<1>3. bound \in Nat /\ n <= bound
  <2>1. Cardinality(0 .. (n - 1)) = (n - 1) - 0 + 1
    BY <1>1, FS_Interval
  <2> QED
    BY <1>1, <1>2, <2>1
<1>4. \A j \in DirPositions : Dir(j).SiblingDirOffset = DirSibs(D)[j]
  BY <1>2 DEF Dir, DirSibs
<1>5. first = DirKids(D)[i]
  BY <1>2 DEF Dir, DirKids
<1>6. \A f : IsChain(f, first, DirSibs(D), DirPositions, bound) <=>
             f = [k \in 0 .. bound |->
                   IF k = 0 THEN first
                   ELSE IF f[k - 1] \in DirPositions THEN Dir(f[k - 1]).SiblingDirOffset
                   ELSE Invalid]
  <2> SUFFICES ASSUME NEW f
               PROVE  [k \in 0 .. bound |->
                        IF k = 0 THEN first
                        ELSE IF f[k - 1] \in DirPositions THEN Dir(f[k - 1]).SiblingDirOffset
                        ELSE Invalid]
                      = [k \in 0 .. bound |->
                          IF k = 0 THEN first
                          ELSE IF f[k - 1] \in DirPositions THEN DirSibs(D)[f[k - 1]] ELSE Invalid]
    BY DEF IsChain
  <2> HIDE DEF bound, first, D
  <2> QED
    BY <1>4
<1>7. ChainsMeet(DirKids(D)[i], DirSibs(D), DirPositions, bound, K)
  <2>1. Rows(1, n, n, Pars(D), DirSibs(D), DirKids(D))
    BY DEF Table, DirRows
  <2>2. 1 .. (n - 1) \subseteq DirPositions /\ Invalid \notin DirPositions
    BY <1>1, <1>2 DEF Invalid
  <2> HIDE DEF bound, D, n
  <2> QED
    BY <1>2, <1>3, <2>1, <2>2, ChainIsKids
<1>8. IsChain(at, first, DirSibs(D), DirPositions, bound)
  <2> HIDE DEF first, bound, D
  <2> QED
    BY <1>5, <1>6, <1>7 DEF ChainsMeet
<1>9. {at[k] : k \in 0 .. bound} \ {Invalid} = K
  <2> HIDE DEF first, bound, D, n, K, at
  <2> QED
    BY <1>5, <1>7, <1>8 DEF ChainsMeet
<1>10. Chain(first, LAMBDA j : Dir(j).SiblingDirOffset, DirPositions) = {at[k] : k \in 0 .. bound} \ {Invalid}
  BY DEF Chain
<1>11. K = {j \in DirPositions : j # 0 /\ Dir(j).ParentDirOffset = i}
  <2>1. \A j \in DirPositions : Dir(j).ParentDirOffset = Pars(D)[j]
    BY <1>2 DEF Dir, Pars
  <2>2. \A j : j \in 1 .. (n - 1) <=> j \in DirPositions /\ j # 0
    BY <1>1, <1>2
  <2> HIDE DEF D, n
  <2> QED
    BY <2>1, <2>2, KidsIs
<1> QED
  BY <1>9, <1>10, <1>11

LEMMA FileChain ==
  ASSUME Table(createDirs, createFiles), NEW i \in DirPositions
  PROVE  Chain(Dir(i).ChildFileOffset, LAMBDA j : File(j).SiblingFileOffset, FilePositions)
           = {j \in FilePositions : File(j).ParentDirOffset = i}
<1> DEFINE D == createDirs
           F == createFiles
           n == Len(D)
           m == Len(F)
           bound == Cardinality(FilePositions)
           first == Dir(i).ChildFileOffset
           K == Kids(0, m, Pars(F), i)
           at == CHOOSE f : f = [k \in 0 .. bound |->
                   IF k = 0 THEN first
                   ELSE IF f[k - 1] \in FilePositions THEN File(f[k - 1]).SiblingFileOffset
                   ELSE Invalid]
<1>1. n \in Nat /\ m \in Nat /\ F \in Seq(FileEntries)
  BY DEF Table
<1>2. FilePositions = 0 .. (m - 1) /\ i \in 0 .. (n - 1)
  BY DEF FilePositions, DirPositions
<1>3. bound \in Nat /\ m <= bound
  <2>1. CASE m = 0
    <3>1. FilePositions = {}
      BY <1>2, <2>1
    <3>2. bound = 0
      BY <3>1, FS_EmptySet
    <3> QED
      BY <2>1, <3>2
  <2>2. CASE m # 0
    <3>1. Cardinality(0 .. (m - 1)) = (m - 1) - 0 + 1
      <4>1. 0 \in Int /\ m - 1 \in Int /\ ~(0 > m - 1)
        BY <1>1, <2>2
      <4> HIDE DEF m
      <4> QED
        BY <4>1, FS_Interval
    <3> QED
      BY <1>1, <1>2, <3>1
  <2> QED
    BY <2>1, <2>2
<1>4. \A j \in FilePositions : File(j).SiblingFileOffset = FileSibs(F)[j]
  BY <1>2 DEF File, FileSibs
<1>5. first = FileKids(D)[i]
  BY <1>2 DEF Dir, FileKids
<1>6. \A f : IsChain(f, first, FileSibs(F), FilePositions, bound) <=>
             f = [k \in 0 .. bound |->
                   IF k = 0 THEN first
                   ELSE IF f[k - 1] \in FilePositions THEN File(f[k - 1]).SiblingFileOffset
                   ELSE Invalid]
  <2> SUFFICES ASSUME NEW f
               PROVE  [k \in 0 .. bound |->
                        IF k = 0 THEN first
                        ELSE IF f[k - 1] \in FilePositions THEN File(f[k - 1]).SiblingFileOffset
                        ELSE Invalid]
                      = [k \in 0 .. bound |->
                          IF k = 0 THEN first
                          ELSE IF f[k - 1] \in FilePositions THEN FileSibs(F)[f[k - 1]] ELSE Invalid]
    BY DEF IsChain
  <2> HIDE DEF bound, first, F
  <2> QED
    BY <1>4
<1>7. ChainsMeet(FileKids(D)[i], FileSibs(F), FilePositions, bound, K)
  <2>1. Rows(0, m, n, Pars(F), FileSibs(F), FileKids(D))
    BY DEF Table, FileRows
  <2>2. 0 .. (m - 1) \subseteq FilePositions /\ Invalid \notin FilePositions
    BY <1>1, <1>2 DEF Invalid
  <2> HIDE DEF bound, D, F, n, m
  <2> QED
    BY <1>2, <1>3, <2>1, <2>2, ChainIsKids
<1>8. IsChain(at, first, FileSibs(F), FilePositions, bound)
  <2> HIDE DEF first, bound, D, F
  <2> QED
    BY <1>5, <1>6, <1>7 DEF ChainsMeet
<1>9. {at[k] : k \in 0 .. bound} \ {Invalid} = K
  <2> HIDE DEF first, bound, D, F, n, m, K, at
  <2> QED
    BY <1>5, <1>7, <1>8 DEF ChainsMeet
<1>10. Chain(first, LAMBDA j : File(j).SiblingFileOffset, FilePositions) = {at[k] : k \in 0 .. bound} \ {Invalid}
  BY DEF Chain
<1>11. K = {j \in FilePositions : File(j).ParentDirOffset = i}
  <2>1. \A j \in FilePositions : File(j).ParentDirOffset = Pars(F)[j]
    BY <1>2 DEF File, Pars
  <2> HIDE DEF F, m
  <2> QED
    BY <1>2, <2>1, KidsIs
<1> QED
  BY <1>9, <1>10, <1>11

-----------------------------------------------------------------------------
(* The invariant of the table                                              *)

TableInv ==
  /\ SourceInv
  /\ step \in {"list", "prune", "hash", "extract", "done"}
  /\ step = "list" => Listed(createDirs, createFiles, stack)
  /\ step \in {"prune", "hash"} => Table(createDirs, createFiles)
  /\ step = "hash" => Growing(createDirs)

LEMMA SameTable ==
  ASSUME source' = source, NEW D, D = createDirs', NEW F, F = createFiles', Table(D, F)
  PROVE  Table(createDirs, createFiles)'
BY DEF Table

LEMMA SameListed ==
  ASSUME source' = source, NEW D, D = createDirs', NEW F, F = createFiles', NEW st, st = stack',
         Listed(D, F, st)
  PROVE  Listed(createDirs, createFiles, stack)'
<1>1. Table(createDirs, createFiles)'
  BY SameTable DEF Listed
<1>2. \A j : ReadAlready(D, F, j) => ReadAlready(createDirs, createFiles, j)'
  BY DEF ReadAlready, ChildDirs, ChildFiles
<1> QED
  BY <1>1, <1>2 DEF Listed

LEMMA InitTable == TreeInit => TableInv
<1> SUFFICES ASSUME TreeInit PROVE TableInv
  OBVIOUS
<1>1. SourceInv
  BY InitSource DEF TreeInit
<1>2. Listed(createDirs, createFiles, stack)
  BY <1>1, FirstListed DEF TreeInit
<1> QED
  BY <1>1, <1>2 DEF TreeInit, TableInv

LEMMA KeepTable == TableInv /\ [TreeNext]_treeVars => TableInv'
<1> SUFFICES ASSUME TableInv, [TreeNext]_treeVars PROVE TableInv'
  OBVIOUS
<1>1. source' = source
  BY DEF TreeNext, ReadDirectory, NextDirectory, EndList, RemoveEmptyDir, PlaceDirs, CreateHash,
         Extract, treeVars
<1>2. SourceInv'
  BY <1>1 DEF TableInv, SourceInv
<1>3. CASE ReadDirectory
  <2>1. Listed(createDirs, createFiles, stack) /\ step' = "list"
    BY <1>3 DEF TableInv, ReadDirectory
  <2>2. /\ createDirs' = ListDirs(Top.EntryOffset) /\ createFiles' = ListFiles(Top.EntryOffset)
        /\ stack' = <<[EntryOffset |-> Top.EntryOffset, ChildIndex |-> 0,
                       ChildOffset |-> [k \in 1 .. Cardinality(ChildDirs(Dir(Top.EntryOffset).Path)) |->
                                          Len(createDirs) + k - 1]]>> \o Tail(stack)
        /\ stack # <<>> /\ Top.ChildIndex = -1
    BY <1>3 DEF ReadDirectory
  <2>3. Listed(createDirs', createFiles', stack')
    BY <2>1, <2>2, ReadListed DEF TableInv
  <2>4. Listed(createDirs, createFiles, stack)'
    BY <1>1, <2>3, SameListed
  <2> QED
    BY <1>2, <2>1, <2>4 DEF TableInv
<1>4. CASE NextDirectory
  <2>1. Listed(createDirs, createFiles, stack) /\ step' = "list" /\ stack # <<>>
        /\ createDirs' = createDirs /\ createFiles' = createFiles
    BY <1>4 DEF TableInv, NextDirectory, tableVars
  <2>2. Top = stack[1]
    BY <2>1 DEF Top, Listed
  <2>3. /\ stack[1].ChildIndex # -1
        /\ stack' = IF stack[1].ChildIndex # Len(stack[1].ChildOffset)
                    THEN <<Unread(stack[1].ChildOffset[stack[1].ChildIndex + 1]),
                           [stack[1] EXCEPT !.ChildIndex = @ + 1]>> \o Tail(stack)
                    ELSE Tail(stack)
    BY <1>4, <2>2 DEF NextDirectory
  <2>4. Listed(createDirs, createFiles, stack')
    BY <2>1, <2>3, NextListed
  <2>5. Listed(createDirs', createFiles', stack')
    BY <2>1, <2>4
  <2>6. Listed(createDirs, createFiles, stack)'
    BY <1>1, <2>5, SameListed
  <2> QED
    BY <1>2, <2>1, <2>6 DEF TableInv
<1>5. CASE EndList
  <2>1. Listed(createDirs, createFiles, stack) /\ step' = "prune"
        /\ createDirs' = createDirs /\ createFiles' = createFiles
    BY <1>5 DEF TableInv, EndList, tableVars
  <2>2. Table(createDirs', createFiles')
    BY <2>1 DEF Listed
  <2>3. Table(createDirs, createFiles)'
    BY <1>1, <2>2, SameTable
  <2> QED
    BY <1>2, <2>1, <2>3 DEF TableInv
<1>6. CASE RemoveEmptyDir
  <2> DEFINE i == CHOOSE i \in EmptyDirs : \A j \in EmptyDirs : j <= i
  <2>1. Table(createDirs, createFiles) /\ step' = "prune" /\ RemoveDirEntry(i) /\ EmptyDirs # {}
    BY <1>6 DEF TableInv, RemoveEmptyDir
  <2>2. i \in EmptyDirs
    BY <2>1, LastEmpty DEF Table
  <2> HIDE DEF i
  <2>3. Table(createDirs', createFiles')
    BY <2>1, <2>2, RemovedTable DEF Removed
  <2>4. Table(createDirs, createFiles)'
    BY <1>1, <2>3, SameTable
  <2> QED
    BY <1>2, <2>1, <2>4 DEF TableInv
<1>7. CASE PlaceDirs
  <2>1. Table(createDirs, createFiles) /\ step' = "hash" /\ createFiles' = createFiles
    BY <1>7 DEF TableInv, PlaceDirs
  <2>2. Table(createDirs', createFiles) /\ Growing(createDirs')
    BY <1>7, <2>1, PlacedTable DEF TableInv
  <2>3. Table(createDirs', createFiles')
    BY <2>1, <2>2
  <2>4. Table(createDirs, createFiles)' /\ Growing(createDirs)'
    BY <1>1, <2>2, <2>3, SameTable
  <2> QED
    BY <1>2, <2>1, <2>4 DEF TableInv
<1>8. CASE CreateHash
  BY <1>2, <1>8 DEF TableInv, CreateHash
<1>9. CASE Extract
  BY <1>2, <1>9 DEF TableInv, Extract
<1>10. CASE UNCHANGED treeVars
  <2>1. createDirs' = createDirs /\ createFiles' = createFiles /\ stack' = stack /\ step' = step
    BY <1>10 DEF treeVars, tableVars
  <2>2. step = "list" => Listed(createDirs, createFiles, stack)'
    BY <1>1, <2>1, SameListed DEF TableInv
  <2>3. step \in {"prune", "hash"} => Table(createDirs, createFiles)'
    BY <1>1, <2>1, SameTable DEF TableInv
  <2>4. step = "hash" => Growing(createDirs)'
    BY <2>1 DEF TableInv
  <2>5. step' \in {"list", "prune", "hash", "extract", "done"}
    BY <2>1 DEF TableInv
  <2> QED
    BY <1>2, <2>1, <2>2, <2>3, <2>4, <2>5 DEF TableInv
<1> QED
  BY <1>3, <1>4, <1>5, <1>6, <1>7, <1>8, <1>9, <1>10 DEF TreeNext

LEMMA TableAlways == TreeSpec => []TableInv
<1> QED
  BY InitTable, KeepTable, PTL DEF TreeSpec

\* While the table is built and while empty directories are taken out of it, the links of
\* a directory lead to all its entries and no others.
THEOREM LinksAlwaysLead == TreeSpec => []LinksLeadToChildren
<1>1. TableInv => LinksLeadToChildren
  <2> SUFFICES ASSUME TableInv, step \in {"list", "prune", "hash"}, NEW i \in DirPositions
               PROVE  /\ Chain(Dir(i).ChildDirOffset, LAMBDA j : Dir(j).SiblingDirOffset, DirPositions)
                           = {j \in DirPositions : j # 0 /\ Dir(j).ParentDirOffset = i}
                      /\ Chain(Dir(i).ChildFileOffset, LAMBDA j : File(j).SiblingFileOffset, FilePositions)
                           = {j \in FilePositions : File(j).ParentDirOffset = i}
    BY DEF LinksLeadToChildren
  <2>1. Table(createDirs, createFiles)
    BY DEF TableInv, Listed
  <2> QED
    BY <2>1, DirChain, FileChain
<1> QED
  BY <1>1, TableAlways, PTL

-----------------------------------------------------------------------------
(* Buckets: every entry leads to the one before it with the same key       *)

LEMMA ChainExists ==
  ASSUME NEW n \in Nat, NEW first, NEW sib, NEW places
  PROVE  \E at : IsChain(at, first, sib, places, n)
<1> DEFINE N == {m \in 0 .. n : \E at : IsChain(at, first, sib, places, m)}
           after(x) == IF x \in places THEN sib[x] ELSE Invalid
<1>1. 0 \in N
  <2> DEFINE e == [k \in 0 .. 0 |-> first]
  <2>1. e = [k \in 0 .. 0 |-> IF k = 0 THEN first ELSE after(e[k - 1])]
    OBVIOUS
  <2>2. IsChain(e, first, sib, places, 0)
    BY <2>1 DEF IsChain
  <2> QED
    BY <2>2
<1>2. ASSUME NEW m \in 0 .. (n - 1), m \in N
      PROVE  m + 1 \in N
  <2>1. PICK f : IsChain(f, first, sib, places, m)
    BY <1>2
  <2> DEFINE g == [k \in 0 .. (m + 1) |-> IF k = m + 1 THEN after(f[m]) ELSE f[k]]
  <2>2. ASSUME NEW k \in 0 .. (m + 1)
        PROVE  g[k] = IF k = 0 THEN first ELSE after(g[k - 1])
    <3>1. CASE k = m + 1
      <4>1. k - 1 = m /\ m \in 0 .. (m + 1) /\ m # m + 1 /\ k # 0
        BY <3>1
      <4> HIDE DEF after
      <4>2. g[k - 1] = f[m] /\ g[k] = after(f[m])
        BY <3>1, <4>1
      <4> QED
        BY <4>1, <4>2
    <3>2. CASE k # m + 1
      <4>1. k \in 0 .. m /\ (k # 0 => k - 1 \in 0 .. (m + 1) /\ k - 1 # m + 1)
        BY <3>2
      <4>2. g[k] = f[k] /\ (k # 0 => g[k - 1] = f[k - 1])
        BY <3>2, <4>1
      <4>3. f[k] = IF k = 0 THEN first ELSE after(f[k - 1])
        BY <2>1, <4>1 DEF IsChain
      <4> QED
        BY <4>2, <4>3
    <3> QED
      BY <3>1, <3>2
  <2>3. g = [k \in 0 .. (m + 1) |-> IF k = 0 THEN first ELSE after(g[k - 1])]
    BY <2>2
  <2> HIDE DEF g
  <2>4. IsChain(g, first, sib, places, m + 1)
    BY <2>3 DEF IsChain
  <2>5. m + 1 \in 0 .. n
    OBVIOUS
  <2> QED
    BY <2>4, <2>5
<1> HIDE DEF N
<1>3. n \in N
  BY <1>1, <1>2, UpTo
<1> QED
  BY <1>3 DEF N

InBucket(n, key, b) == {j \in 0 .. (n - 1) : key[j] = b}

\* The offset of the last of some positions.
IsLast(x, S, off) == \/ x = Invalid /\ S = {}
                     \/ \E i \in S : x = off[i] /\ \A h \in S : h <= i

Hung(n, off, key, prev) ==
  /\ n \in Nat
  /\ \A j \in 0 .. (n - 1) : off[j] \in Nat
  /\ \A i, j \in 0 .. (n - 1) : off[i] = off[j] => i = j
  /\ \A j \in 0 .. (n - 1) : IsLast(prev[j], InBucket(j, key, key[j]), off)

\* Each of these places leads to the one before it.
LeadsBack(n, off, prev, onward, places) ==
  /\ places = {off[j] : j \in 0 .. (n - 1)}
  /\ \A j \in 0 .. (n - 1) : onward[off[j]] = prev[j]

OffsetsOf(off, S) == {off[j] : j \in S}

\* From the last entry of a bucket one meets all entries of the bucket.
LEMMA BucketChain ==
  ASSUME NEW n, NEW off, NEW key, NEW prev, Hung(n, off, key, prev), NEW b, NEW first,
         IsLast(first, InBucket(n, key, b), off), NEW onward, NEW places,
         LeadsBack(n, off, prev, onward, places), NEW bound \in Nat, n <= bound
  PROVE  ChainsMeet(first, onward, places, bound, OffsetsOf(off, InBucket(n, key, b)))
<1> DEFINE H == InBucket(n, key, b)
<1>1. /\ n \in Nat /\ \A j \in 0 .. (n - 1) : off[j] \in Nat
      /\ \A i, j \in 0 .. (n - 1) : off[i] = off[j] => i = j
      /\ places = {off[j] : j \in 0 .. (n - 1)} /\ \A j \in 0 .. (n - 1) : onward[off[j]] = prev[j]
  BY DEF Hung, LeadsBack
<1>2. \A j : j \in H <=> j \in 0 .. (n - 1) /\ key[j] = b
  BY DEF InBucket
<1>3. \A j \in H : off[j] \in Nat /\ off[j] # Invalid /\ off[j] \in places /\ onward[off[j]] = prev[j]
                   /\ j \in Nat /\ j <= n - 1
  BY <1>1, <1>2 DEF Invalid
<1>4. Invalid \notin places
  BY <1>1 DEF Invalid
<1>5. ASSUME NEW j \in H
      PROVE  \/ prev[j] = Invalid /\ \A h \in H : ~(h < j)
             \/ \E i \in H : prev[j] = off[i] /\ i < j /\ \A h \in H : h < j => h <= i
  <2> DEFINE B == InBucket(j, key, key[j])
  <2>1. IsLast(prev[j], B, off)
    BY <1>2 DEF Hung
  <2>2. \A h : h \in B <=> h \in H /\ h < j
    <3>1. \A h : h \in B <=> h \in 0 .. (j - 1) /\ key[h] = b
      BY <1>2 DEF InBucket
    <3>2. \A h : h \in 0 .. (j - 1) <=> h \in 0 .. (n - 1) /\ h < j
      BY <1>1, <1>3
    <3> QED
      BY <1>2, <3>1, <3>2
  <2> HIDE DEF B, H
  <2> QED
    BY <2>1, <2>2 DEF IsLast
<1>6. ASSUME NEW at, IsChain(at, first, onward, places, bound)
      PROVE  {at[k] : k \in 0 .. bound} \ {Invalid} = {off[j] : j \in H}
  <2> DEFINE met(k, h) == \E l \in 0 .. k : at[l] = off[h]
             good(k) == /\ at[k] = Invalid \/ \E j \in H : at[k] = off[j] /\ j <= n - 1 - k
                        /\ \A h \in H : met(k, h) \/ \E j \in H : at[k] = off[j] /\ h < j
             N == {k \in 0 .. bound : good(k)}
  <2>1. at[0] = first /\ \A k \in 1 .. bound :
          at[k] = IF at[k - 1] \in places THEN onward[at[k - 1]] ELSE Invalid
    BY <1>6 DEF IsChain
  <2> HIDE DEF H
  <2>2. good(0)
    <3>1. CASE first = Invalid /\ H = {}
      BY <2>1, <3>1
    <3>2. CASE \E i \in H : first = off[i] /\ \A h \in H : h <= i
      <4>1. PICK i \in H : first = off[i] /\ \A h \in H : h <= i
        BY <3>2
      <4>2. i <= n - 1 - 0
        BY <1>1, <1>3
      <4>3. ASSUME NEW h \in H
            PROVE  met(0, h) \/ \E j \in H : at[0] = off[j] /\ h < j
        <5>1. h = i \/ h < i
          BY <1>3, <4>1
        <5> QED
          BY <2>1, <4>1, <5>1
      <4> QED
        BY <2>1, <4>1, <4>2, <4>3
    <3> QED
      BY <3>1, <3>2 DEF IsLast, H
  <2>3. ASSUME NEW k \in 0 .. (bound - 1), k \in N
        PROVE  k + 1 \in N
    <3>1. k + 1 \in 1 .. bound /\ (k + 1) - 1 = k /\ k + 1 \in 0 .. bound /\ k \in Nat
      OBVIOUS
    <3>2. at[k + 1] = IF at[k] \in places THEN onward[at[k]] ELSE Invalid
      BY <2>1, <3>1
    <3>3. good(k)
      BY <2>3
    <3>4. at[k + 1] = Invalid \/ \E j \in H : at[k + 1] = off[j] /\ j <= n - 1 - (k + 1)
      <4>1. CASE at[k] = Invalid
        BY <1>4, <3>2, <4>1
      <4>2. CASE \E j \in H : at[k] = off[j] /\ j <= n - 1 - k
        <5>1. PICK j \in H : at[k] = off[j] /\ j <= n - 1 - k
          BY <4>2
        <5>2. at[k + 1] = prev[j]
          BY <1>3, <3>2, <5>1
        <5>3. CASE prev[j] = Invalid
          BY <5>2, <5>3
        <5>4. CASE \E i \in H : prev[j] = off[i] /\ i < j
          <6>1. PICK i \in H : prev[j] = off[i] /\ i < j
            BY <5>4
          <6>2. i <= n - 1 - (k + 1)
            BY <1>1, <1>3, <3>1, <5>1, <6>1
          <6> QED
            BY <5>2, <6>1, <6>2
        <5> QED
          BY <1>5, <5>3, <5>4
      <4> QED
        BY <3>3, <4>1, <4>2
    <3>5. ASSUME NEW h \in H
          PROVE  met(k + 1, h) \/ \E j \in H : at[k + 1] = off[j] /\ h < j
      <4>1. CASE met(k, h)
        <5>1. \A l \in 0 .. k : l \in 0 .. (k + 1)
          BY <3>1
        <5> QED
          BY <4>1, <5>1
      <4>2. CASE \E j \in H : at[k] = off[j] /\ h < j
        <5>1. PICK j \in H : at[k] = off[j] /\ h < j
          BY <4>2
        <5>2. at[k + 1] = prev[j]
          BY <1>3, <3>2, <5>1
        <5>3. PICK i \in H : prev[j] = off[i] /\ h <= i
          BY <1>5, <5>1
        <5>4. h = i \/ h < i
          BY <1>3, <5>3
        <5>5. k + 1 \in 0 .. (k + 1)
          BY <3>1
        <5> QED
          BY <5>2, <5>3, <5>4, <5>5
      <4> QED
        BY <3>3, <4>1, <4>2
    <3>6. good(k + 1)
      BY <3>4, <3>5
    <3> HIDE DEF good
    <3> QED
      BY <3>1, <3>6
  <2>4. \A k \in 0 .. bound : good(k)
    <3>1. 0 \in N
      BY <2>2
    <3> HIDE DEF N
    <3>2. \A k \in 0 .. bound : k \in N
      BY <2>3, <3>1, UpTo
    <3> HIDE DEF good
    <3> QED
      BY <3>2 DEF N
  <2>5. \A k \in 0 .. bound : at[k] = Invalid \/ \E j \in H : at[k] = off[j]
    BY <2>4
  <2>6. ASSUME NEW h \in H
        PROVE  \E l \in 0 .. bound : at[l] = off[h]
    <3>1. bound \in 0 .. bound
      OBVIOUS
    <3>2. good(bound)
      BY <2>4, <3>1
    <3>3. \A j \in H : ~(j <= n - 1 - bound)
      BY <1>1, <1>3
    <3>4. at[bound] = Invalid
      BY <3>2, <3>3
    <3> QED
      BY <1>3, <3>2, <3>4
  <2> QED
    BY <1>3, <2>5, <2>6
<1>7. \E at : IsChain(at, first, onward, places, bound)
  BY ChainExists
<1> QED
  BY <1>6, <1>7 DEF ChainsMeet, OffsetsOf

-----------------------------------------------------------------------------
(* createHash and redirectOffset: the image of a table                     *)

Ats(E) == [j \in 0 .. (Len(E) - 1) |-> E[j + 1].EntryOffset]
DirPrevs(D) == [j \in 0 .. (Len(D) - 1) |-> D[j + 1].PrevDirOffset]
FilePrevs(F) == [j \in 0 .. (Len(F) - 1) |-> F[j + 1].PrevFileOffset]

LinkTo(off, x) == IF x = Invalid THEN Invalid ELSE off[x]

DirImage(G, H, D) ==
  /\ D \in Seq(DirEntries) /\ Len(D) = Len(G)
  /\ Ats(D) = Ats(G) /\ Paths(D) = Paths(G)
  /\ \A j \in 0 .. (Len(G) - 1) : /\ Pars(D)[j] = Ats(G)[Pars(G)[j]]
                                  /\ DirSibs(D)[j] = LinkTo(Ats(G), DirSibs(G)[j])
                                  /\ DirKids(D)[j] = LinkTo(Ats(G), DirKids(G)[j])
                                  /\ FileKids(D)[j] = LinkTo(Ats(H), FileKids(G)[j])

FileImage(G, H, F) ==
  /\ F \in Seq(FileEntries) /\ Len(F) = Len(H)
  /\ Ats(F) = Ats(H) /\ Paths(F) = Paths(H)
  /\ \A j \in 0 .. (Len(H) - 1) : /\ Pars(F)[j] = Ats(G)[Pars(H)[j]]
                                  /\ FileSibs(F)[j] = LinkTo(Ats(H), FileSibs(H)[j])

\* What the entries E of the table G are hashed by.
Keys(G, E, count) ==
  [j \in 0 .. (Len(E) - 1) |-> NameHash(Ats(G)[Pars(E)[j]], Paths(E)[j]) % count]

Buckets(n, off, key, prev, count, bucket) ==
  /\ Hung(n, off, key, prev)
  /\ count \in Nat \ {0} /\ DOMAIN bucket = 0 .. (count - 1)
  /\ \A b \in 0 .. (count - 1) : IsLast(bucket[b], InBucket(n, key, b), off)

DirsHashed(G, D, bucket) ==
  \E count : Buckets(Len(G), Ats(G), Keys(G, G, count), DirPrevs(D), count, bucket)

FilesHashed(G, H, F, bucket) ==
  \E count : Buckets(Len(H), Ats(H), Keys(G, H, count), FilePrevs(F), count, bucket)

Image(G, H, D, F, dirHash, fileHash) ==
  /\ Table(G, H) /\ Growing(G)
  /\ DirImage(G, H, D) /\ FileImage(G, H, F)
  /\ DirsHashed(G, D, dirHash) /\ FilesHashed(G, H, F, fileHash)

\* A number behind a multiple of the product of the small primes has none of them in it.
LEMMA BehindMultiple ==
  ASSUME NEW k \in Nat, NEW p \in SmallPrimes
  PROVE  (510510 * k + 1) % p # 0
<1>1. /\ (510510 * k + 1) % 2 = 1 /\ (510510 * k + 1) % 3 = 1 /\ (510510 * k + 1) % 5 = 1
      /\ (510510 * k + 1) % 7 = 1 /\ (510510 * k + 1) % 11 = 1 /\ (510510 * k + 1) % 13 = 1
      /\ (510510 * k + 1) % 17 = 1
  BY SMT
<1> QED
  BY <1>1, SMT DEF SmallPrimes

LEMMA ProductProperties ==
  /\ SmallPrimesProduct \in Nat \ {0}
  /\ \A k \in Nat, p \in SmallPrimes : (SmallPrimesProduct * k + 1) % p # 0
<1>1. SmallPrimesProduct \in Nat \ {0}
  BY SMT DEF SmallPrimesProduct
<1>2. SmallPrimesProduct = 510510
  BY SMT DEF SmallPrimesProduct
<1>3. ASSUME NEW k \in Nat, NEW p \in SmallPrimes
      PROVE  (SmallPrimesProduct * k + 1) % p # 0
  BY <1>2, BehindMultiple, SMT
<1> QED
  BY <1>1, <1>3

\* A bucket count is never 0.
LEMMA BucketCounts == \A entries \in Nat : ComputeBucketCount(entries) \in Nat \ {0}
<1> SUFFICES ASSUME NEW entries \in Nat PROVE ComputeBucketCount(entries) \in Nat \ {0}
  OBVIOUS
<1> DEFINE P == SmallPrimesProduct
<1>P. P \in Nat \ {0} /\ \A k \in Nat, p \in SmallPrimes : (P * k + 1) % p # 0
  BY ProductProperties
<1>1. CASE entries <= 19
  BY <1>1 DEF ComputeBucketCount
<1>2. CASE entries > 19
  <2> DEFINE prime(n) == \A p \in SmallPrimes : n % p # 0
             R == entries .. (entries + P)
             T == {k \in Nat : P * k < entries}
             S == {n \in R : prime(n)}
  <2>1. \A k \in Nat : prime(P * k + 1)
    BY <1>P
  <2> HIDE DEF P, prime
  <2>2. PICK k \in T : \A l \in T : l <= k
    <3>1. \A l \in Nat : l <= P * l
      <4> SUFFICES ASSUME NEW l \in Nat PROVE l <= P * l
        OBVIOUS
      <4>1. P - 1 \in Nat /\ P * l = l + (P - 1) * l /\ (P - 1) * l >= 0
        BY <1>P
      <4> QED
        BY <4>1
    <3>2. P * 0 = 0
      BY <1>P
    <3>3. 0 \in T /\ T \subseteq Nat
      BY <1>2, <3>2
    <3>4. ASSUME NEW l \in T
          PROVE  l <= entries
      <4>1. l \in Nat /\ P * l < entries /\ P * l \in Nat /\ l <= P * l
        BY <1>P, <3>1
      <4> QED
        BY <4>1
    <3> HIDE DEF T
    <3> QED
      BY <3>3, <3>4, Largest
  <2>3. \E n \in R : prime(n)
    <3>1. k \in Nat /\ P * k \in Nat /\ P * k < entries
      BY <1>P
    <3>2. k + 1 \notin T /\ k + 1 \in Nat
      BY <2>2, <3>1
    <3>3. ~(P * (k + 1) < entries)
      BY <3>2
    <3>4. P * (k + 1) = P * k + P
      BY <1>P, <3>1
    <3> DEFINE n == P * (k + 1) + 1
    <3>5. n \in R
      BY <1>P, <3>1, <3>3, <3>4
    <3> HIDE DEF R
    <3>6. prime(n)
      BY <2>1, <3>2, Zenon
    <3> QED
      BY <3>5, <3>6
  <2>4. S \subseteq Nat /\ S # {}
    <3>1. R \subseteq Nat
      BY <1>P
    <3> HIDE DEF R
    <3> QED
      BY <2>3, <3>1
  <2>5. PICK n \in S : \A m \in S : n <= m
    BY <2>4, Smallest
  <2>6. n \in R /\ prime(n)
    BY <2>5
  <2>7. ASSUME NEW m \in entries .. (n - 1)
        PROVE  \E p \in SmallPrimes : m % p = 0
    <3>1. m \in R /\ ~(n <= m)
      BY <1>P, <2>6
    <3>2. ~prime(m)
      BY <2>5, <3>1
    <3> QED
      BY <3>2 DEF prime
  <2>8. \E x \in R : prime(x) /\ \A m \in entries .. (x - 1) : \E p \in SmallPrimes : m % p = 0
    BY <2>6, <2>7
  <2>9. ComputeBucketCount(entries) =
          CHOOSE x \in R : prime(x) /\ \A m \in entries .. (x - 1) : \E p \in SmallPrimes : m % p = 0
    BY <1>2 DEF ComputeBucketCount, P, prime
  <2>10. ComputeBucketCount(entries) \in R
    <3> HIDE DEF R
    <3> QED
      BY <2>8, <2>9
  <2> QED
    BY <1>2, <1>P, <2>10
<1> QED
  BY <1>1, <1>2

LastOf(S) == IF S = {} THEN Invalid ELSE CHOOSE j \in S : \A k \in S : k <= j

LEMMA LastOfSome ==
  ASSUME NEW n \in Nat, NEW S, S \subseteq 0 .. (n - 1), NEW off
  PROVE  IsLast(LinkTo(off, LastOf(S)), S, off) /\ LastOf(S) \in S \cup {Invalid}
<1> DEFINE x == LastOf(S)
<1>1. CASE S = {}
  BY <1>1 DEF IsLast, LinkTo, LastOf
<1>2. CASE S # {}
  <2>1. S \subseteq Nat /\ \A k \in S : k <= n
    OBVIOUS
  <2>2. \E j \in S : \A k \in S : k <= j
    BY <1>2, <2>1, Largest
  <2>3. x \in S /\ \A k \in S : k <= x
    BY <1>2, <2>2 DEF LastOf
  <2>4. x # Invalid
    BY <2>1, <2>3 DEF Invalid
  <2> HIDE DEF x
  <2>5. IsLast(LinkTo(off, x), S, off) /\ x \in S \cup {Invalid}
    BY <2>3, <2>4 DEF IsLast, LinkTo
  <2> QED
    BY <2>5 DEF x
<1> QED
  BY <1>1, <1>2

LEMMA LinksIn ==
  ASSUME NEW D, NEW F, Table(D, F)
  PROVE  /\ \A j \in 0 .. (Len(D) - 1) :
              /\ Pars(D)[j] \in 0 .. (Len(D) - 1)
              /\ DirSibs(D)[j] \in (0 .. (Len(D) - 1)) \cup {Invalid}
              /\ DirKids(D)[j] \in (0 .. (Len(D) - 1)) \cup {Invalid}
              /\ FileKids(D)[j] \in (0 .. (Len(F) - 1)) \cup {Invalid}
         /\ \A j \in 0 .. (Len(F) - 1) :
              /\ Pars(F)[j] \in 0 .. (Len(D) - 1)
              /\ FileSibs(F)[j] \in (0 .. (Len(F) - 1)) \cup {Invalid}
<1> DEFINE n == Len(D)
           m == Len(F)
<1>1. n \in Nat /\ n >= 1 /\ m \in Nat
  BY DEF Table
<1>2. Rows(1, n, n, Pars(D), DirSibs(D), DirKids(D))
  BY DEF Table, DirRows
<1>3. Rows(0, m, n, Pars(F), FileSibs(F), FileKids(D))
  BY DEF Table, FileRows
<1>4. Pars(D)[0] = 0 /\ DirSibs(D)[0] = Invalid
  BY <1>1 DEF Pars, DirSibs, Table
<1> HIDE DEF n, m
<1>5. ASSUME NEW j \in 0 .. (n - 1)
      PROVE  /\ Pars(D)[j] \in 0 .. (n - 1)
             /\ DirSibs(D)[j] \in (0 .. (n - 1)) \cup {Invalid}
  <2>1. CASE j = 0
    BY <1>1, <1>4, <2>1
  <2>2. CASE j # 0
    <3>1. j \in 1 .. (n - 1)
      BY <1>1, <2>2
    <3> QED
      BY <1>1, <1>2, <3>1 DEF Rows
  <2> QED
    BY <2>1, <2>2
<1>6. ASSUME NEW j \in 0 .. (n - 1)
      PROVE  /\ DirKids(D)[j] \in (0 .. (n - 1)) \cup {Invalid}
             /\ FileKids(D)[j] \in (0 .. (m - 1)) \cup {Invalid}
  <2>1. IsFirst(DirKids(D)[j], Kids(1, n, Pars(D), j))
    BY <1>2 DEF Rows
  <2>2. IsFirst(FileKids(D)[j], Kids(0, m, Pars(F), j))
    BY <1>3 DEF Rows
  <2>3. DirKids(D)[j] = Invalid \/ DirKids(D)[j] \in 1 .. (n - 1)
    BY <2>1 DEF IsFirst, Kids
  <2>4. FileKids(D)[j] = Invalid \/ FileKids(D)[j] \in 0 .. (m - 1)
    BY <2>2 DEF IsFirst, Kids
  <2> QED
    BY <1>1, <2>3, <2>4
<1>7. ASSUME NEW j \in 0 .. (m - 1)
      PROVE  /\ Pars(F)[j] \in 0 .. (n - 1)
             /\ FileSibs(F)[j] \in (0 .. (m - 1)) \cup {Invalid}
  BY <1>1, <1>3 DEF Rows
<1> QED
  BY <1>5, <1>6, <1>7 DEF n, m

LEMMA AtsDiffer ==
  ASSUME NEW E, Len(E) \in Nat, Growing(E)
  PROVE  /\ \A j \in 0 .. (Len(E) - 1) : Ats(E)[j] \in Nat
         /\ \A i, j \in 0 .. (Len(E) - 1) : Ats(E)[i] = Ats(E)[j] => i = j
<1>1. ASSUME NEW j \in 0 .. (Len(E) - 1)
      PROVE  j + 1 \in 1 .. Len(E) /\ Ats(E)[j] = E[j + 1].EntryOffset
  BY DEF Ats
<1>2. \A j \in 0 .. (Len(E) - 1) : Ats(E)[j] \in Nat
  BY <1>1 DEF Growing
<1>3. ASSUME NEW i \in 0 .. (Len(E) - 1), NEW j \in 0 .. (Len(E) - 1), i < j
      PROVE  Ats(E)[i] < Ats(E)[j]
  <2>1. i + 1 < j + 1
    BY <1>3
  <2> QED
    BY <1>1, <2>1 DEF Growing
<1>4. ASSUME NEW i \in 0 .. (Len(E) - 1), NEW j \in 0 .. (Len(E) - 1), Ats(E)[i] = Ats(E)[j]
      PROVE  i = j
  <2>1. ~(i < j) /\ ~(j < i)
    BY <1>2, <1>3, <1>4
  <2> QED
    BY <2>1
<1> QED
  BY <1>2, <1>4

\* The entries that are hashed by their names and the offsets of their parents.
LEMMA HashKeys ==
  ASSUME Table(createDirs, createFiles), NEW count
  PROVE  /\ \A j \in 0 .. (Len(createDirs) - 1) :
              HashKey(createDirs[j + 1]) % count = Keys(createDirs, createDirs, count)[j]
         /\ \A j \in 0 .. (Len(createFiles) - 1) :
              HashKey(createFiles[j + 1]) % count = Keys(createDirs, createFiles, count)[j]
<1>1. \A p \in 0 .. (Len(createDirs) - 1) : Dir(p).EntryOffset = Ats(createDirs)[p]
  BY DEF Dir, Ats
<1>2. ASSUME NEW E, NEW j \in 0 .. (Len(E) - 1), Pars(E)[j] \in 0 .. (Len(createDirs) - 1)
      PROVE  HashKey(E[j + 1]) % count = Keys(createDirs, E, count)[j]
  <2>1. E[j + 1].ParentDirOffset = Pars(E)[j] /\ E[j + 1].Path = Paths(E)[j]
    BY DEF Pars, Paths
  <2>2. HashKey(E[j + 1]) = NameHash(Ats(createDirs)[Pars(E)[j]], Paths(E)[j])
    BY <1>1, <1>2, <2>1 DEF HashKey
  <2> QED
    BY <2>2 DEF Keys
<1> QED
  BY <1>2, LinksIn

LEMMA PrevIs ==
  ASSUME NEW E, NEW count, NEW key, NEW n \in Nat, NEW off,
         \A j \in 0 .. (n - 1) : HashKey(E[j + 1]) % count = key[j], NEW i \in 0 .. (n - 1)
  PROVE  /\ IsLast(LinkTo(off, PrevInBucket(E, count, i)), InBucket(i, key, key[i]), off)
         /\ PrevInBucket(E, count, i) \in (0 .. (n - 1)) \cup {Invalid}
<1> DEFINE S == InBucket(i, key, key[i])
           x == PrevInBucket(E, count, i)
           T == {j \in 0 .. (i - 1) : HashKey(E[j + 1]) % count = HashKey(E[i + 1]) % count}
<1>1. T = S
  <2>1. \A j \in 0 .. (i - 1) : j \in 0 .. (n - 1)
    OBVIOUS
  <2> QED
    BY <2>1 DEF InBucket
<1>2. x = LastOf(T)
  BY DEF PrevInBucket, LastOf
<1>3. S \subseteq 0 .. (i - 1) /\ i \in Nat
  BY DEF InBucket
<1> HIDE DEF S, T, x
<1>4. IsLast(LinkTo(off, x), S, off) /\ x \in S \cup {Invalid}
  BY <1>1, <1>2, <1>3, LastOfSome
<1> QED
  BY <1>3, <1>4 DEF S, x

LEMMA LastIs ==
  ASSUME NEW E, Len(E) \in Nat, NEW count, NEW key, NEW off,
         \A j \in 0 .. (Len(E) - 1) : HashKey(E[j + 1]) % count = key[j], NEW b \in 0 .. (count - 1)
  PROVE  /\ IsLast(LinkTo(off, Bucket(E, count)[b]), InBucket(Len(E), key, b), off)
         /\ Bucket(E, count)[b] \in (0 .. (Len(E) - 1)) \cup {Invalid}
<1> DEFINE S == InBucket(Len(E), key, b)
           x == Bucket(E, count)[b]
           n == Len(E)
           T == {j \in 0 .. (Len(E) - 1) : HashKey(E[j + 1]) % count = b}
<1>1. T = S
  BY DEF InBucket
<1>2. x = LastOf(T)
  BY DEF Bucket, LastOf
<1>3. S \subseteq 0 .. (n - 1) /\ n \in Nat
  BY DEF InBucket
<1> HIDE DEF S, T, x, n
<1>4. IsLast(LinkTo(off, x), S, off) /\ x \in S \cup {Invalid}
  BY <1>1, <1>2, <1>3, LastOfSome
<1> QED
  BY <1>3, <1>4 DEF S, x, n

\* An entry with the offsets of others and that of the one before it in its bucket.
DirTurned(e, p, s, c, f, v, g) ==
  g = [e EXCEPT !.ParentDirOffset = p, !.SiblingDirOffset = s, !.ChildDirOffset = c,
                !.ChildFileOffset = f, !.PrevDirOffset = v]

FileTurned(e, p, s, v, g) ==
  g = [e EXCEPT !.ParentDirOffset = p, !.SiblingFileOffset = s, !.PrevFileOffset = v]

LEMMA HashedDir ==
  ASSUME NEW e \in DirEntries, NEW p \in Int, NEW s \in Int, NEW c \in Int, NEW f \in Int, NEW v \in Int,
         NEW g, DirTurned(e, p, s, c, f, v, g)
  PROVE  /\ g \in DirEntries /\ g.Path = e.Path /\ g.EntryOffset = e.EntryOffset
         /\ g.ParentDirOffset = p /\ g.SiblingDirOffset = s /\ g.ChildDirOffset = c
         /\ g.ChildFileOffset = f /\ g.PrevDirOffset = v
BY DEF DirEntries, DirTurned

LEMMA HashedFile ==
  ASSUME NEW e \in FileEntries, NEW p \in Int, NEW s \in Int, NEW v \in Int,
         NEW g, FileTurned(e, p, s, v, g)
  PROVE  /\ g \in FileEntries /\ g.Path = e.Path /\ g.EntryOffset = e.EntryOffset
         /\ g.ParentDirOffset = p /\ g.SiblingFileOffset = s /\ g.PrevFileOffset = v
BY DEF FileEntries, FileTurned

\* A position becomes the offset of the entry there.
LEMMA Redirects ==
  ASSUME Table(createDirs, createFiles), Growing(createDirs)
  PROVE  /\ \A x \in (0 .. (Len(createDirs) - 1)) \cup {Invalid} :
              RedirectDir(x) = LinkTo(Ats(createDirs), x) /\ RedirectDir(x) \in Int
         /\ \A x \in (0 .. (Len(createFiles) - 1)) \cup {Invalid} :
              RedirectFile(x) = LinkTo(Ats(createFiles), x) /\ RedirectFile(x) \in Int
         /\ \A x \in 0 .. (Len(createDirs) - 1) : RedirectDir(x) = Ats(createDirs)[x]
<1>1. /\ Len(createDirs) \in Nat /\ Len(createFiles) \in Nat
      /\ Growing(createFiles)
  BY DEF Table
<1>2. \A j \in 0 .. (Len(createDirs) - 1) : Ats(createDirs)[j] \in Nat
  BY <1>1, AtsDiffer
<1>3. \A j \in 0 .. (Len(createFiles) - 1) : Ats(createFiles)[j] \in Nat
  BY <1>1, AtsDiffer
<1>4. ASSUME NEW x \in 0 .. (Len(createDirs) - 1)
      PROVE  x # Invalid /\ RedirectDir(x) = Ats(createDirs)[x] /\ Ats(createDirs)[x] \in Int
  BY <1>1, <1>2 DEF RedirectDir, Dir, Ats, Invalid
<1>5. ASSUME NEW x \in 0 .. (Len(createFiles) - 1)
      PROVE  x # Invalid /\ RedirectFile(x) = Ats(createFiles)[x] /\ Ats(createFiles)[x] \in Int
  BY <1>1, <1>3 DEF RedirectFile, File, Ats, Invalid
<1>6. RedirectDir(Invalid) = Invalid /\ RedirectFile(Invalid) = Invalid /\ Invalid \in Int
  BY DEF RedirectDir, RedirectFile, Invalid
<1> QED
  BY <1>4, <1>5, <1>6 DEF LinkTo

LEMMA HashedDirs ==
  ASSUME Table(createDirs, createFiles), Growing(createDirs), CreateHash, NEW D1, D1 = createDirs'
  PROVE  DirImage(createDirs, createFiles, D1) /\ DirsHashed(createDirs, D1, dirBucket')
<1> DEFINE D == createDirs
           n == Len(D)
           count == ComputeBucketCount(n)
           key == Keys(D, D, count)
           v(j) == RedirectDir(PrevInBucket(D, count, j))
           f(k) == [D[k] EXCEPT !.ParentDirOffset  = RedirectDir(@),
                                !.SiblingDirOffset = RedirectDir(@),
                                !.ChildDirOffset   = RedirectDir(@),
                                !.ChildFileOffset  = RedirectFile(@),
                                !.PrevDirOffset    = RedirectDir(PrevInBucket(D, count, k - 1))]
<1>1. D \in Seq(DirEntries) /\ n \in Nat /\ DOMAIN D = 1 .. n
  BY DEF Table
<1>2. D1 = [k \in 1 .. n |-> f(k)]
  BY <1>1 DEF CreateHash
<1>3. dirBucket' = [b \in 0 .. (count - 1) |-> RedirectDir(Bucket(D, count)[b])]
  BY DEF CreateHash
<1>4. count \in Nat \ {0}
  BY <1>1, BucketCounts
<1>5. \A j \in 0 .. (n - 1) : HashKey(D[j + 1]) % count = key[j]
  BY HashKeys
<1> HIDE DEF count, key
<1>6. ASSUME NEW j \in 0 .. (n - 1)
      PROVE  /\ IsLast(v(j), InBucket(j, key, key[j]), Ats(D)) /\ v(j) \in Int
  <2> DEFINE x == PrevInBucket(D, count, j)
  <2>1. IsLast(LinkTo(Ats(D), x), InBucket(j, key, key[j]), Ats(D)) /\ x \in (0 .. (n - 1)) \cup {Invalid}
    <3> HIDE DEF n, D
    <3> QED
      BY <1>1, <1>5, PrevIs
  <2>2. RedirectDir(x) = LinkTo(Ats(D), x) /\ RedirectDir(x) \in Int
    BY <2>1, Redirects
  <2> QED
    BY <2>1, <2>2
<1>7. ASSUME NEW b \in 0 .. (count - 1)
      PROVE  IsLast(dirBucket'[b], InBucket(n, key, b), Ats(D))
  <2> DEFINE x == Bucket(D, count)[b]
  <2>1. IsLast(LinkTo(Ats(D), x), InBucket(n, key, b), Ats(D)) /\ x \in (0 .. (n - 1)) \cup {Invalid}
    <3> HIDE DEF D
    <3> QED
      BY <1>1, <1>5, LastIs
  <2>2. RedirectDir(x) = LinkTo(Ats(D), x)
    BY <2>1, Redirects
  <2>3. dirBucket'[b] = RedirectDir(x)
    BY <1>3
  <2> QED
    BY <2>1, <2>2, <2>3
<1>8. ASSUME NEW j \in 0 .. (n - 1)
      PROVE  /\ f(j + 1) \in DirEntries /\ f(j + 1).Path = D[j + 1].Path
             /\ f(j + 1).EntryOffset = D[j + 1].EntryOffset
             /\ f(j + 1).ParentDirOffset = Ats(D)[Pars(D)[j]]
             /\ f(j + 1).SiblingDirOffset = LinkTo(Ats(D), DirSibs(D)[j])
             /\ f(j + 1).ChildDirOffset = LinkTo(Ats(D), DirKids(D)[j])
             /\ f(j + 1).ChildFileOffset = LinkTo(Ats(createFiles), FileKids(D)[j])
             /\ f(j + 1).PrevDirOffset = v(j)
  <2> DEFINE e == D[j + 1]
             p == RedirectDir(e.ParentDirOffset)
             s == RedirectDir(e.SiblingDirOffset)
             c == RedirectDir(e.ChildDirOffset)
             l == RedirectFile(e.ChildFileOffset)
             w == v(j)
             g == f(j + 1)
  <2>1. e \in DirEntries /\ (j + 1) - 1 = j
    BY <1>1
  <2>2. /\ e.ParentDirOffset = Pars(D)[j] /\ e.SiblingDirOffset = DirSibs(D)[j]
        /\ e.ChildDirOffset = DirKids(D)[j] /\ e.ChildFileOffset = FileKids(D)[j]
    BY DEF Pars, DirSibs, DirKids, FileKids
  <2>3. /\ p = Ats(D)[Pars(D)[j]] /\ s = LinkTo(Ats(D), DirSibs(D)[j])
        /\ c = LinkTo(Ats(D), DirKids(D)[j]) /\ l = LinkTo(Ats(createFiles), FileKids(D)[j])
        /\ {p, s, c, l} \subseteq Int
    BY <2>2, LinksIn, Redirects
  <2>4. p \in Int /\ s \in Int /\ c \in Int /\ l \in Int /\ w \in Int
    BY <1>6, <2>3
  <2>5. DirTurned(e, p, s, c, l, w, g)
    BY <2>1 DEF DirTurned
  <2> HIDE DEF e, p, s, c, l, w, g
  <2>6. /\ g \in DirEntries /\ g.Path = e.Path /\ g.EntryOffset = e.EntryOffset
        /\ g.ParentDirOffset = p /\ g.SiblingDirOffset = s /\ g.ChildDirOffset = c
        /\ g.ChildFileOffset = l /\ g.PrevDirOffset = w
    BY <2>1, <2>4, <2>5, HashedDir
  <2> QED
    BY <2>3, <2>6 DEF e, w, g
<1> HIDE DEF f, v
<1>9. \A k \in 1 .. n : k - 1 \in 0 .. (n - 1) /\ (k - 1) + 1 = k
  BY <1>1
<1>10. \A k \in 1 .. n : f(k) \in DirEntries
  BY <1>8, <1>9
<1>11. D1 \in Seq(DirEntries) /\ Len(D1) = n
  BY <1>1, <1>2, <1>10
<1>12. \A j \in 0 .. (n - 1) : D1[j + 1] = f(j + 1)
  BY <1>1, <1>2
<1> HIDE DEF n
<1>13. Ats(D1) = Ats(D)
  BY <1>8, <1>11, <1>12 DEF Ats, n
<1>14. Paths(D1) = Paths(D)
  BY <1>8, <1>11, <1>12 DEF Paths, n
<1>15. ASSUME NEW j \in 0 .. (n - 1)
       PROVE  /\ Pars(D1)[j] = Ats(D)[Pars(D)[j]]
              /\ DirSibs(D1)[j] = LinkTo(Ats(D), DirSibs(D)[j])
              /\ DirKids(D1)[j] = LinkTo(Ats(D), DirKids(D)[j])
              /\ FileKids(D1)[j] = LinkTo(Ats(createFiles), FileKids(D)[j])
              /\ DirPrevs(D1)[j] = v(j)
  <2>1. /\ Pars(D1)[j] = D1[j + 1].ParentDirOffset /\ DirSibs(D1)[j] = D1[j + 1].SiblingDirOffset
        /\ DirKids(D1)[j] = D1[j + 1].ChildDirOffset /\ FileKids(D1)[j] = D1[j + 1].ChildFileOffset
        /\ DirPrevs(D1)[j] = D1[j + 1].PrevDirOffset
    BY <1>11 DEF Pars, DirSibs, DirKids, FileKids, DirPrevs
  <2> QED
    BY <1>8, <1>12, <2>1
<1>16. DirImage(D, createFiles, D1)
  BY <1>11, <1>13, <1>14, <1>15 DEF DirImage, n
<1>17. Hung(n, Ats(D), key, DirPrevs(D1))
  <2>1. /\ \A j \in 0 .. (n - 1) : Ats(D)[j] \in Nat
        /\ \A i, j \in 0 .. (n - 1) : Ats(D)[i] = Ats(D)[j] => i = j
    BY <1>1, AtsDiffer DEF n
  <2> HIDE DEF D, key
  <2> QED
    BY <1>1, <1>6, <1>15, <2>1 DEF Hung
<1>18. DOMAIN dirBucket' = 0 .. (count - 1)
  BY <1>3
<1>19. Buckets(n, Ats(D), key, DirPrevs(D1), count, dirBucket')
  BY <1>4, <1>7, <1>17, <1>18 DEF Buckets
<1>20. DirsHashed(D, D1, dirBucket')
  BY <1>19 DEF DirsHashed, n, key
<1> QED
  BY <1>16, <1>20

LEMMA HashedFiles ==
  ASSUME Table(createDirs, createFiles), Growing(createDirs), CreateHash, NEW F1, F1 = createFiles'
  PROVE  /\ FileImage(createDirs, createFiles, F1)
         /\ FilesHashed(createDirs, createFiles, F1, fileBucket')
<1> DEFINE D == createDirs
           F == createFiles
           n == Len(F)
           count == ComputeBucketCount(n)
           key == Keys(D, F, count)
           v(j) == RedirectFile(PrevInBucket(F, count, j))
           f(k) == [F[k] EXCEPT !.ParentDirOffset   = RedirectDir(@),
                                !.SiblingFileOffset = RedirectFile(@),
                                !.PrevFileOffset    = RedirectFile(PrevInBucket(F, count, k - 1))]
<1>1. F \in Seq(FileEntries) /\ n \in Nat /\ DOMAIN F = 1 .. n /\ Growing(F)
  BY DEF Table
<1>2. F1 = [k \in 1 .. n |-> f(k)]
  BY <1>1 DEF CreateHash
<1>3. fileBucket' = [b \in 0 .. (count - 1) |-> RedirectFile(Bucket(F, count)[b])]
  BY DEF CreateHash
<1>4. count \in Nat \ {0}
  BY <1>1, BucketCounts
<1>5. \A j \in 0 .. (n - 1) : HashKey(F[j + 1]) % count = key[j]
  BY HashKeys
<1> HIDE DEF count, key
<1>6. ASSUME NEW j \in 0 .. (n - 1)
      PROVE  /\ IsLast(v(j), InBucket(j, key, key[j]), Ats(F)) /\ v(j) \in Int
  <2> DEFINE x == PrevInBucket(F, count, j)
  <2>1. IsLast(LinkTo(Ats(F), x), InBucket(j, key, key[j]), Ats(F)) /\ x \in (0 .. (n - 1)) \cup {Invalid}
    <3> HIDE DEF n, F
    <3> QED
      BY <1>1, <1>5, PrevIs
  <2>2. RedirectFile(x) = LinkTo(Ats(F), x) /\ RedirectFile(x) \in Int
    BY <2>1, Redirects
  <2> QED
    BY <2>1, <2>2
<1>7. ASSUME NEW b \in 0 .. (count - 1)
      PROVE  IsLast(fileBucket'[b], InBucket(n, key, b), Ats(F))
  <2> DEFINE x == Bucket(F, count)[b]
  <2>1. IsLast(LinkTo(Ats(F), x), InBucket(n, key, b), Ats(F)) /\ x \in (0 .. (n - 1)) \cup {Invalid}
    <3> HIDE DEF F
    <3> QED
      BY <1>1, <1>5, LastIs
  <2>2. RedirectFile(x) = LinkTo(Ats(F), x)
    BY <2>1, Redirects
  <2>3. fileBucket'[b] = RedirectFile(x)
    BY <1>3
  <2> QED
    BY <2>1, <2>2, <2>3
<1>8. ASSUME NEW j \in 0 .. (n - 1)
      PROVE  /\ f(j + 1) \in FileEntries /\ f(j + 1).Path = F[j + 1].Path
             /\ f(j + 1).EntryOffset = F[j + 1].EntryOffset
             /\ f(j + 1).ParentDirOffset = Ats(D)[Pars(F)[j]]
             /\ f(j + 1).SiblingFileOffset = LinkTo(Ats(F), FileSibs(F)[j])
             /\ f(j + 1).PrevFileOffset = v(j)
  <2> DEFINE e == F[j + 1]
             p == RedirectDir(e.ParentDirOffset)
             s == RedirectFile(e.SiblingFileOffset)
             w == v(j)
             g == f(j + 1)
  <2>1. e \in FileEntries /\ (j + 1) - 1 = j
    BY <1>1
  <2>2. e.ParentDirOffset = Pars(F)[j] /\ e.SiblingFileOffset = FileSibs(F)[j]
    BY DEF Pars, FileSibs
  <2>3. p = Ats(D)[Pars(F)[j]] /\ s = LinkTo(Ats(F), FileSibs(F)[j])
    BY <2>2, LinksIn, Redirects
  <2>4. p \in Int /\ s \in Int /\ w \in Int
    BY <1>6, <2>2, LinksIn, Redirects
  <2>5. FileTurned(e, p, s, w, g)
    BY <2>1 DEF FileTurned
  <2> HIDE DEF e, p, s, w, g
  <2>6. /\ g \in FileEntries /\ g.Path = e.Path /\ g.EntryOffset = e.EntryOffset
        /\ g.ParentDirOffset = p /\ g.SiblingFileOffset = s /\ g.PrevFileOffset = w
    BY <2>1, <2>4, <2>5, HashedFile
  <2> QED
    BY <2>3, <2>6 DEF e, w, g
<1> HIDE DEF f, v
<1>9. \A k \in 1 .. n : k - 1 \in 0 .. (n - 1) /\ (k - 1) + 1 = k
  BY <1>1
<1>10. \A k \in 1 .. n : f(k) \in FileEntries
  BY <1>8, <1>9
<1>11. F1 \in Seq(FileEntries) /\ Len(F1) = n
  BY <1>1, <1>2, <1>10
<1>12. \A j \in 0 .. (n - 1) : F1[j + 1] = f(j + 1)
  BY <1>1, <1>2
<1> HIDE DEF n
<1>13. Ats(F1) = Ats(F)
  BY <1>8, <1>11, <1>12 DEF Ats, n
<1>14. Paths(F1) = Paths(F)
  BY <1>8, <1>11, <1>12 DEF Paths, n
<1>15. ASSUME NEW j \in 0 .. (n - 1)
       PROVE  /\ Pars(F1)[j] = Ats(D)[Pars(F)[j]]
              /\ FileSibs(F1)[j] = LinkTo(Ats(F), FileSibs(F)[j])
              /\ FilePrevs(F1)[j] = v(j)
  <2>1. /\ Pars(F1)[j] = F1[j + 1].ParentDirOffset /\ FileSibs(F1)[j] = F1[j + 1].SiblingFileOffset
        /\ FilePrevs(F1)[j] = F1[j + 1].PrevFileOffset
    BY <1>11 DEF Pars, FileSibs, FilePrevs
  <2> QED
    BY <1>8, <1>12, <2>1
<1>16. FileImage(D, F, F1)
  BY <1>11, <1>13, <1>14, <1>15 DEF FileImage, n
<1>17. Hung(n, Ats(F), key, FilePrevs(F1))
  <2>1. /\ \A j \in 0 .. (n - 1) : Ats(F)[j] \in Nat
        /\ \A i, j \in 0 .. (n - 1) : Ats(F)[i] = Ats(F)[j] => i = j
    BY <1>1, AtsDiffer DEF n
  <2> HIDE DEF F, key
  <2> QED
    BY <1>1, <1>6, <1>15, <2>1 DEF Hung
<1>18. DOMAIN fileBucket' = 0 .. (count - 1)
  BY <1>3
<1>19. Buckets(n, Ats(F), key, FilePrevs(F1), count, fileBucket')
  BY <1>4, <1>7, <1>17, <1>18 DEF Buckets
<1>20. FilesHashed(D, F, F1, fileBucket')
  BY <1>19 DEF FilesHashed, n, key
<1> QED
  BY <1>16, <1>20

LEMMA HashImage ==
  ASSUME Table(createDirs, createFiles), Growing(createDirs), CreateHash
  PROVE  Image(createDirs, createFiles, createDirs', createFiles', dirBucket', fileBucket')
BY HashedDirs, HashedFiles DEF Image

-----------------------------------------------------------------------------
(* Going through a bucket                                                  *)

\* Two entries of a directory differ in their names; the root is the only entry without a name.
LEMMA OnePerName ==
  ASSUME NEW G, NEW H, Table(G, H), SourceInv
  PROVE  /\ \A i, j \in 0 .. (Len(G) - 1) :
              Pars(G)[i] = Pars(G)[j] /\ NameSize(Paths(G)[i]) = NameSize(Paths(G)[j]) => i = j
         /\ \A i, j \in 0 .. (Len(H) - 1) :
              Pars(H)[i] = Pars(H)[j] /\ Last(Paths(H)[i]) = Last(Paths(H)[j]) => i = j
<1> DEFINE n == Len(G)
           m == Len(H)
<1>1. n \in Nat /\ n >= 1 /\ m \in Nat
  BY DEF Table
<1>2. Pathed(1, n, Pars(G), Paths(G), Paths(G), source.Dirs)
  BY DEF Table
<1>3. Pathed(0, m, Pars(H), Paths(H), Paths(G), source.Files)
  BY DEF Table
<1>4. Paths(G)[0] = Root
  BY <1>1 DEF Paths, Table
<1> HIDE DEF n, m
<1>5. ASSUME NEW p \in source.Dirs \cup source.Files, p # Root
      PROVE  Last(p) \in Nat /\ Last(p) # 0 /\ NameSize(p) = Last(p)
  <2>1. p \in Seq(Nat)
    BY DEF SourceInv
  <2>2. Last(p) \in Nat
    BY <1>5, <2>1, PathIs
  <2> QED
    BY <1>5, <2>2 DEF SourceInv, NameSize
<1>6. ASSUME NEW j \in 1 .. (n - 1)
      PROVE  Last(Paths(G)[j]) \in Nat /\ Last(Paths(G)[j]) # 0 /\ NameSize(Paths(G)[j]) = Last(Paths(G)[j])
  BY <1>2, <1>5 DEF Pathed
<1>7. NameSize(Paths(G)[0]) = 0
  BY <1>4 DEF NameSize
<1>8. \A j \in 0 .. (n - 1) : j = 0 \/ j \in 1 .. (n - 1)
  BY <1>1
<1>9. ASSUME NEW i \in 1 .. (n - 1), NEW j \in 1 .. (n - 1), Pars(G)[i] = Pars(G)[j],
             Last(Paths(G)[i]) = Last(Paths(G)[j])
      PROVE  i = j
  <2>1. ~(i < j) /\ ~(j < i)
    BY <1>2, <1>6, <1>9 DEF Pathed
  <2> QED
    BY <2>1
<1>10. ASSUME NEW i \in 0 .. (n - 1), NEW j \in 0 .. (n - 1), Pars(G)[i] = Pars(G)[j],
              NameSize(Paths(G)[i]) = NameSize(Paths(G)[j])
       PROVE  i = j
  BY <1>6, <1>7, <1>8, <1>9, <1>10
<1>11. ASSUME NEW j \in 0 .. (m - 1)
       PROVE  Last(Paths(H)[j]) \in Nat
  BY <1>3, <1>5 DEF Pathed
<1>12. ASSUME NEW i \in 0 .. (m - 1), NEW j \in 0 .. (m - 1), Pars(H)[i] = Pars(H)[j],
              Last(Paths(H)[i]) = Last(Paths(H)[j])
       PROVE  i = j
  <2>1. ~(i < j) /\ ~(j < i)
    BY <1>3, <1>11, <1>12 DEF Pathed
  <2> QED
    BY <2>1
<1> QED
  BY <1>10, <1>12 DEF n, m

LEMMA ManyOffsets ==
  ASSUME NEW n \in Nat, NEW off, \A i, j \in 0 .. (n - 1) : off[i] = off[j] => i = j
  PROVE  Cardinality({off[j] : j \in 0 .. (n - 1)}) = n
<1> DEFINE S == {off[j] : j \in 0 .. (n - 1)}
           f == [k \in 1 .. n |-> off[k - 1]]
<1>1. \A k \in 1 .. n : k - 1 \in 0 .. (n - 1)
  OBVIOUS
<1>2. f \in [1 .. n -> S]
  BY <1>1
<1>3. ASSUME NEW k \in 1 .. n, NEW l \in 1 .. n, f[k] = f[l]
      PROVE  k = l
  BY <1>1, <1>3
<1>4. ASSUME NEW x \in S
      PROVE  \E k \in 1 .. n : f[k] = x
  <2>1. PICK j \in 0 .. (n - 1) : x = off[j]
    OBVIOUS
  <2>2. j + 1 \in 1 .. n /\ (j + 1) - 1 = j
    OBVIOUS
  <2> QED
    BY <2>1, <2>2
<1> HIDE DEF f, S
<1>5. f \in Bijection(1 .. n, S)
  BY <1>2, <1>3, <1>4 DEF Bijection, Injection, Surjection, IsInjective
<1>6. ExistsBijection(1 .. n, S)
  BY <1>5 DEF ExistsBijection
<1>7. Cardinality(S) = n
  BY <1>6, FS_CountingElements
<1> QED
  BY <1>7 DEF S

LEMMA NamesAre ==
  ASSUME NEW G, NEW H, Table(G, H), SourceInv
  PROVE  /\ \A j \in 0 .. (Len(G) - 1) : NameSize(Paths(G)[j]) \in Nat
         /\ \A j \in 0 .. (Len(H) - 1) : NameSize(Paths(H)[j]) \in Nat
<1>1. ASSUME NEW p \in source.Dirs \cup source.Files
      PROVE  NameSize(p) \in Nat
  <2>1. p \in Seq(Nat)
    BY DEF SourceInv
  <2> QED
    BY <2>1, PathIs DEF NameSize
<1>2. \A j \in 0 .. (Len(G) - 1) : Paths(G)[j] \in source.Dirs
  BY PathsDiffer
<1>3. \A j \in 0 .. (Len(H) - 1) : Paths(H)[j] \in source.Files
  BY DEF Table, Pathed
<1> QED
  BY <1>1, <1>2, <1>3

\* What is met from the head of a bucket by the offsets of entries.
LEMMA BucketMeets ==
  ASSUME NEW n, NEW off, NEW key, NEW prev, NEW count, NEW bucket,
         Buckets(n, off, key, prev, count, bucket),
         NEW places, NEW onward, LeadsBack(n, off, prev, onward, places), NEW b \in 0 .. (count - 1)
  PROVE  /\ Cardinality(DOMAIN bucket) = count
         /\ ChainsMeet(bucket[b], onward, places, Cardinality(places),
                       OffsetsOf(off, InBucket(n, key, b)))
<1>1. Hung(n, off, key, prev) /\ IsLast(bucket[b], InBucket(n, key, b), off)
  BY DEF Buckets
<1>2. n \in Nat /\ \A i, j \in 0 .. (n - 1) : off[i] = off[j] => i = j
  BY <1>1 DEF Hung
<1>3. Cardinality(places) = n
  BY <1>2, ManyOffsets DEF LeadsBack
<1>4. ChainsMeet(bucket[b], onward, places, n, OffsetsOf(off, InBucket(n, key, b)))
  <2> DEFINE first == bucket[b]
  <2>1. IsLast(first, InBucket(n, key, b), off) /\ n \in Nat /\ n <= n
    BY <1>1, <1>2
  <2> HIDE DEF first
  <2>2. ChainsMeet(first, onward, places, n, OffsetsOf(off, InBucket(n, key, b)))
    BY <1>1, <2>1, BucketChain
  <2> QED
    BY <2>2 DEF first
<1>5. Cardinality(DOMAIN bucket) = count
  <2>1. count \in Nat \ {0} /\ DOMAIN bucket = 0 .. (count - 1)
    BY DEF Buckets
  <2>2. 0 \in Int /\ count - 1 \in Int /\ ~(0 > count - 1)
    BY <2>1
  <2>3. Cardinality(0 .. (count - 1)) = (count - 1) - 0 + 1
    BY <2>2, FS_Interval
  <2> QED
    BY <2>1, <2>3
<1> QED
  BY <1>3, <1>4, <1>5

LEMMA DirAtIs ==
  ASSUME NEW G, NEW H, Table(G, H), Growing(G), DirImage(G, H, createDirs)
  PROVE  /\ Offsets(createDirs) = {Ats(G)[j] : j \in 0 .. (Len(G) - 1)}
         /\ \A j \in 0 .. (Len(G) - 1) : createDirs[j + 1] \in Range(createDirs)
                                         /\ DirAt(Ats(G)[j]) = createDirs[j + 1]
         /\ \A e \in Range(createDirs) : \E j \in 0 .. (Len(G) - 1) : e = createDirs[j + 1]
<1> DEFINE D == createDirs
           n == Len(G)
<1>1. n \in Nat /\ D \in Seq(DirEntries) /\ Len(D) = n /\ DOMAIN D = 1 .. n
  BY DEF Table, DirImage
<1>2. \A i, j \in 0 .. (n - 1) : Ats(G)[i] = Ats(G)[j] => i = j
  BY <1>1, AtsDiffer
<1>3. ASSUME NEW j \in 0 .. (n - 1)
      PROVE  D[j + 1] \in Range(D) /\ D[j + 1].EntryOffset = Ats(G)[j]
  <2>1. j + 1 \in DOMAIN D
    BY <1>1
  <2>2. Ats(D)[j] = D[j + 1].EntryOffset
    BY <1>1 DEF Ats
  <2> QED
    BY <2>1, <2>2 DEF DirImage, Range
<1>4. ASSUME NEW e \in Range(D)
      PROVE  \E j \in 0 .. (n - 1) : e = D[j + 1]
  <2>1. PICK k \in 1 .. n : e = D[k]
    BY <1>1 DEF Range
  <2>2. k - 1 \in 0 .. (n - 1) /\ (k - 1) + 1 = k
    BY <1>1
  <2> QED
    BY <2>1, <2>2
<1> HIDE DEF n
<1>5. ASSUME NEW j \in 0 .. (n - 1)
      PROVE  DirAt(Ats(G)[j]) = D[j + 1]
  <2>1. ASSUME NEW e \in Range(D), e.EntryOffset = Ats(G)[j]
        PROVE  e = D[j + 1]
    BY <1>2, <1>3, <1>4, <2>1
  <2>2. D[j + 1] \in Range(D) /\ D[j + 1].EntryOffset = Ats(G)[j]
    BY <1>3
  <2> QED
    BY <2>1, <2>2 DEF DirAt
<1>6. Offsets(D) = {Ats(G)[j] : j \in 0 .. (n - 1)}
  BY <1>3, <1>4 DEF Offsets
<1> QED
  BY <1>3, <1>4, <1>5, <1>6 DEF n

LEMMA FileAtIs ==
  ASSUME NEW G, NEW H, Table(G, H), FileImage(G, H, createFiles)
  PROVE  /\ Offsets(createFiles) = {Ats(H)[j] : j \in 0 .. (Len(H) - 1)}
         /\ \A j \in 0 .. (Len(H) - 1) : createFiles[j + 1] \in Range(createFiles)
                                         /\ FileAt(Ats(H)[j]) = createFiles[j + 1]
         /\ \A e \in Range(createFiles) : \E j \in 0 .. (Len(H) - 1) : e = createFiles[j + 1]
<1> DEFINE F == createFiles
           n == Len(H)
<1>1. n \in Nat /\ F \in Seq(FileEntries) /\ Len(F) = n /\ DOMAIN F = 1 .. n /\ Growing(H)
  BY DEF Table, FileImage
<1>2. \A i, j \in 0 .. (n - 1) : Ats(H)[i] = Ats(H)[j] => i = j
  BY <1>1, AtsDiffer
<1>3. ASSUME NEW j \in 0 .. (n - 1)
      PROVE  F[j + 1] \in Range(F) /\ F[j + 1].EntryOffset = Ats(H)[j]
  <2>1. j + 1 \in DOMAIN F
    BY <1>1
  <2>2. Ats(F)[j] = F[j + 1].EntryOffset
    BY <1>1 DEF Ats
  <2> QED
    BY <2>1, <2>2 DEF FileImage, Range
<1>4. ASSUME NEW e \in Range(F)
      PROVE  \E j \in 0 .. (n - 1) : e = F[j + 1]
  <2>1. PICK k \in 1 .. n : e = F[k]
    BY <1>1 DEF Range
  <2>2. k - 1 \in 0 .. (n - 1) /\ (k - 1) + 1 = k
    BY <1>1
  <2> QED
    BY <2>1, <2>2
<1> HIDE DEF n
<1>5. ASSUME NEW j \in 0 .. (n - 1)
      PROVE  FileAt(Ats(H)[j]) = F[j + 1]
  <2>1. ASSUME NEW e \in Range(F), e.EntryOffset = Ats(H)[j]
        PROVE  e = F[j + 1]
    BY <1>2, <1>3, <1>4, <2>1
  <2>2. F[j + 1] \in Range(F) /\ F[j + 1].EntryOffset = Ats(H)[j]
    BY <1>3
  <2> QED
    BY <2>1, <2>2 DEF FileAt
<1>6. Offsets(F) = {Ats(H)[j] : j \in 0 .. (n - 1)}
  BY <1>3, <1>4 DEF Offsets
<1> QED
  BY <1>3, <1>4, <1>5, <1>6 DEF n

LEMMA DirLookup ==
  ASSUME SourceInv, NEW G, NEW H, Table(G, H), Growing(G), DirImage(G, H, createDirs),
         DirsHashed(G, createDirs, dirBucket), NEW e \in Range(createDirs)
  PROVE  LET bucket == dirBucket[NameHash(e.ParentDirOffset, e.Path) % Cardinality(DOMAIN dirBucket)]
             found == {x \in Chain(bucket, LAMBDA o : DirAt(o).PrevDirOffset, Offsets(createDirs)) :
                         /\ DirAt(x).ParentDirOffset = e.ParentDirOffset
                         /\ NameSize(DirAt(x).Path) = NameSize(e.Path)}
         IN found = {e.EntryOffset}
<1> DEFINE D == createDirs
           n == Len(G)
           off == Ats(G)
           places == Offsets(D)
           onward == [o \in places |-> DirAt(o).PrevDirOffset]
<1>1. n \in Nat /\ D \in Seq(DirEntries) /\ Len(D) = n
  BY DEF Table, DirImage
<1>2. /\ \A j \in 0 .. (n - 1) : off[j] \in Nat
      /\ \A i, j \in 0 .. (n - 1) : off[i] = off[j] => i = j
  BY <1>1, AtsDiffer
<1>3. /\ places = {off[j] : j \in 0 .. (n - 1)}
      /\ \A j \in 0 .. (n - 1) : DirAt(off[j]) = D[j + 1]
  BY DirAtIs
<1>4. PICK i \in 0 .. (n - 1) : e = D[i + 1]
  BY DirAtIs
<1>5. ASSUME NEW j \in 0 .. (n - 1)
      PROVE  /\ D[j + 1].EntryOffset = off[j] /\ D[j + 1].Path = Paths(G)[j]
             /\ D[j + 1].ParentDirOffset = off[Pars(G)[j]]
             /\ D[j + 1].PrevDirOffset = DirPrevs(D)[j] /\ Pars(G)[j] \in 0 .. (n - 1)
  <2>1. /\ Ats(D)[j] = D[j + 1].EntryOffset /\ Paths(D)[j] = D[j + 1].Path
        /\ Pars(D)[j] = D[j + 1].ParentDirOffset /\ DirPrevs(D)[j] = D[j + 1].PrevDirOffset
    BY <1>1 DEF Ats, Paths, Pars, DirPrevs
  <2>2. Pars(G)[j] \in 0 .. (n - 1)
    BY LinksIn
  <2> QED
    BY <2>1, <2>2 DEF DirImage
<1>6. PICK count : Buckets(n, off, Keys(G, G, count), DirPrevs(D), count, dirBucket)
  BY DEF DirsHashed
<1> DEFINE key == Keys(G, G, count)
           b == key[i]
<1>7. b = NameHash(e.ParentDirOffset, e.Path) % count
  BY <1>4, <1>5 DEF Keys
<1>8. b \in 0 .. (count - 1)
  <2>1. NameSize(Paths(G)[i]) \in Nat
    BY NamesAre
  <2>2. off[Pars(G)[i]] \in Nat
    BY <1>2, <1>5
  <2>3. NameHash(e.ParentDirOffset, e.Path) \in Nat
    BY <1>4, <1>5, <2>1, <2>2 DEF NameHash
  <2>4. count \in Nat \ {0}
    BY <1>6 DEF Buckets
  <2> HIDE DEF b
  <2> QED
    BY <1>7, <2>3, <2>4
<1>9. LeadsBack(n, off, DirPrevs(D), onward, places)
  <2>1. \A j \in 0 .. (n - 1) : onward[off[j]] = DirPrevs(D)[j]
    BY <1>3, <1>5
  <2> HIDE DEF onward
  <2> QED
    BY <1>3, <2>1 DEF LeadsBack
<1> DEFINE first == dirBucket[b]
           bound == Cardinality(places)
           met == OffsetsOf(off, InBucket(n, key, b))
<1>10. Cardinality(DOMAIN dirBucket) = count /\ ChainsMeet(first, onward, places, bound, met)
  <2> HIDE DEF n, off, key, onward, places, b, D
  <2> QED
    BY <1>6, <1>8, <1>9, BucketMeets DEF key
<1> DEFINE at == CHOOSE f : f = [k \in 0 .. bound |->
                   IF k = 0 THEN first
                   ELSE IF f[k - 1] \in places THEN DirAt(f[k - 1]).PrevDirOffset
                   ELSE Invalid]
<1>11. \A f : IsChain(f, first, onward, places, bound) <=>
             f = [k \in 0 .. bound |->
                   IF k = 0 THEN first
                   ELSE IF f[k - 1] \in places THEN DirAt(f[k - 1]).PrevDirOffset
                   ELSE Invalid]
  <2> SUFFICES ASSUME NEW f
               PROVE  [k \in 0 .. bound |->
                        IF k = 0 THEN first
                        ELSE IF f[k - 1] \in places THEN DirAt(f[k - 1]).PrevDirOffset
                        ELSE Invalid]
                      = [k \in 0 .. bound |->
                          IF k = 0 THEN first
                          ELSE IF f[k - 1] \in places THEN onward[f[k - 1]] ELSE Invalid]
    BY DEF IsChain
  <2>1. \A o \in places : onward[o] = DirAt(o).PrevDirOffset
    OBVIOUS
  <2> HIDE DEF bound, first, onward, places
  <2> QED
    BY <2>1
<1>12. {at[k] : k \in 0 .. bound} \ {Invalid} = met
  <2>1. IsChain(at, first, onward, places, bound)
    <3> HIDE DEF first, bound, onward, places, met
    <3> QED
      BY <1>10, <1>11 DEF ChainsMeet
  <2> HIDE DEF first, bound, onward, places, met, at
  <2> QED
    BY <1>10, <2>1 DEF ChainsMeet
<1>13. Chain(first, LAMBDA o : DirAt(o).PrevDirOffset, places) = {at[k] : k \in 0 .. bound} \ {Invalid}
  BY DEF Chain
<1>14. {x \in met : /\ DirAt(x).ParentDirOffset = e.ParentDirOffset
                    /\ NameSize(DirAt(x).Path) = NameSize(e.Path)} = {e.EntryOffset}
  <2>1. \A x : x \in met <=> \E j \in 0 .. (n - 1) : key[j] = b /\ x = off[j]
    BY DEF OffsetsOf, InBucket
  <2> HIDE DEF met, key, b
  <2>2. off[i] \in met
    BY <2>1 DEF b
  <2>3. ASSUME NEW x \in met, DirAt(x).ParentDirOffset = e.ParentDirOffset,
               NameSize(DirAt(x).Path) = NameSize(e.Path)
        PROVE  x = off[i]
    <3>1. PICK j \in 0 .. (n - 1) : x = off[j]
      BY <2>1
    <3>2. off[Pars(G)[j]] = off[Pars(G)[i]] /\ NameSize(Paths(G)[j]) = NameSize(Paths(G)[i])
      BY <1>3, <1>4, <1>5, <2>3, <3>1
    <3>3. Pars(G)[j] = Pars(G)[i]
      BY <1>2, <1>5, <3>2
    <3>4. j = i
      BY <3>2, <3>3, OnePerName
    <3> QED
      BY <3>1, <3>4
  <2>4. e.EntryOffset = off[i] /\ DirAt(off[i]) = e
    BY <1>3, <1>4, <1>5
  <2> QED
    BY <2>2, <2>3, <2>4
<1> HIDE DEF met, at, bound, places
<1> QED
  BY <1>7, <1>10, <1>12, <1>13, <1>14 DEF places

LEMMA FileLookup ==
  ASSUME SourceInv, NEW G, NEW H, Table(G, H), Growing(G), FileImage(G, H, createFiles),
         FilesHashed(G, H, createFiles, fileBucket), NEW e \in Range(createFiles)
  PROVE  LET bucket == fileBucket[NameHash(e.ParentDirOffset, e.Path) % Cardinality(DOMAIN fileBucket)]
             found == {x \in Chain(bucket, LAMBDA o : FileAt(o).PrevFileOffset, Offsets(createFiles)) :
                         /\ FileAt(x).ParentDirOffset = e.ParentDirOffset
                         /\ Last(FileAt(x).Path) = Last(e.Path)}
         IN found = {e.EntryOffset}
<1> DEFINE F == createFiles
           n == Len(H)
           off == Ats(H)
           up == Ats(G)
           places == Offsets(F)
           onward == [o \in places |-> FileAt(o).PrevFileOffset]
<1>1. n \in Nat /\ F \in Seq(FileEntries) /\ Len(F) = n /\ Growing(H) /\ Len(G) \in Nat
  BY DEF Table, FileImage
<1>2. /\ \A j \in 0 .. (n - 1) : off[j] \in Nat
      /\ \A j \in 0 .. (Len(G) - 1) : up[j] \in Nat
      /\ \A i, j \in 0 .. (Len(G) - 1) : up[i] = up[j] => i = j
  BY <1>1, AtsDiffer
<1>3. /\ places = {off[j] : j \in 0 .. (n - 1)}
      /\ \A j \in 0 .. (n - 1) : FileAt(off[j]) = F[j + 1]
  BY FileAtIs
<1>4. PICK i \in 0 .. (n - 1) : e = F[i + 1]
  BY FileAtIs
<1>5. ASSUME NEW j \in 0 .. (n - 1)
      PROVE  /\ F[j + 1].EntryOffset = off[j] /\ F[j + 1].Path = Paths(H)[j]
             /\ F[j + 1].ParentDirOffset = up[Pars(H)[j]]
             /\ F[j + 1].PrevFileOffset = FilePrevs(F)[j] /\ Pars(H)[j] \in 0 .. (Len(G) - 1)
  <2>1. /\ Ats(F)[j] = F[j + 1].EntryOffset /\ Paths(F)[j] = F[j + 1].Path
        /\ Pars(F)[j] = F[j + 1].ParentDirOffset /\ FilePrevs(F)[j] = F[j + 1].PrevFileOffset
    BY <1>1 DEF Ats, Paths, Pars, FilePrevs
  <2>2. Pars(H)[j] \in 0 .. (Len(G) - 1)
    BY LinksIn
  <2> QED
    BY <2>1, <2>2 DEF FileImage
<1>6. PICK count : Buckets(n, off, Keys(G, H, count), FilePrevs(F), count, fileBucket)
  BY DEF FilesHashed
<1> DEFINE key == Keys(G, H, count)
           b == key[i]
<1>7. b = NameHash(e.ParentDirOffset, e.Path) % count
  BY <1>4, <1>5 DEF Keys
<1>8. b \in 0 .. (count - 1)
  <2>1. NameSize(Paths(H)[i]) \in Nat
    BY NamesAre
  <2>2. up[Pars(H)[i]] \in Nat
    BY <1>2, <1>5
  <2>3. NameHash(e.ParentDirOffset, e.Path) \in Nat
    BY <1>4, <1>5, <2>1, <2>2 DEF NameHash
  <2>4. count \in Nat \ {0}
    BY <1>6 DEF Buckets
  <2> HIDE DEF b
  <2> QED
    BY <1>7, <2>3, <2>4
<1>9. LeadsBack(n, off, FilePrevs(F), onward, places)
  <2>1. \A j \in 0 .. (n - 1) : onward[off[j]] = FilePrevs(F)[j]
    BY <1>3, <1>5
  <2> HIDE DEF onward
  <2> QED
    BY <1>3, <2>1 DEF LeadsBack
<1> DEFINE first == fileBucket[b]
           bound == Cardinality(places)
           met == OffsetsOf(off, InBucket(n, key, b))
<1>10. Cardinality(DOMAIN fileBucket) = count /\ ChainsMeet(first, onward, places, bound, met)
  <2> HIDE DEF n, off, key, onward, places, b, F
  <2> QED
    BY <1>6, <1>8, <1>9, BucketMeets DEF key
<1> DEFINE at == CHOOSE f : f = [k \in 0 .. bound |->
                   IF k = 0 THEN first
                   ELSE IF f[k - 1] \in places THEN FileAt(f[k - 1]).PrevFileOffset
                   ELSE Invalid]
<1>11. \A f : IsChain(f, first, onward, places, bound) <=>
             f = [k \in 0 .. bound |->
                   IF k = 0 THEN first
                   ELSE IF f[k - 1] \in places THEN FileAt(f[k - 1]).PrevFileOffset
                   ELSE Invalid]
  <2> SUFFICES ASSUME NEW f
               PROVE  [k \in 0 .. bound |->
                        IF k = 0 THEN first
                        ELSE IF f[k - 1] \in places THEN FileAt(f[k - 1]).PrevFileOffset
                        ELSE Invalid]
                      = [k \in 0 .. bound |->
                          IF k = 0 THEN first
                          ELSE IF f[k - 1] \in places THEN onward[f[k - 1]] ELSE Invalid]
    BY DEF IsChain
  <2>1. \A o \in places : onward[o] = FileAt(o).PrevFileOffset
    OBVIOUS
  <2> HIDE DEF bound, first, onward, places
  <2> QED
    BY <2>1
<1>12. {at[k] : k \in 0 .. bound} \ {Invalid} = met
  <2>1. IsChain(at, first, onward, places, bound)
    <3> HIDE DEF first, bound, onward, places, met
    <3> QED
      BY <1>10, <1>11 DEF ChainsMeet
  <2> HIDE DEF first, bound, onward, places, met, at
  <2> QED
    BY <1>10, <2>1 DEF ChainsMeet
<1>13. Chain(first, LAMBDA o : FileAt(o).PrevFileOffset, places) = {at[k] : k \in 0 .. bound} \ {Invalid}
  BY DEF Chain
<1>14. {x \in met : /\ FileAt(x).ParentDirOffset = e.ParentDirOffset
                    /\ Last(FileAt(x).Path) = Last(e.Path)} = {e.EntryOffset}
  <2>1. \A x : x \in met <=> \E j \in 0 .. (n - 1) : key[j] = b /\ x = off[j]
    BY DEF OffsetsOf, InBucket
  <2> HIDE DEF met, key, b
  <2>2. off[i] \in met
    BY <2>1 DEF b
  <2>3. ASSUME NEW x \in met, FileAt(x).ParentDirOffset = e.ParentDirOffset,
               Last(FileAt(x).Path) = Last(e.Path)
        PROVE  x = off[i]
    <3>1. PICK j \in 0 .. (n - 1) : x = off[j]
      BY <2>1
    <3>2. up[Pars(H)[j]] = up[Pars(H)[i]] /\ Last(Paths(H)[j]) = Last(Paths(H)[i])
      BY <1>3, <1>4, <1>5, <2>3, <3>1
    <3>3. Pars(H)[j] = Pars(H)[i]
      BY <1>2, <1>5, <3>2
    <3>4. j = i
      BY <3>2, <3>3, OnePerName
    <3> QED
      BY <3>1, <3>4
  <2>4. e.EntryOffset = off[i] /\ FileAt(off[i]) = e
    BY <1>3, <1>4, <1>5
  <2> QED
    BY <2>2, <2>3, <2>4
<1> HIDE DEF met, at, bound, places
<1> QED
  BY <1>7, <1>10, <1>12, <1>13, <1>14 DEF places

-----------------------------------------------------------------------------
(* The image, once it has been made                                        *)

Imaged == \E G, H : Image(G, H, createDirs, createFiles, dirBucket, fileBucket)

ImageInv == TableInv /\ (step \in {"extract", "done"} => Imaged)

LEMMA SameImage ==
  ASSUME source' = source, NEW D, D = createDirs', NEW F, F = createFiles',
         NEW d, d = dirBucket', NEW f, f = fileBucket', \E G, H : Image(G, H, D, F, d, f)
  PROVE  Imaged'
<1>1. PICK G, H : Image(G, H, D, F, d, f)
  OBVIOUS
<1>2. Table(G, H)'
  BY <1>1 DEF Image, Table
<1>3. Growing(G)' /\ DirImage(G, H, createDirs)' /\ FileImage(G, H, createFiles)'
  BY <1>1 DEF Image
<1>4. DirsHashed(G, createDirs, dirBucket)' /\ FilesHashed(G, H, createFiles, fileBucket)'
  BY <1>1 DEF Image
<1>5. Image(G, H, createDirs, createFiles, dirBucket, fileBucket)'
  BY <1>2, <1>3, <1>4 DEF Image
<1> QED
  BY <1>5 DEF Imaged

LEMMA KeepImage == ImageInv /\ [TreeNext]_treeVars => ImageInv'
<1> SUFFICES ASSUME ImageInv, [TreeNext]_treeVars PROVE ImageInv'
  OBVIOUS
<1>1. TableInv /\ TableInv'
  BY KeepTable DEF ImageInv
<1>2. source' = source
  BY DEF TreeNext, ReadDirectory, NextDirectory, EndList, RemoveEmptyDir, PlaceDirs,
         CreateHash, Extract, treeVars
<1>3. CASE CreateHash
  <2>1. Table(createDirs, createFiles) /\ Growing(createDirs)
    BY <1>1, <1>3 DEF TableInv, CreateHash
  <2>2. Image(createDirs, createFiles, createDirs', createFiles', dirBucket', fileBucket')
    BY <1>3, <2>1, HashImage
  <2>3. \E G, H : Image(G, H, createDirs', createFiles', dirBucket', fileBucket')
    BY <2>2
  <2>4. Imaged'
    BY <1>2, <2>3, SameImage
  <2> QED
    BY <1>1, <2>4 DEF ImageInv
<1>4. CASE Extract \/ UNCHANGED treeVars
  <2>1. /\ createDirs' = createDirs /\ createFiles' = createFiles
        /\ dirBucket' = dirBucket /\ fileBucket' = fileBucket
    BY <1>4 DEF Extract, treeVars, tableVars
  <2>2. step' \in {"extract", "done"} => step \in {"extract", "done"}
    BY <1>4 DEF Extract, treeVars
  <2>3. Imaged => Imaged'
    BY <1>2, <2>1, SameImage DEF Imaged
  <2> QED
    BY <1>1, <2>2, <2>3 DEF ImageInv
<1>5. CASE ReadDirectory \/ NextDirectory \/ EndList \/ RemoveEmptyDir \/ PlaceDirs
  <2>1. step' \notin {"extract", "done"}
    BY <1>5 DEF ReadDirectory, NextDirectory, EndList, RemoveEmptyDir, PlaceDirs
  <2> QED
    BY <1>1, <2>1 DEF ImageInv
<1> QED
  BY <1>3, <1>4, <1>5 DEF TreeNext

LEMMA ImageAlways == TreeSpec => []ImageInv
<1>1. TreeInit => ImageInv
  BY InitTable DEF ImageInv, TreeInit
<1> QED
  BY <1>1, KeepImage, PTL DEF TreeSpec

\* Whatever tree an image was made from, going through a bucket of its hash tables one
\* finds every entry by its parent and its name, and no other.
THEOREM LookupAlwaysFinds == TreeSpec => []LookupFindsEntries
<1>1. ImageInv => LookupFindsEntries
  <2> SUFFICES ASSUME ImageInv, step = "extract" PROVE LookupFindsEntries
    BY DEF LookupFindsEntries
  <2>1. SourceInv
    BY DEF ImageInv, TableInv
  <2>2. PICK G, H : Image(G, H, createDirs, createFiles, dirBucket, fileBucket)
    BY DEF ImageInv, Imaged
  <2>3. /\ Table(G, H) /\ Growing(G) /\ DirImage(G, H, createDirs) /\ FileImage(G, H, createFiles)
        /\ DirsHashed(G, createDirs, dirBucket) /\ FilesHashed(G, H, createFiles, fileBucket)
    BY <2>2 DEF Image
  <2>4. ASSUME NEW e \in Range(createDirs)
        PROVE  LET bucket == dirBucket[NameHash(e.ParentDirOffset, e.Path)
                                         % Cardinality(DOMAIN dirBucket)]
                   found == {x \in Chain(bucket, LAMBDA o : DirAt(o).PrevDirOffset, Offsets(createDirs)) :
                               /\ DirAt(x).ParentDirOffset = e.ParentDirOffset
                               /\ NameSize(DirAt(x).Path) = NameSize(e.Path)}
               IN found = {e.EntryOffset}
    BY <2>1, <2>3, DirLookup
  <2>5. ASSUME NEW e \in Range(createFiles)
        PROVE  LET bucket == fileBucket[NameHash(e.ParentDirOffset, e.Path)
                                          % Cardinality(DOMAIN fileBucket)]
                   found == {x \in Chain(bucket, LAMBDA o : FileAt(o).PrevFileOffset, Offsets(createFiles)) :
                               /\ FileAt(x).ParentDirOffset = e.ParentDirOffset
                               /\ Last(FileAt(x).Path) = Last(e.Path)}
               IN found = {e.EntryOffset}
    BY <2>1, <2>3, FileLookup
  <2> QED
    BY <2>4, <2>5 DEF LookupFindsEntries
<1> QED
  BY <1>1, ImageAlways, PTL

=============================================================================
