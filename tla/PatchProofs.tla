----------------------------- MODULE PatchProofs -----------------------------
(***************************************************************************)
(* A patch turns the old file into the new one, for any number of          *)
(* partitions and parts of any size, any alignment, any buffers and any    *)
(* number of kills.                                                        *)
(*                                                                         *)
(* From the tables of the two files (Laid) follows what a turn of the      *)
(* search may overwrite: Apart and Free.  A list of commands Leads from    *)
(* one file to another one by files that are Fine: each move finds the     *)
(* bytes of the old file, and no file on the way, nor one that is made by  *)
(* a part of a move, has all new headers unless it has all new parts.      *)
(* DiffInv says what the commands lead to while CreatePatchFile writes     *)
(* them, ApplyInv where ApplyPatchFile is on that way.                     *)
(***************************************************************************)
EXTENDS Patch, FiniteSetTheorems, SequenceTheorems, WellFoundedInduction, TLAPS

-----------------------------------------------------------------------------
(* Numbers                                                                 *)

Less == {ss \in Nat \X Nat : ss[1] < ss[2]}

LEMMA Smallest ==
  ASSUME NEW S, S \subseteq Nat, S # {}
  PROVE  \E x \in S : \A y \in S : x <= y
<1>1. IsWellFoundedOn(Less, Nat)
  BY NatLessThanWellFounded DEF OpToRel, Less
<1>2. PICK x \in S : \A y \in S : <<y, x>> \notin Less
  BY <1>1, WFMin, Zenon
<1>3. ASSUME NEW y \in S
      PROVE  x <= y
  <2>1. x \in Nat /\ y \in Nat
    OBVIOUS
  <2>2. y < x => <<y, x>> \in Less
    BY <2>1 DEF Less
  <2> QED
    BY <1>2, <2>1, <2>2
<1> QED
  BY <1>3

LEMMA MinProperties ==
  ASSUME NEW S, S \subseteq Nat, S # {}
  PROVE  Min(S) \in S /\ \A y \in S : Min(S) <= y
BY Smallest DEF Min

LEMMA MaxProperties ==
  ASSUME NEW S, S \subseteq Nat, S # {}, NEW bound \in Nat, \A x \in S : x <= bound
  PROVE  Max(S) \in S /\ \A y \in S : y <= Max(S)
<1> DEFINE B == {b \in Nat : \A x \in S : x <= b}
<1>1. B \subseteq Nat /\ bound \in B
  OBVIOUS
<1>2. PICK m \in B : \A b \in B : m <= b
  BY <1>1, Smallest
<1>3. m \in S
  <2> SUFFICES ASSUME m \notin S PROVE FALSE
    OBVIOUS
  <2>1. PICK x \in S : TRUE
    OBVIOUS
  <2>2. m \in Nat /\ m - 1 \in Nat
    BY <2>1
  <2>3. m - 1 \in B
    BY <2>2
  <2> QED
    BY <1>2, <2>2, <2>3
<1>4. \A y \in S : y <= m
  OBVIOUS
<1>5. \E x \in S : \A y \in S : x >= y
  BY <1>3, <1>4
<1>6. Max(S) \in S /\ \A y \in S : Max(S) >= y
  BY <1>5 DEF Max
<1> QED
  BY <1>6

\* What holds of 0 and of the number behind each one it holds of, up to n.
LEMMA UpTo ==
  ASSUME NEW n \in Nat, NEW S, 0 \in S, \A k \in 0 .. (n - 1) : k \in S => k + 1 \in S
  PROVE  \A k \in 0 .. n : k \in S
<1> SUFFICES ASSUME {k \in 0 .. n : k \notin S} # {} PROVE FALSE
  OBVIOUS
<1> DEFINE Rest == {k \in 0 .. n : k \notin S}
<1>1. Rest \subseteq Nat /\ Rest # {}
  OBVIOUS
<1> HIDE DEF Rest
<1>2. PICK m \in Rest : \A k \in Rest : m <= k
  BY <1>1, Smallest
<1>3. m \in 0 .. n /\ m \notin S /\ m # 0
  BY <1>2 DEF Rest
<1>4. m - 1 \in 0 .. (n - 1) /\ m - 1 \notin Rest
  BY <1>2, <1>3
<1>5. m - 1 \in S
  BY <1>3, <1>4 DEF Rest
<1>6. (m - 1) + 1 \in S
  BY <1>4, <1>5
<1> QED
  BY <1>3, <1>6

\* A function that is defined by recursion from 0 upwards exists.
Recurs(f, n, a, h) == \A k \in 0 .. n : f[k] = IF k = 0 THEN a ELSE h[<<k, f[k - 1]>>]

LEMMA Recursion ==
  ASSUME NEW n \in Nat, NEW V, NEW a \in V, NEW h \in [(1 .. n) \X V -> V]
  PROVE  \E f \in [0 .. n -> V] : Recurs(f, n, a, h)
<1> DEFINE Starts(f, m) == \A k \in 0 .. m : f[k] = IF k = 0 THEN a ELSE h[<<k, f[k - 1]>>]
           S == {m \in 0 .. n : \E f \in [0 .. m -> V] : Starts(f, m)}
<1>1. 0 \in S
  <2> DEFINE g == [k \in 0 .. 0 |-> a]
  <2>1. g \in [0 .. 0 -> V] /\ Starts(g, 0) /\ 0 \in 0 .. n
    OBVIOUS
  <2> HIDE DEF g, Starts
  <2> QED
    BY <2>1
<1>2. ASSUME NEW m \in 0 .. (n - 1), m \in S
      PROVE  m + 1 \in S
  <2>1. PICK f \in [0 .. m -> V] : Starts(f, m)
    BY <1>2
  <2> DEFINE g == [k \in 0 .. (m + 1) |-> IF k = m + 1 THEN h[<<k, f[m]>>] ELSE f[k]]
  <2>2. h[<<m + 1, f[m]>>] \in V
    OBVIOUS
  <2>3. g \in [0 .. (m + 1) -> V]
    BY <2>2
  <2>4. ASSUME NEW k \in 0 .. (m + 1)
        PROVE  g[k] = IF k = 0 THEN a ELSE h[<<k, g[k - 1]>>]
    <3>1. CASE k = m + 1
      <4>1. k # 0 /\ g[k] = h[<<k, f[m]>>] /\ k - 1 = m /\ m \in 0 .. (m + 1) /\ m # m + 1
        BY <3>1
      <4>2. g[m] = f[m]
        BY <4>1
      <4> QED
        BY <4>1, <4>2
    <3>2. CASE k = 0
      <4>1. 0 \in 0 .. m /\ 0 # m + 1
        OBVIOUS
      <4>2. g[k] = f[0] /\ f[0] = a
        BY <2>1, <3>2, <4>1
      <4> QED
        BY <3>2, <4>2
    <3>3. CASE k # 0 /\ k # m + 1
      <4>1. k \in 0 .. m /\ k - 1 \in 0 .. m
        BY <3>3
      <4>2. g[k] = f[k] /\ g[k - 1] = f[k - 1]
        BY <4>1
      <4>3. f[k] = h[<<k, f[k - 1]>>]
        BY <2>1, <4>1, <3>3
      <4> QED
        BY <4>2, <4>3, <3>3
    <3> QED
      BY <3>1, <3>2, <3>3
  <2>5. Starts(g, m + 1)
    BY <2>4
  <2> HIDE DEF g, Starts
  <2>6. m + 1 \in 0 .. n
    OBVIOUS
  <2> QED
    BY <2>3, <2>5, <2>6
<1> HIDE DEF S
<1>3. n \in S
  BY <1>1, <1>2, UpTo
<1>4. PICK f \in [0 .. n -> V] : Starts(f, n)
  BY <1>3 DEF S
<1> QED
  BY <1>4 DEF Recurs

-----------------------------------------------------------------------------
(* Sequences                                                               *)

IsSeq(s) == \E S : s \in Seq(S)

LEMMA SeqProperties ==
  ASSUME NEW s, IsSeq(s)
  PROVE  Len(s) \in Nat /\ DOMAIN s = 1 .. Len(s)
BY DEF IsSeq

LEMMA OneSeq ==
  ASSUME NEW c
  PROVE  IsSeq(<<c>>) /\ Len(<<c>>) = 1 /\ <<c>>[1] = c
<1>1. <<c>> \in Seq({c})
  OBVIOUS
<1> QED
  BY <1>1 DEF IsSeq

LEMMA NoSeq == IsSeq(<<>>) /\ Len(<<>>) = 0
<1>1. <<>> \in Seq({})
  OBVIOUS
<1> QED
  BY <1>1 DEF IsSeq

LEMMA ConcatSeq ==
  ASSUME NEW a, NEW b, IsSeq(a), IsSeq(b)
  PROVE  /\ IsSeq(a \o b) /\ Len(a \o b) = Len(a) + Len(b)
         /\ \A i \in 1 .. Len(a) : (a \o b)[i] = a[i]
         /\ \A i \in 1 .. Len(b) : (a \o b)[Len(a) + i] = b[i]
         /\ \A i \in (Len(a) + 1) .. (Len(a) + Len(b)) : (a \o b)[i] = b[i - Len(a)]
<1>1. PICK S, T : a \in Seq(S) /\ b \in Seq(T)
  BY DEF IsSeq
<1>2. a \in Seq(S \cup T) /\ b \in Seq(S \cup T)
  BY <1>1, SeqMonotonic
<1>3. /\ a \o b \in Seq(S \cup T) /\ Len(a \o b) = Len(a) + Len(b)
      /\ \A i \in 1 .. Len(a) + Len(b) :
           (a \o b)[i] = IF i <= Len(a) THEN a[i] ELSE b[i - Len(a)]
  BY <1>2, ConcatProperties
<1>4. Len(a) \in Nat /\ Len(b) \in Nat
  BY <1>1
<1>5. IsSeq(a \o b)
  BY <1>3 DEF IsSeq
<1>6. \A i \in 1 .. Len(a) : (a \o b)[i] = a[i]
  BY <1>3, <1>4
<1>7. \A i \in (Len(a) + 1) .. (Len(a) + Len(b)) : (a \o b)[i] = b[i - Len(a)]
  BY <1>3, <1>4
<1>8. ASSUME NEW i \in 1 .. Len(b)
      PROVE  (a \o b)[Len(a) + i] = b[i]
  <2>1. Len(a) + i \in (Len(a) + 1) .. (Len(a) + Len(b)) /\ (Len(a) + i) - Len(a) = i
    BY <1>4
  <2> QED
    BY <1>7, <2>1
<1> QED
  BY <1>3, <1>5, <1>6, <1>7, <1>8

LEMMA ConcatNothing ==
  ASSUME NEW a, IsSeq(a)
  PROVE  a \o <<>> = a /\ <<>> \o a = a
BY ConcatEmptySeq DEF IsSeq

LEMMA ConcatThree ==
  ASSUME NEW a, NEW b, NEW c, IsSeq(a), IsSeq(b), IsSeq(c)
  PROVE  (a \o b) \o c = a \o (b \o c)
<1>1. PICK S, T, U : a \in Seq(S) /\ b \in Seq(T) /\ c \in Seq(U)
  BY DEF IsSeq
<1> DEFINE V == S \cup T \cup U
<1>2. S \subseteq V /\ T \subseteq V /\ U \subseteq V
  OBVIOUS
<1> HIDE DEF V
<1>3. a \in Seq(V) /\ b \in Seq(V) /\ c \in Seq(V)
  BY <1>1, <1>2, SeqMonotonic
<1> QED
  BY <1>3, ConcatAssociative

LEMMA TupleSeq ==
  ASSUME NEW n \in Nat, NEW f, f = [i \in 1 .. n |-> f[i]]
  PROVE  IsSeq(f) /\ Len(f) = n
<1> DEFINE S == {f[i] : i \in 1 .. n}
<1>1. \A i \in 1 .. n : f[i] \in S
  OBVIOUS
<1> HIDE DEF S
<1>2. f \in [1 .. n -> S]
  BY <1>1
<1>3. f \in Seq(S)
  BY <1>2
<1>4. Len(f) = n
  BY <1>2, <1>3
<1> QED
  BY <1>3, <1>4 DEF IsSeq

-----------------------------------------------------------------------------
(* Files                                                                   *)

IsFile(f) == f = [x \in DOMAIN f |-> f[x]] /\ \E n \in Nat : DOMAIN f = 0 .. (n - 1)

LEMMA LengthOf ==
  ASSUME NEW f, NEW n \in Nat, DOMAIN f = 0 .. (n - 1)
  PROVE  Length(f) = n
<1>1. Cardinality(0 .. (n - 1)) = IF 0 > n - 1 THEN 0 ELSE (n - 1) - 0 + 1
  BY FS_Interval
<1> QED
  BY <1>1 DEF Length

LEMMA FileProperties ==
  ASSUME NEW f, IsFile(f)
  PROVE  Length(f) \in Nat /\ DOMAIN f = 0 .. (Length(f) - 1)
<1>1. PICK n \in Nat : DOMAIN f = 0 .. (n - 1)
  BY DEF IsFile
<1>2. Length(f) = n
  BY <1>1, LengthOf
<1> QED
  BY <1>1, <1>2

LEMMA FilesEqual ==
  ASSUME NEW f, NEW g, IsFile(f), IsFile(g), Length(f) = Length(g),
         \A x \in 0 .. (Length(f) - 1) : f[x] = g[x]
  PROVE  f = g
<1>1. DOMAIN f = 0 .. (Length(f) - 1) /\ DOMAIN g = 0 .. (Length(f) - 1)
  BY FileProperties
<1> QED
  BY <1>1 DEF IsFile

\* The file g is f but that the data are written at at.
IsWritten(g, f, at, data) ==
  LET end == at + Len(data) IN
  /\ IsFile(g) /\ Length(g) = IF end > Length(f) THEN end ELSE Length(f)
  /\ \A x \in at .. (end - 1) : x \in DOMAIN g /\ g[x] = data[x - at + 1]
  /\ \A x \in DOMAIN f : x < at \/ end <= x => x \in DOMAIN g /\ g[x] = f[x]
  /\ \A x \in Length(f) .. (at - 1) : x < Length(g) => g[x] = Filler

LEMMA WrittenFile ==
  ASSUME NEW f, NEW at \in Nat, NEW data, IsFile(f), IsSeq(data)
  PROVE  IsWritten(Written(f, at, data), f, at, data)
<1> DEFINE n == Length(f)
           end == at + Len(data)
           size == IF end > n THEN end ELSE n
           g == Written(f, at, data)
<1>1. n \in Nat /\ end \in Nat /\ DOMAIN f = 0 .. (n - 1) /\ at <= end
  BY FileProperties, SeqProperties
<1>2. g = [x \in 0 .. (size - 1) |->
             IF at <= x /\ x < end THEN data[x - at + 1] ELSE IF x < n THEN f[x] ELSE Filler]
  BY DEF Written
<1>3. size \in Nat
  BY <1>1
<1> HIDE DEF g, end, n, size
<1>4. DOMAIN g = 0 .. (size - 1)
  BY <1>2
<1>5. Length(g) = size
  BY <1>3, <1>4, LengthOf
<1>6. IsFile(g)
  <2>1. g = [x \in DOMAIN g |-> g[x]]
    BY <1>2
  <2> QED
    BY <1>3, <1>4, <2>1 DEF IsFile
<1>7. \A x \in at .. (end - 1) : x \in DOMAIN g /\ g[x] = data[x - at + 1]
  BY <1>1, <1>2, <1>4 DEF size
<1>8. \A x \in DOMAIN f : x < at \/ end <= x => x \in DOMAIN g /\ g[x] = f[x]
  BY <1>1, <1>2, <1>4 DEF size
<1>9. \A x \in n .. (at - 1) : x < Length(g) => g[x] = Filler
  BY <1>1, <1>2, <1>4, <1>5 DEF size
<1> QED
  BY <1>5, <1>6, <1>7, <1>8, <1>9 DEF size, n, end, g, IsWritten

LEMMA ChunkSeq ==
  ASSUME NEW f, NEW from \in Nat, NEW size \in Nat
  PROVE  /\ IsSeq(Chunk(f, from, size)) /\ Len(Chunk(f, from, size)) = size
         /\ \A k \in 1 .. size : Chunk(f, from, size)[k] = f[from + k - 1]
<1> DEFINE s == Chunk(f, from, size)
<1>1. s = [k \in 1 .. size |-> f[from + k - 1]]
  BY DEF Chunk
<1> HIDE DEF s
<1>2. s = [k \in 1 .. size |-> s[k]]
  BY <1>1
<1>3. IsSeq(s) /\ Len(s) = size
  BY <1>2, TupleSeq
<1> QED
  BY <1>1, <1>3 DEF s

\* The file g is f but for its bytes from lo to hi - 1, and no longer than up to there.
Same(f, g, lo, hi) ==
  /\ \A x \in DOMAIN f : x < lo \/ hi <= x => x \in DOMAIN g /\ g[x] = f[x]
  /\ Length(f) <= Length(g) /\ (Length(g) <= Length(f) \/ Length(g) <= hi)

LEMMA SameAsItself ==
  ASSUME NEW f, NEW lo \in Nat, NEW hi \in Nat, IsFile(f)
  PROVE  Same(f, f, lo, hi)
BY FileProperties DEF Same

LEMMA SameTwice ==
  ASSUME NEW f, NEW g, NEW h, NEW lo \in Nat, NEW hi \in Nat,
         IsFile(f), IsFile(g), IsFile(h), Same(f, g, lo, hi), Same(g, h, lo, hi)
  PROVE  Same(f, h, lo, hi)
<1>1. Length(f) \in Nat /\ Length(g) \in Nat /\ Length(h) \in Nat
  BY FileProperties
<1> QED
  BY <1>1 DEF Same

LEMMA SameWider ==
  ASSUME NEW f, NEW g, NEW lo \in Nat, NEW hi \in Nat, NEW low \in Nat, NEW high \in Nat,
         IsFile(f), IsFile(g), Same(f, g, lo, hi), low <= lo, hi <= high
  PROVE  Same(f, g, low, high)
<1>1. Length(f) \in Nat /\ Length(g) \in Nat /\ DOMAIN f = 0 .. (Length(f) - 1)
  BY FileProperties
<1> QED
  BY <1>1 DEF Same

LEMMA WrittenSame ==
  ASSUME NEW f, NEW at \in Nat, NEW data, IsFile(f), IsSeq(data)
  PROVE  Same(f, Written(f, at, data), at, at + Len(data))
<1>1. Length(f) \in Nat /\ Len(data) \in Nat
  BY FileProperties, SeqProperties
<1> DEFINE g == Written(f, at, data)
           end == at + Len(data)
<1>2. /\ IsFile(g) /\ Length(g) = IF end > Length(f) THEN end ELSE Length(f)
      /\ \A x \in DOMAIN f : x < at \/ end <= x => x \in DOMAIN g /\ g[x] = f[x]
  BY WrittenFile DEF IsWritten
<1>3. end \in Nat
  BY <1>1
<1> HIDE DEF g, end
<1>4. Same(f, g, at, end)
  BY <1>1, <1>2, <1>3 DEF Same
<1> QED
  BY <1>4 DEF g, end

\* The file g is f but that the bytes of s from "from" are written at at.
IsCopy(g, f, s, at, from, size) ==
  /\ IsFile(g) /\ Length(g) = IF at + size > Length(f) THEN at + size ELSE Length(f)
  /\ \A x \in at .. (at + size - 1) : g[x] = s[from + x - at]
  /\ \A x \in 0 .. (Length(f) - 1) : x < at \/ at + size <= x => g[x] = f[x]
  /\ \A x \in Length(f) .. (at - 1) : x < Length(g) => g[x] = Filler

LEMMA CopiedFile ==
  ASSUME NEW f, NEW s, NEW at \in Nat, NEW from \in Nat, NEW size \in Nat, IsFile(f)
  PROVE  IsCopy(Written(f, at, Chunk(s, from, size)), f, s, at, from, size)
<1> DEFINE g == Written(f, at, Chunk(s, from, size))
           n == Length(f)
<1> SUFFICES IsCopy(g, f, s, at, from, size)
  OBVIOUS
<1> DEFINE data == Chunk(s, from, size)
<1>1. IsSeq(data) /\ Len(data) = size /\ \A k \in 1 .. size : data[k] = s[from + k - 1]
  BY ChunkSeq
<1>2. g = Written(f, at, data) /\ n = Length(f)
  OBVIOUS
<1> HIDE DEF data, g, n
<1>3. /\ IsFile(g) /\ Length(g) = IF at + Len(data) > n THEN at + Len(data) ELSE n
      /\ \A x \in at .. (at + Len(data) - 1) : g[x] = data[x - at + 1]
      /\ \A x \in DOMAIN f : x < at \/ at + Len(data) <= x => g[x] = f[x]
      /\ \A x \in n .. (at - 1) : x < Length(g) => g[x] = Filler
  <2>1. IsWritten(g, f, at, data)
    BY <1>1, <1>2, WrittenFile
  <2> QED
    BY <1>2, <2>1 DEF IsWritten
<1>4. \A x \in at .. (at + size - 1) : g[x] = s[from + x - at]
  <2> TAKE x \in at .. (at + size - 1)
  <2>1. x - at + 1 \in 1 .. size /\ from + (x - at + 1) - 1 = from + x - at
    OBVIOUS
  <2>2. data[x - at + 1] = s[from + (x - at + 1) - 1]
    BY <1>1, <2>1
  <2>3. g[x] = data[x - at + 1]
    BY <1>1, <1>3
  <2> QED
    BY <2>1, <2>2, <2>3
<1>5. DOMAIN f = 0 .. (n - 1)
  BY FileProperties DEF n
<1> QED
  BY <1>1, <1>2, <1>3, <1>4, <1>5 DEF IsCopy

-----------------------------------------------------------------------------
(* Moves                                                                   *)

Finds(f, c) ==
  \A x \in c.From .. (c.From + c.Size - 1) : x \in DOMAIN f /\ f[x] = old.Bytes[x]

IsMove(c) == c.Command = "Move" /\ c.From \in Nat /\ c.To \in Nat /\ c.Size \in Nat \ {0}

\* How many bytes m chunks hold, and the first of those copied: from the head when
\* they move down, else from the end.
Copied(c, m) == IF m * MoveBuffer < c.Size THEN m * MoveBuffer ELSE c.Size
First(c, m) == IF c.From > c.To THEN 0 ELSE c.Size - Copied(c, m)

\* The file after m chunks of a move are copied.
Partly(f, c, m) ==
  IF m = 0 THEN f
  ELSE Written(f, c.To + First(c, m), Chunk(f, c.From + First(c, m), Copied(c, m)))

LEMMA ChunksOf ==
  ASSUME NEW c, IsMove(c)
  PROVE  LET chunks == Chunks(c.Size, c.From > c.To)
             n == Len(chunks)
         IN /\ IsSeq(chunks) /\ n \in Nat \ {0} /\ Copied(c, n) = c.Size
            /\ \A m \in 0 .. (n - 1) : m * MoveBuffer < c.Size
            /\ \A m \in 0 .. (n - 1) :
                 /\ chunks[m + 1].Size = Copied(c, m + 1) - Copied(c, m)
                 /\ chunks[m + 1].Size \in Nat \ {0}
                 /\ chunks[m + 1].At = IF c.From > c.To THEN Copied(c, m) ELSE First(c, m + 1)
                 /\ First(c, m + 1) \in Nat /\ Copied(c, m) \in Nat /\ Copied(c, m + 1) \in Nat
                 /\ Copied(c, m + 1) <= c.Size /\ First(c, m + 1) + Copied(c, m + 1) <= c.Size
<1> DEFINE size == c.Size
           b == MoveBuffer
           n == (size + b - 1) \div b
           down == c.From > c.To
           rest(k) == size - (k - 1) * b
           length(k) == IF rest(k) > b THEN b ELSE rest(k)
           chunks == Chunks(size, down)
<1>1. size \in Nat \ {0} /\ b \in Nat \ {0} /\ c.From \in Nat /\ c.To \in Nat
  BY PatchAssumption DEF IsMove
<1>2. chunks = [k \in 1 .. n |-> [At |-> IF down THEN (k - 1) * b ELSE rest(k) - length(k),
                                  Size |-> length(k)]]
  BY DEF Chunks
<1>3. n \in Nat \ {0} /\ n * b >= size /\ (n - 1) * b < size
  <2> DEFINE s == size + b - 1
             r == s % b
  <2>1. s \in Nat /\ r \in 0 .. (b - 1) /\ s = b * (s \div b) + r /\ s \div b \in Nat
    BY <1>1
  <2> HIDE DEF s, size, b
  <2>2. PICK q \in Nat : q = s \div b /\ s = b * q + r
    BY <2>1
  <2> HIDE DEF r
  <2>9. n = q
    BY <2>2 DEF s
  <2> HIDE DEF n
  <2>3. b * n = s - r /\ n \in Nat
    <3>1. b * q \in Nat
      BY <1>1
    <3>2. b * q = s - r
      BY <2>1, <2>2, <3>1, <1>1
    <3> QED
      BY <2>9, <3>2
  <2>4. b * n >= size /\ b * n < size + b
    BY <2>1, <2>3, <1>1 DEF s
  <2>5. n * b = b * n /\ (n - 1) * b = b * n - b
    BY <2>3, <1>1
  <2>6. n # 0
    BY <2>3, <2>4, <1>1
  <2> QED
    BY <2>3, <2>4, <2>5, <2>6, <1>1
<1> HIDE DEF n
<1>4. IsSeq(chunks) /\ Len(chunks) = n
  <2> HIDE DEF rest, length
  <2>1. chunks = [k \in 1 .. n |-> chunks[k]]
    BY <1>2
  <2> HIDE DEF chunks
  <2> QED
    BY <1>3, <2>1, TupleSeq
<1>5. Copied(c, n) = c.Size
  BY <1>1, <1>3 DEF Copied
<1>6. ASSUME NEW m \in 0 .. (n - 1)
      PROVE  /\ m * MoveBuffer < c.Size
             /\ chunks[m + 1].Size = Copied(c, m + 1) - Copied(c, m)
             /\ chunks[m + 1].Size \in Nat \ {0}
             /\ chunks[m + 1].At = IF c.From > c.To THEN Copied(c, m) ELSE First(c, m + 1)
             /\ First(c, m + 1) \in Nat /\ Copied(c, m) \in Nat /\ Copied(c, m + 1) \in Nat
             /\ Copied(c, m + 1) <= c.Size /\ First(c, m + 1) + Copied(c, m + 1) <= c.Size
  <2> DEFINE p == m * b
  <2>1. m \in Nat /\ m + 1 \in 1 .. n /\ (m + 1) - 1 = m
    BY <1>3
  <2>2. p \in Nat /\ (m + 1) * b = p + b
    BY <1>1, <2>1
  <2>3. p < size
    <3> DEFINE e == (n - 1) - m
    <3>1. e \in Nat /\ (n - 1) * b = p + e * b /\ e * b \in Nat
      BY <1>1, <1>3, <2>1
    <3> HIDE DEF p, e, b, size
    <3> QED
      BY <1>1, <1>3, <2>2, <3>1
  <2>4. rest(m + 1) = size - p
    BY <2>1
  <2>5. /\ chunks[m + 1].Size = length(m + 1)
        /\ chunks[m + 1].At = IF down THEN p ELSE rest(m + 1) - length(m + 1)
    <3> HIDE DEF rest, length, chunks, p, down
    <3>1. m + 1 \in 1 .. n
      BY <2>1
    <3>2. chunks[m + 1] = [At |-> IF down THEN ((m + 1) - 1) * b ELSE rest(m + 1) - length(m + 1),
                           Size |-> length(m + 1)]
      BY <3>1, <1>2
    <3>3. ((m + 1) - 1) * b = p
      BY <2>1 DEF p
    <3> QED
      BY <3>2, <3>3
  <2>6. Copied(c, m) = p /\ Copied(c, m + 1) = IF p + b < size THEN p + b ELSE size
    BY <2>2, <2>3 DEF Copied
  <2> HIDE DEF p, b, size, rest, chunks
  <2>7. length(m + 1) = Copied(c, m + 1) - p /\ length(m + 1) \in Nat \ {0}
    BY <1>1, <2>2, <2>3, <2>4, <2>6
  <2>8. Copied(c, m + 1) \in Nat /\ Copied(c, m + 1) <= size /\ p \in Nat
    BY <1>1, <2>2, <2>6
  <2>9. First(c, m + 1) = (IF down THEN 0 ELSE size - Copied(c, m + 1))
    BY DEF First, size
  <2> HIDE DEF length, down
  <2>10. chunks[m + 1].At = IF down THEN Copied(c, m) ELSE First(c, m + 1)
    BY <1>1, <2>4, <2>5, <2>6, <2>7, <2>8, <2>9
  <2>11. First(c, m + 1) \in Nat /\ First(c, m + 1) + Copied(c, m + 1) <= size
    BY <1>1, <2>8, <2>9
  <2> QED
    BY <2>3, <2>5, <2>6, <2>7, <2>8, <2>10, <2>11 DEF p, b, size, down
<1> QED
  BY <1>3, <1>4, <1>5, <1>6

LEMMA PartlyFile ==
  ASSUME NEW f, NEW c, IsMove(c), IsFile(f), NEW m \in 0 .. Len(Chunks(c.Size, c.From > c.To))
  PROVE  IsFile(Partly(f, c, m)) /\ Same(f, Partly(f, c, m), c.To, c.To + c.Size)
<1> DEFINE n == Len(Chunks(c.Size, c.From > c.To))
<1>1. CASE m = 0
  BY <1>1, SameAsItself DEF Partly, IsMove
<1>2. CASE m # 0
  <2> DEFINE at == c.To + First(c, m)
             from == c.From + First(c, m)
             size == Copied(c, m)
             data == Chunk(f, from, size)
  <2>1. n \in Nat \ {0} /\ \A k \in 0 .. (n - 1) :
          /\ First(c, k + 1) \in Nat /\ Copied(c, k + 1) \in Nat
          /\ First(c, k + 1) + Copied(c, k + 1) <= c.Size
    BY ChunksOf
  <2> HIDE DEF n
  <2>2. m \in 0 .. n
    BY DEF n
  <2>3. m - 1 \in 0 .. (n - 1) /\ (m - 1) + 1 = m
    BY <1>2, <2>1, <2>2
  <2>4. First(c, m) \in Nat /\ Copied(c, m) \in Nat /\ First(c, m) + Copied(c, m) <= c.Size
    BY <2>1, <2>3
  <2>5. c.From \in Nat /\ c.To \in Nat /\ c.Size \in Nat
    BY DEF IsMove
  <2>6. at \in Nat /\ from \in Nat /\ size \in Nat /\ c.To <= at /\ at + size <= c.To + c.Size
    BY <2>4, <2>5
  <2>7. Partly(f, c, m) = Written(f, at, data)
    BY <1>2 DEF Partly
  <2> HIDE DEF at, from, size
  <2>8. IsSeq(data) /\ Len(data) = size
    BY <2>6, ChunkSeq
  <2> HIDE DEF data
  <2>9. IsFile(Written(f, at, data)) /\ Same(f, Written(f, at, data), at, at + size)
    BY <2>6, <2>8, WrittenFile, WrittenSame DEF IsWritten
  <2>10. c.To + c.Size \in Nat /\ at + size \in Nat
    BY <2>5, <2>6
  <2> HIDE DEF Same
  <2>11. Same(f, Written(f, at, data), c.To, c.To + c.Size)
    BY <2>5, <2>6, <2>9, <2>10, SameWider
  <2> QED
    BY <2>7, <2>9, <2>11
<1> QED
  BY <1>1, <1>2

\* Copying one more chunk finds its bytes and leads to the file that has one more.
LEMMA ChunkStep ==
  ASSUME NEW f, NEW c, IsMove(c), IsFile(f), \A x \in c.From .. (c.From + c.Size - 1) : x \in DOMAIN f,
         NEW m \in 0 .. (Len(Chunks(c.Size, c.From > c.To)) - 1)
  PROVE  LET k == Chunks(c.Size, c.From > c.To)[m + 1]
             g == Partly(f, c, m)
         IN /\ \A x \in (c.From + k.At) .. (c.From + k.At + k.Size - 1) : x \in DOMAIN g /\ g[x] = f[x]
            /\ Written(g, c.To + k.At, Chunk(g, c.From + k.At, k.Size)) = Partly(f, c, m + 1)
<1> DEFINE chunks == Chunks(c.Size, c.From > c.To)
           n == Len(chunks)
           k == chunks[m + 1]
           g == Partly(f, c, m)
           done == Copied(c, m)
           lo == First(c, m)
           low == First(c, m + 1)
           from == c.From + k.At
           to == c.To + k.At
           h == Partly(f, c, m + 1)
           w == Written(g, to, Chunk(g, from, k.Size))
<1>1. c.From \in Nat /\ c.To \in Nat /\ c.Size \in Nat \ {0}
  BY DEF IsMove
<1>2. /\ n \in Nat \ {0}
      /\ k.Size = Copied(c, m + 1) - done /\ k.Size \in Nat \ {0}
      /\ k.At = (IF c.From > c.To THEN done ELSE low)
      /\ low \in Nat /\ done \in Nat /\ Copied(c, m + 1) \in Nat
      /\ Copied(c, m + 1) <= c.Size
  BY ChunksOf
<1>3. lo = (IF c.From > c.To THEN 0 ELSE c.Size - done)
  BY DEF First
<1>4. low = (IF c.From > c.To THEN 0 ELSE c.Size - Copied(c, m + 1))
  BY DEF First
<1>5. IsFile(g) /\ IsFile(h)
  <2>1. m \in 0 .. n /\ m + 1 \in 0 .. n
    BY <1>2
  <2> QED
    BY <2>1, PartlyFile
<1>6. m = 0 => g = f /\ done = 0
  BY <1>1, PatchAssumption DEF Partly, Copied
<1>7. m # 0 => g = Written(f, c.To + lo, Chunk(f, c.From + lo, done))
  BY DEF Partly
<1>8. h = Written(f, c.To + low, Chunk(f, c.From + low, Copied(c, m + 1)))
  <2>1. m + 1 # 0
    BY <1>2
  <2> QED
    BY <2>1 DEF Partly
<1> DEFINE all == Copied(c, m + 1)
           size == k.Size
           at == k.At
           cfrom == c.From
           cto == c.To
           total == c.Size
           len == Length(f)
<1>9. len \in Nat /\ DOMAIN f = 0 .. (len - 1)
  BY FileProperties
<1>10. size = all - done /\ size \in Nat \ {0} /\ at = (IF cfrom > cto THEN done ELSE low)
  BY <1>2
<1>11. lo = (IF cfrom > cto THEN 0 ELSE total - done) /\ low = (IF cfrom > cto THEN 0 ELSE total - all)
  BY <1>3, <1>4
<1>12. cfrom \in Nat /\ cto \in Nat /\ total \in Nat \ {0} /\ all \in Nat /\ done \in Nat /\ all <= total
  BY <1>1, <1>2
<1>13. \A x \in cfrom .. (cfrom + total - 1) : x \in 0 .. (len - 1)
  BY <1>9
<1>14. from = cfrom + at /\ to = cto + at
  OBVIOUS
<1>15. w = Written(g, to, Chunk(g, from, size))
  OBVIOUS
<1>16. m # 0 => g = Written(f, cto + lo, Chunk(f, cfrom + lo, done))
  BY <1>7
<1>17. h = Written(f, cto + low, Chunk(f, cfrom + low, all))
  BY <1>8
<1> HIDE DEF chunks, n, k, g, done, lo, low, h, w, all, size, at, cfrom, cto, total, len, from, to
<1>18. at \in Nat /\ lo \in Nat /\ low \in Nat /\ at + size <= total /\ low + all <= total
  BY <1>10, <1>11, <1>12
<1>19. cfrom + total <= len
  <2>1. cfrom + total - 1 \in cfrom .. (cfrom + total - 1)
    BY <1>12
  <2> QED
    BY <1>12, <1>13, <2>1, <1>9
\* The moved bytes, with f's length and bytes where there are none.
<1>20. /\ Length(g) \in Nat /\ DOMAIN g = 0 .. (Length(g) - 1)
       /\ m = 0 => g = f
       /\ m # 0 =>
            /\ Length(g) = IF cto + lo + done > len THEN cto + lo + done ELSE len
            /\ \A x \in (cto + lo) .. (cto + lo + done - 1) : g[x] = f[cfrom + x - cto]
            /\ \A x \in 0 .. (len - 1) : x < cto + lo \/ cto + lo + done <= x => g[x] = f[x]
            /\ \A x \in len .. (cto + lo - 1) : x < Length(g) => g[x] = Filler
  <2>1. Length(g) \in Nat /\ DOMAIN g = 0 .. (Length(g) - 1)
    BY <1>5, FileProperties
  <2>2. ASSUME m # 0
        PROVE  /\ Length(g) = IF cto + lo + done > len THEN cto + lo + done ELSE len
               /\ \A x \in (cto + lo) .. (cto + lo + done - 1) : g[x] = f[cfrom + x - cto]
               /\ \A x \in 0 .. (len - 1) : x < cto + lo \/ cto + lo + done <= x => g[x] = f[x]
               /\ \A x \in len .. (cto + lo - 1) : x < Length(g) => g[x] = Filler
    <3> DEFINE a == cto + lo
               b == cfrom + lo
    <3>1. a \in Nat /\ b \in Nat /\ g = Written(f, a, Chunk(f, b, done)) /\ len = Length(f)
      BY <1>12, <1>16, <1>18, <2>2 DEF len
    <3> HIDE DEF a, b
    <3>2. /\ Length(g) = IF a + done > len THEN a + done ELSE len
          /\ \A x \in a .. (a + done - 1) : g[x] = f[b + x - a]
          /\ \A x \in 0 .. (len - 1) : x < a \/ a + done <= x => g[x] = f[x]
          /\ \A x \in len .. (a - 1) : x < Length(g) => g[x] = Filler
      <4>1. IsCopy(g, f, f, a, b, done)
        BY <3>1, <1>12, CopiedFile
      <4> QED
        BY <3>1, <4>1 DEF IsCopy
    <3>3. ASSUME NEW x \in a .. (a + done - 1)
          PROVE  b + x - a = cfrom + x - cto
      BY <3>1, <1>12, <1>18 DEF a, b
    <3>4. \A x \in a .. (a + done - 1) : g[x] = f[cfrom + x - cto]
      BY <3>2, <3>3
    <3>5. a = cto + lo
      BY DEF a
    <3> QED
      BY <3>1, <3>2, <3>4, <3>5, <1>9, <1>12, <1>18
  <2> QED
    BY <1>6, <2>1, <2>2 DEF g
<1>21. /\ Length(h) = IF cto + low + all > len THEN cto + low + all ELSE len
       /\ \A x \in (cto + low) .. (cto + low + all - 1) : h[x] = f[cfrom + x - cto]
       /\ \A x \in 0 .. (len - 1) : x < cto + low \/ cto + low + all <= x => h[x] = f[x]
       /\ \A x \in len .. (cto + low - 1) : x < Length(h) => h[x] = Filler
  <2> DEFINE a == cto + low
             b == cfrom + low
  <2>1. a \in Nat /\ b \in Nat /\ h = Written(f, a, Chunk(f, b, all)) /\ len = Length(f)
    BY <1>12, <1>17, <1>18 DEF len
  <2> HIDE DEF a, b
  <2>2. /\ Length(h) = IF a + all > len THEN a + all ELSE len
        /\ \A x \in a .. (a + all - 1) : h[x] = f[b + x - a]
        /\ \A x \in 0 .. (len - 1) : x < a \/ a + all <= x => h[x] = f[x]
        /\ \A x \in len .. (a - 1) : x < Length(h) => h[x] = Filler
    <3>1. IsCopy(h, f, f, a, b, all)
      BY <2>1, <1>12, CopiedFile
    <3> QED
      BY <2>1, <3>1 DEF IsCopy
  <2>3. ASSUME NEW x \in a .. (a + all - 1)
        PROVE  b + x - a = cfrom + x - cto
    BY <2>1, <1>12, <1>18 DEF a, b
  <2>4. \A x \in a .. (a + all - 1) : h[x] = f[cfrom + x - cto]
    BY <2>2, <2>3
  <2>5. a = cto + low
    BY DEF a
  <2> QED
    BY <2>1, <2>2, <2>4, <2>5, <1>9, <1>12, <1>18
<1>22. ASSUME NEW x \in from .. (from + size - 1)
       PROVE  x \in DOMAIN g /\ g[x] = f[x]
  <2>1. x \in 0 .. (len - 1) /\ x >= from /\ x < from + size
    BY <1>9, <1>10, <1>12, <1>14, <1>18, <1>19
  <2>2. m # 0 => x < cto + lo \/ cto + lo + done <= x
    BY <1>10, <1>11, <1>12, <1>14, <1>18, <2>1
  <2>3. m # 0 => Length(g) >= len
    BY <1>20, <1>9, <1>12, <1>18
  <2>4. CASE m = 0
    BY <2>1, <2>4, <1>9, <1>20
  <2>5. CASE m # 0
    BY <2>1, <2>2, <2>3, <2>5, <1>9, <1>20
  <2> QED
    BY <2>4, <2>5
<1>23. w = h
  <2>1. from \in Nat /\ to \in Nat /\ size \in Nat
    BY <1>10, <1>12, <1>14, <1>18
  <2> DEFINE l == Length(g)
  <2>2. l = Length(g)
    OBVIOUS
  <2> HIDE DEF l
  <2>3. /\ IsFile(w) /\ Length(w) = IF to + size > l THEN to + size ELSE l
        /\ \A x \in to .. (to + size - 1) : w[x] = g[from + x - to]
        /\ \A x \in 0 .. (l - 1) : x < to \/ to + size <= x => w[x] = g[x]
        /\ \A x \in l .. (to - 1) : x < Length(w) => w[x] = Filler
    <3>1. IsCopy(w, g, g, to, from, size)
      BY <1>5, <1>15, <2>1, CopiedFile
    <3> QED
      BY <2>2, <3>1 DEF IsCopy
  <2>4. \A x \in to .. (to + size - 1) : w[x] = f[cfrom + x - cto]
    <3> TAKE x \in to .. (to + size - 1)
    <3>1. from + x - to = cfrom + x - cto /\ from + x - to \in from .. (from + size - 1)
      BY <2>1, <1>12, <1>14, <1>18
    <3>2. g[from + x - to] = f[from + x - to]
      BY <3>1, <1>22
    <3> QED
      BY <2>3, <3>1, <3>2
  <2>5. m = 0 => done = 0 /\ Length(g) = len
    BY <1>6, <1>20 DEF g, done, len
  <2>6. Length(w) = Length(h)
    BY <2>2, <2>1, <2>3, <2>5, <1>9, <1>10, <1>11, <1>12, <1>14, <1>18, <1>20, <1>21
  <2>7. ASSUME NEW x \in 0 .. (Length(w) - 1)
        PROVE  w[x] = h[x]
    <3>1. x \in Nat /\ x < Length(h) /\ Length(w) \in Nat
      BY <2>6, <2>3, FileProperties
    <3>2. CASE to <= x /\ x < to + size
      <4>1. x \in to .. (to + size - 1) /\ x \in (cto + low) .. (cto + low + all - 1)
        BY <3>1, <3>2, <2>1, <1>10, <1>11, <1>12, <1>14, <1>18
      <4> QED
        BY <4>1, <2>4, <1>21
    <3>3. CASE ~(to <= x /\ x < to + size) /\ x < Length(g)
      <4>1. w[x] = g[x]
        BY <2>2, <3>1, <3>3, <2>1, <2>3, <1>20
      <4>2. CASE m = 0
        <5>1. g[x] = f[x] /\ x \in 0 .. (len - 1)
          BY <4>2, <3>1, <3>3, <1>9, <1>20, <2>5
        <5>2. x < cto + low \/ cto + low + all <= x
          BY <4>2, <2>5, <3>1, <3>3, <2>1, <1>10, <1>11, <1>12, <1>14, <1>18
        <5> QED
          BY <4>1, <5>1, <5>2, <1>21
      <4>3. CASE m # 0 /\ cto + lo <= x /\ x < cto + lo + done
        <5>1. x \in (cto + lo) .. (cto + lo + done - 1) /\ x \in (cto + low) .. (cto + low + all - 1)
          BY <4>3, <3>1, <1>10, <1>11, <1>12, <1>18
        <5> QED
          BY <4>1, <4>3, <5>1, <1>20, <1>21
      <4>4. CASE m # 0 /\ ~(cto + lo <= x /\ x < cto + lo + done)
        <5>1. x < cto + low \/ cto + low + all <= x
          BY <4>4, <3>1, <3>3, <2>1, <1>10, <1>11, <1>12, <1>14, <1>18
        <5>2. CASE x < len
          BY <5>1, <5>2, <4>1, <4>4, <3>1, <1>9, <1>20, <1>21, <1>12, <1>18
        <5>3. CASE x >= len
          <6>1. x < cto + lo /\ x < cto + low
            BY <5>1, <5>3, <4>4, <3>1, <3>3, <1>9, <1>10, <1>11, <1>12, <1>18, <1>20, <1>21
          <6>2. x \in len .. (cto + lo - 1) /\ x \in len .. (cto + low - 1)
            BY <6>1, <5>3, <3>1, <1>9, <1>12, <1>18
          <6> QED
            BY <6>2, <4>1, <4>4, <3>1, <3>3, <1>20, <1>21
        <5> QED
          BY <5>2, <5>3, <3>1, <1>9
      <4> QED
        BY <4>2, <4>3, <4>4
    <3>4. CASE ~(to <= x /\ x < to + size) /\ x >= Length(g)
      <4>1. x < to /\ w[x] = Filler
        BY <2>2, <3>1, <3>4, <2>1, <2>3, <1>20
      <4>2. Length(g) >= len
        BY <1>20, <2>5, <1>9, <1>12, <1>18
      <4>3. x < cto + low /\ x >= len
        BY <4>1, <4>2, <3>1, <3>4, <2>1, <2>5, <1>9, <1>10, <1>11, <1>12, <1>14, <1>18, <1>20
      <4>4. x \in len .. (cto + low - 1)
        BY <4>3, <3>1, <1>9, <1>12, <1>18
      <4> QED
        BY <4>1, <4>4, <3>1, <1>21
    <3> QED
      BY <3>1, <3>2, <3>3, <3>4, <1>20
  <2> QED
    BY <2>3, <2>6, <2>7, <1>5, FilesEqual
<1> QED
  BY <1>22, <1>23 DEF from, to, size, at, cfrom, cto, k, chunks, w, h, g

-----------------------------------------------------------------------------
(* What the commands do                                                    *)

IsCommand(c) ==
  \/ c.Command = "Over"
  \/ c.Command = "Check" /\ c.Offset \in Nat
  \/ IsMove(c)
  \/ c.Command = "Set" /\ c.Offset \in Nat /\ c.Size \in Nat
  \/ c.Command = "ChangeSize" /\ c.Size \in Nat
  \/ c.Command = "SeekWrite" /\ c.SeekSet \in BOOLEAN /\ c.Offset \in Int /\ IsSeq(c.Data)

\* Relative seeks come behind writes; places[n] is where the n-th command writes.
PlacedAt(commands, places, n) ==
  /\ IsCommand(commands[n]) /\ places[n] \in Nat
  /\ commands[n].Command = "SeekWrite" =>
       IF commands[n].SeekSet THEN places[n] = commands[n].Offset
       ELSE /\ n > 1 /\ commands[n - 1].Command = "SeekWrite"
            /\ places[n] = places[n - 1] + Len(commands[n - 1].Data) + commands[n].Offset

Paired(commands, places) ==
  IsSeq(commands) /\ IsSeq(places) /\ Len(places) = Len(commands)

Placed(commands, places) ==
  /\ Paired(commands, places)
  /\ \A n \in 1 .. Len(commands) : PlacedAt(commands, places, n)

LEMMA PlacedNothing == Placed(<<>>, <<>>)
BY NoSeq DEF Placed, Paired

LEMMA PlacedOne ==
  ASSUME NEW c, IsCommand(c), c.Command # "SeekWrite"
  PROVE  Placed(<<c>>, <<0>>)
<1>1. <<c>>[1] = c /\ <<0>>[1] = 0
  OBVIOUS
<1>2. PlacedAt(<<c>>, <<0>>, 1)
  BY <1>1 DEF PlacedAt
<1> QED
  BY <1>2, OneSeq DEF Placed, Paired

LEMMA PlacedConcat ==
  ASSUME NEW a, NEW b, NEW P, NEW Q, Placed(a, P), Placed(b, Q)
  PROVE  Placed(a \o b, P \o Q)
<1> DEFINE s == a \o b
           R == P \o Q
<1>1. /\ IsSeq(a) /\ IsSeq(P) /\ Len(P) = Len(a) /\ \A n \in 1 .. Len(a) : PlacedAt(a, P, n)
      /\ IsSeq(b) /\ IsSeq(Q) /\ Len(Q) = Len(b) /\ \A n \in 1 .. Len(b) : PlacedAt(b, Q, n)
  BY DEF Placed, Paired
<1>2. Len(a) \in Nat /\ Len(b) \in Nat
  BY <1>1, SeqProperties
<1>3. /\ IsSeq(s) /\ Len(s) = Len(a) + Len(b)
      /\ \A i \in 1 .. Len(a) : s[i] = a[i]
      /\ \A i \in (Len(a) + 1) .. (Len(a) + Len(b)) : s[i] = b[i - Len(a)]
  BY <1>1, ConcatSeq
<1>4. /\ IsSeq(R) /\ Len(R) = Len(a) + Len(b)
      /\ \A i \in 1 .. Len(a) : R[i] = P[i]
      /\ \A i \in (Len(a) + 1) .. (Len(a) + Len(b)) : R[i] = Q[i - Len(a)]
  <2>1. /\ IsSeq(R) /\ Len(R) = Len(P) + Len(Q)
        /\ \A i \in 1 .. Len(P) : R[i] = P[i]
        /\ \A i \in (Len(P) + 1) .. (Len(P) + Len(Q)) : R[i] = Q[i - Len(P)]
    BY <1>1, ConcatSeq
  <2> QED
    BY <1>1, <2>1
<1> HIDE DEF s, R
<1>5. ASSUME NEW n \in 1 .. Len(a)
      PROVE  PlacedAt(s, R, n)
  <2>1. PlacedAt(a, P, n) /\ s[n] = a[n] /\ R[n] = P[n]
    BY <1>1, <1>3, <1>4
  <2>2. n > 1 => s[n - 1] = a[n - 1] /\ R[n - 1] = P[n - 1]
    BY <1>2, <1>3, <1>4
  <2> QED
    BY <2>1, <2>2 DEF PlacedAt
<1>6. ASSUME NEW m \in 1 .. Len(b)
      PROVE  PlacedAt(s, R, Len(a) + m)
  <2> DEFINE n == Len(a) + m
  <2>1. n \in (Len(a) + 1) .. (Len(a) + Len(b)) /\ n - Len(a) = m
    BY <1>2
  <2>2. PlacedAt(b, Q, m) /\ s[n] = b[m] /\ R[n] = Q[m]
    BY <1>1, <1>3, <1>4, <2>1
  <2>3. m > 1 => /\ n - 1 \in (Len(a) + 1) .. (Len(a) + Len(b)) /\ (n - 1) - Len(a) = m - 1
                 /\ n > 1
    BY <1>2
  <2>4. m > 1 => s[n - 1] = b[m - 1] /\ R[n - 1] = Q[m - 1]
    BY <1>3, <1>4, <2>3
  <2> HIDE DEF n
  <2>5. PlacedAt(s, R, n)
    BY <2>2, <2>3, <2>4 DEF PlacedAt
  <2> QED
    BY <2>5 DEF n
<1>7. ASSUME NEW n \in 1 .. Len(s)
      PROVE  PlacedAt(s, R, n)
  <2>1. CASE n <= Len(a)
    BY <1>2, <1>3, <1>5, <2>1
  <2>2. CASE n > Len(a)
    <3>1. n - Len(a) \in 1 .. Len(b) /\ Len(a) + (n - Len(a)) = n
      BY <1>2, <1>3, <2>2
    <3>2. PlacedAt(s, R, Len(a) + (n - Len(a)))
      BY <3>1, <1>6
    <3> QED
      BY <3>1, <3>2
  <2> QED
    BY <1>2, <1>3, <2>1, <2>2
<1>8. Placed(s, R)
  BY <1>3, <1>4, <1>7 DEF Placed, Paired
<1> QED
  BY <1>8 DEF s, R

LEMMA PlacedAppend ==
  ASSUME NEW a, NEW P, Placed(a, P), NEW c, NEW at \in Nat, IsCommand(c),
         c.Command = "SeekWrite" =>
           IF c.SeekSet THEN at = c.Offset
           ELSE /\ Len(a) # 0 /\ a[Len(a)].Command = "SeekWrite"
                /\ at = P[Len(a)] + Len(a[Len(a)].Data) + c.Offset
  PROVE  Placed(a \o <<c>>, P \o <<at>>)
<1> DEFINE s == a \o <<c>>
           R == P \o <<at>>
           n == Len(a)
<1>1. IsSeq(a) /\ IsSeq(P) /\ Len(P) = n /\ \A k \in 1 .. n : PlacedAt(a, P, k)
  BY DEF Placed, Paired
<1>2. n \in Nat
  BY <1>1, SeqProperties
<1>3. IsSeq(s) /\ Len(s) = n + 1 /\ (\A i \in 1 .. n : s[i] = a[i]) /\ s[n + 1] = c
  <2>1. Len(<<c>>) = 1 /\ <<c>>[1] = c /\ 1 \in 1 .. 1 /\ IsSeq(<<c>>)
    BY OneSeq
  <2> QED
    BY <2>1, <1>1, ConcatSeq
<1>4. IsSeq(R) /\ Len(R) = n + 1 /\ (\A i \in 1 .. n : R[i] = P[i]) /\ R[n + 1] = at
  <2>1. Len(<<at>>) = 1 /\ <<at>>[1] = at /\ 1 \in 1 .. 1 /\ IsSeq(<<at>>)
    BY OneSeq
  <2>2. IsSeq(R) /\ Len(R) = Len(P) + 1 /\ (\A i \in 1 .. Len(P) : R[i] = P[i]) /\ R[Len(P) + 1] = at
    BY <2>1, <1>1, ConcatSeq
  <2> QED
    BY <1>1, <2>2
<1> HIDE DEF s, R, n
<1>5. ASSUME NEW k \in 1 .. n
      PROVE  PlacedAt(s, R, k)
  <2>1. PlacedAt(a, P, k) /\ s[k] = a[k] /\ R[k] = P[k]
    BY <1>1, <1>3, <1>4
  <2>2. k > 1 => s[k - 1] = a[k - 1] /\ R[k - 1] = P[k - 1]
    BY <1>2, <1>3, <1>4
  <2> QED
    BY <2>1, <2>2 DEF PlacedAt
<1>6. PlacedAt(s, R, n + 1)
  <2> DEFINE l == n + 1
  <2>1. s[l] = c /\ R[l] = at /\ (n # 0 => l > 1 /\ l - 1 = n)
    BY <1>2, <1>3, <1>4
  <2>2. n # 0 => s[n] = a[n] /\ R[n] = P[n]
    BY <1>2, <1>3, <1>4
  <2> HIDE DEF l
  <2>3. PlacedAt(s, R, l)
    BY <2>1, <2>2 DEF PlacedAt, n
  <2> QED
    BY <2>3 DEF l
<1>7. ASSUME NEW k \in 1 .. (n + 1)
      PROVE  PlacedAt(s, R, k)
  BY <1>2, <1>5, <1>6
<1>8. Placed(s, R)
  BY <1>3, <1>4, <1>7 DEF Placed, Paired
<1> QED
  BY <1>8 DEF s, R

\* The file f after the command c, which writes at at.
Step(c, at, f) ==
  IF c.Command = "Move" THEN Written(f, c.To, Chunk(f, c.From, c.Size))
  ELSE IF c.Command = "Set" THEN Written(f, c.Offset, [k \in 1 .. c.Size |-> c.Byte])
  ELSE IF c.Command = "ChangeSize"
       THEN [x \in 0 .. (c.Size - 1) |-> IF x \in DOMAIN f THEN f[x] ELSE Filler]
  ELSE IF c.Command = "SeekWrite" THEN Written(f, at, c.Data)
  ELSE f

\* A file that passes the checks has the parts of the new one.
Claims(f) ==
  /\ kind = "cci" => f[1] = new.Bytes[1]
  /\ \A p \in There : f[Place(new, p) + 1] = new.Bytes[Place(new, p) + 1]

HasPart(f, p, i) ==
  \A x \in PlaceIn(new, p, i) .. (PlaceIn(new, p, i) + new.Sizes[p][i] - 1) :
    x \in DOMAIN f /\ f[x] = new.Bytes[x]

Good(f) ==
  HeaderTells /\ kind # "file" /\ Claims(f) => \A c \in Content(new) : HasPart(f, c[1], c[2])

\* So does it whatever its bytes from lo to hi - 1 are.
Safe(f, lo, hi) == \A h : IsFile(h) /\ Same(f, h, lo, hi) => Good(h)

\* What is promised where a command is executed.
Fine(c, f) ==
  IsFile(f) /\ Good(f) /\ (c.Command = "Move" => Finds(f, c) /\ Safe(f, c.To, c.To + c.Size))

\* t[0], t[1], ... are the files that the commands turn f into.
Run(commands, places, t) ==
  /\ \A n \in 1 .. Len(commands) :
       Fine(commands[n], t[n - 1]) /\ t[n] = Step(commands[n], places[n], t[n - 1])
  /\ IsFile(t[Len(commands)]) /\ Good(t[Len(commands)])

Leads(commands, places, f, g) ==
  \E t : Run(commands, places, t) /\ t[0] = f /\ t[Len(commands)] = g

LEMMA LeadsNothing ==
  ASSUME NEW f, IsFile(f), Good(f)
  PROVE  Leads(<<>>, <<>>, f, f)
<1> DEFINE t == [n \in {0} |-> f]
<1>1. t[0] = f
  OBVIOUS
<1> HIDE DEF t
<1>2. Run(<<>>, <<>>, t)
  BY <1>1, NoSeq DEF Run
<1> QED
  BY <1>1, <1>2, NoSeq DEF Leads

LEMMA LeadsOne ==
  ASSUME NEW c, NEW at, NEW f, Fine(c, f), IsFile(Step(c, at, f)), Good(Step(c, at, f))
  PROVE  Leads(<<c>>, <<at>>, f, Step(c, at, f))
<1> DEFINE g == Step(c, at, f)
           t == [n \in 0 .. 1 |-> IF n = 0 THEN f ELSE g]
<1>1. t[0] = f /\ t[1] = g
  OBVIOUS
<1>2. <<c>>[1] = c /\ <<at>>[1] = at /\ Len(<<c>>) = 1 /\ 1 - 1 = 0
  OBVIOUS
<1> HIDE DEF t, g
<1>3. Run(<<c>>, <<at>>, t)
  <2>1. IsFile(t[1]) /\ Good(t[1]) /\ t[1] = Step(c, at, t[0]) /\ Fine(c, t[0])
    BY <1>1 DEF g
  <2>2. \A n \in 1 .. 1 : n = 1
    OBVIOUS
  <2> QED
    BY <1>2, <2>1, <2>2 DEF Run
<1>4. Leads(<<c>>, <<at>>, f, g)
  BY <1>1, <1>2, <1>3 DEF Leads
<1> QED
  BY <1>4 DEF g

LEMMA LeadsConcat ==
  ASSUME NEW a, NEW b, NEW P, NEW Q, Paired(a, P), Paired(b, Q),
         NEW f, NEW g, NEW h, Leads(a, P, f, g), Leads(b, Q, g, h)
  PROVE  Leads(a \o b, P \o Q, f, h)
<1> DEFINE s == a \o b
           R == P \o Q
           m == Len(a)
           n == Len(b)
<1>1. IsSeq(a) /\ IsSeq(P) /\ Len(P) = m /\ IsSeq(b) /\ IsSeq(Q) /\ Len(Q) = n
  BY DEF Placed, Paired
<1>2. m \in Nat /\ n \in Nat
  BY <1>1, SeqProperties
<1>3. /\ Len(s) = m + n
      /\ \A i \in 1 .. m : s[i] = a[i]
      /\ \A i \in (m + 1) .. (m + n) : s[i] = b[i - m]
  BY <1>1, ConcatSeq
<1>4. /\ \A i \in 1 .. m : R[i] = P[i]
      /\ \A i \in (m + 1) .. (m + n) : R[i] = Q[i - m]
  <2>1. /\ \A i \in 1 .. Len(P) : R[i] = P[i]
        /\ \A i \in (Len(P) + 1) .. (Len(P) + Len(Q)) : R[i] = Q[i - Len(P)]
    BY <1>1, ConcatSeq
  <2> QED
    BY <1>1, <2>1
<1>5. PICK t : Run(a, P, t) /\ t[0] = f /\ t[m] = g
  BY DEF Leads
<1>6. PICK u : Run(b, Q, u) /\ u[0] = g /\ u[n] = h
  BY DEF Leads
<1> DEFINE v == [k \in 0 .. (m + n) |-> IF k <= m THEN t[k] ELSE u[k - m]]
<1>7. \A k \in 0 .. m : v[k] = t[k]
  BY <1>2
<1>8. \A k \in m .. (m + n) : v[k] = u[k - m]
  BY <1>2, <1>5, <1>6
<1> HIDE DEF s, R, v
<1>9. ASSUME NEW k \in 1 .. (m + n)
      PROVE  Fine(s[k], v[k - 1]) /\ v[k] = Step(s[k], R[k], v[k - 1])
  <2>1. CASE k <= m
    <3>1. k \in 1 .. m /\ k \in 0 .. m /\ k - 1 \in 0 .. m
      BY <1>2, <2>1
    <3>2. s[k] = a[k] /\ R[k] = P[k] /\ v[k] = t[k] /\ v[k - 1] = t[k - 1]
      BY <3>1, <1>3, <1>4, <1>7
    <3>3. Fine(a[k], t[k - 1]) /\ t[k] = Step(a[k], P[k], t[k - 1])
      BY <3>1, <1>5 DEF Run
    <3> QED
      BY <3>2, <3>3
  <2>2. CASE k > m
    <3> DEFINE j == k - m
    <3>1. /\ j \in 1 .. n /\ (k - 1) - m = j - 1
          /\ k \in m .. (m + n) /\ k - 1 \in m .. (m + n) /\ k \in (m + 1) .. (m + n)
      BY <1>2, <2>2
    <3>2. s[k] = b[j] /\ R[k] = Q[j] /\ v[k] = u[j]
      BY <3>1, <1>3, <1>4, <1>8
    <3>3. v[k - 1] = u[j - 1]
      <4>1. v[k - 1] = u[(k - 1) - m]
        BY <3>1, <1>8
      <4> QED
        BY <4>1, <3>1
    <3> HIDE DEF j
    <3>4. Fine(b[j], u[j - 1]) /\ u[j] = Step(b[j], Q[j], u[j - 1])
      BY <3>1, <1>6 DEF Run
    <3> QED
      BY <3>2, <3>3, <3>4
  <2> QED
    BY <1>2, <2>1, <2>2
<1>10. v[0] = f /\ v[m + n] = h
  <2>1. 0 \in 0 .. m /\ m + n \in m .. (m + n) /\ (m + n) - m = n
    BY <1>2
  <2>2. v[m + n] = u[(m + n) - m]
    BY <2>1, <1>8
  <2> QED
    BY <2>1, <2>2, <1>5, <1>6, <1>7
<1>11. IsFile(h) /\ Good(h)
  BY <1>6 DEF Run
<1>12. Run(s, R, v)
  BY <1>3, <1>9, <1>10, <1>11 DEF Run
<1>13. Leads(s, R, f, h)
  BY <1>3, <1>10, <1>12 DEF Leads
<1> QED
  BY <1>13 DEF s, R

-----------------------------------------------------------------------------
(* Where partitions and parts are                                          *)

LEMMA Aligned ==
  ASSUME NEW n \in Nat
  PROVE  AlignLast(n) \in Nat /\ n <= AlignLast(n)
<1> DEFINE a == LastAlignment
           s == n + a - 1
           r == s % a
<1>1. a \in Nat \ {0}
  BY PatchAssumption
<1>2. s \in Nat
  BY <1>1
<1>3. r \in 0 .. (a - 1)
  BY <1>1, <1>2
<1>4. PICK q \in Nat : q = s \div a /\ s = a * q + r
  BY <1>1, <1>2
<1>5. AlignLast(n) = q * a
  BY <1>4 DEF AlignLast
<1> HIDE DEF r, a
<1>6. q * a \in Nat /\ q * a = a * q
  BY <1>1, <1>4
<1>7. n <= q * a
  BY <1>1, <1>3, <1>4, <1>6
<1> QED
  BY <1>5, <1>6, <1>7

NextPlace(sizes, i, before) ==
  LET end == before + sizes[i - 1] IN IF i = LastPart THEN AlignLast(end) ELSE end

LEMMA PlaceRecursion ==
  ASSUME NEW sizes \in [Parts -> Nat]
  PROVE  /\ PlaceOfPart(sizes) \in [Parts -> Nat]
         /\ \A i \in Parts : PlaceOfPart(sizes)[i] =
              IF i = 0 THEN HeaderSize ELSE NextPlace(sizes, i, PlaceOfPart(sizes)[i - 1])
<1> DEFINE h == [c \in (1 .. LastPart) \X Nat |-> NextPlace(sizes, c[1], c[2])]
<1>1. LastPart \in Nat /\ HeaderSize \in Nat /\ Parts = 0 .. LastPart
  BY PatchAssumption DEF HeaderSize, Parts
<1>2. h \in [(1 .. LastPart) \X Nat -> Nat]
  <2> SUFFICES ASSUME NEW i \in 1 .. LastPart, NEW b \in Nat PROVE NextPlace(sizes, i, b) \in Nat
    OBVIOUS
  <2>1. i - 1 \in Parts
    BY <1>1
  <2>2. b + sizes[i - 1] \in Nat
    BY <2>1
  <2> QED
    BY <2>2, Aligned DEF NextPlace
<1>3. \A i \in 1 .. LastPart : \A b \in Nat : h[<<i, b>>] = NextPlace(sizes, i, b)
  OBVIOUS
<1> HIDE DEF h
<1>4. PICK f \in [0 .. LastPart -> Nat] : Recurs(f, LastPart, HeaderSize, h)
  BY <1>1, <1>2, Recursion
<1>5. \A i \in Parts : f[i] = IF i = 0 THEN HeaderSize ELSE NextPlace(sizes, i, f[i - 1])
  <2> SUFFICES ASSUME NEW i \in Parts
               PROVE  f[i] = IF i = 0 THEN HeaderSize ELSE NextPlace(sizes, i, f[i - 1])
    OBVIOUS
  <2>1. f[i] = IF i = 0 THEN HeaderSize ELSE h[<<i, f[i - 1]>>]
    BY <1>1, <1>4 DEF Recurs
  <2>2. i # 0 => i \in 1 .. LastPart /\ i - 1 \in 0 .. LastPart
    BY <1>1
  <2>3. i # 0 => h[<<i, f[i - 1]>>] = NextPlace(sizes, i, f[i - 1])
    BY <2>2, <1>3
  <2> QED
    BY <2>1, <2>3
<1>6. f = [i \in Parts |-> IF i = 0 THEN HeaderSize ELSE NextPlace(sizes, i, f[i - 1])]
  BY <1>1, <1>5
<1> DEFINE Def(p) == p = [i \in Parts |->
                            IF i = 0 THEN HeaderSize
                            ELSE LET end == p[i - 1] + sizes[i - 1] IN
                                 IF i = LastPart THEN AlignLast(end) ELSE end]
           place == PlaceOfPart(sizes)
<1>7. Def(f)
  BY <1>6 DEF NextPlace
<1>8. place = CHOOSE p : Def(p)
  BY DEF PlaceOfPart
<1>9. Def(place)
  BY <1>7, <1>8
<1>10. \A i \in Parts : place[i] = IF i = 0 THEN HeaderSize ELSE NextPlace(sizes, i, place[i - 1])
  BY <1>9 DEF NextPlace
<1>11. DOMAIN place = Parts /\ place = [i \in Parts |-> place[i]]
  BY <1>9
<1> HIDE DEF place, Def
<1>12. \A i \in Parts : place[i] \in Nat
  <2> DEFINE S == {i \in Parts : place[i] \in Nat}
  <2>1. 0 \in S
    BY <1>1, <1>10
  <2>2. ASSUME NEW i \in 0 .. (LastPart - 1), i \in S
        PROVE  i + 1 \in S
    <3>1. i + 1 \in Parts /\ i + 1 # 0 /\ (i + 1) - 1 = i /\ i + 1 \in 1 .. LastPart
      BY <1>1
    <3>2. place[i + 1] = NextPlace(sizes, i + 1, place[i])
      BY <3>1, <1>10
    <3>3. NextPlace(sizes, i + 1, place[i]) \in Nat
      <4> DEFINE l == i + 1
                 b == place[i]
      <4>1. l \in 1 .. LastPart /\ b \in Nat
        BY <2>2, <3>1
      <4> HIDE DEF l, b
      <4>2. h[<<l, b>>] \in Nat /\ h[<<l, b>>] = NextPlace(sizes, l, b)
        BY <4>1, <1>2, <1>3
      <4> QED
        BY <4>2 DEF l, b
    <3> QED
      BY <3>1, <3>2, <3>3
  <2> HIDE DEF S
  <2>3. \A i \in 0 .. LastPart : i \in S
    BY <1>1, <2>1, <2>2, UpTo
  <2> QED
    BY <1>1, <2>3 DEF S
<1> QED
  BY <1>10, <1>11, <1>12 DEF place

LEMMA PartsInOrder ==
  ASSUME NEW sizes \in [Parts -> Nat]
  PROVE  /\ PlaceOfPart(sizes) \in [Parts -> Nat] /\ PlaceOfPart(sizes)[0] = HeaderSize
         /\ \A i, j \in Parts : i < j => PlaceOfPart(sizes)[i] + sizes[i] <= PlaceOfPart(sizes)[j]
         /\ \A i \in Parts : /\ HeaderSize <= PlaceOfPart(sizes)[i]
                             /\ PlaceOfPart(sizes)[i] + sizes[i] <= EndOfNcch(sizes)
         /\ EndOfNcch(sizes) \in Nat
<1> DEFINE place == PlaceOfPart(sizes)
           end == EndOfNcch(sizes)
<1>1. LastPart \in Nat /\ HeaderSize = 2 /\ Parts = 0 .. LastPart
  BY PatchAssumption DEF HeaderSize, Parts
<1>2. place \in [Parts -> Nat] /\ \A i \in Parts :
        place[i] = IF i = 0 THEN HeaderSize ELSE NextPlace(sizes, i, place[i - 1])
  BY PlaceRecursion
<1>3. end = AlignLast(place[LastPart] + sizes[LastPart])
  BY DEF EndOfNcch
<1> HIDE DEF place, end
<1>4. ASSUME NEW i \in Parts, i # 0
      PROVE  place[i - 1] + sizes[i - 1] <= place[i]
  <2>1. i - 1 \in Parts
    BY <1>1, <1>4
  <2>2. place[i - 1] + sizes[i - 1] \in Nat
    BY <2>1, <1>2
  <2>3. place[i] = NextPlace(sizes, i, place[i - 1])
    BY <1>2, <1>4
  <2> QED
    BY <2>2, <2>3, Aligned DEF NextPlace
<1>5. ASSUME NEW i \in Parts
      PROVE  \A j \in Parts : i < j => place[i] + sizes[i] <= place[j]
  <2> DEFINE S == {j \in Parts : i < j => place[i] + sizes[i] <= place[j]}
  <2>1. 0 \in S
    BY <1>1
  <2>2. ASSUME NEW j \in 0 .. (LastPart - 1), j \in S
        PROVE  j + 1 \in S
    <3>1. j \in Parts /\ j + 1 \in Parts /\ (j + 1) - 1 = j /\ j + 1 # 0
      BY <1>1
    <3>2. place[j] + sizes[j] <= place[j + 1]
      BY <3>1, <1>4
    <3>3. i < j => place[i] + sizes[i] <= place[j]
      BY <2>2
    <3>4. sizes[j] \in Nat /\ sizes[i] \in Nat /\ place[i] \in Nat /\ place[j] \in Nat /\ place[j + 1] \in Nat
      BY <3>1, <1>2
    <3>5. i < j + 1 => i < j \/ i = j
      BY <3>1, <1>1
    <3>6. i < j + 1 => place[i] + sizes[i] <= place[j + 1]
      BY <3>2, <3>3, <3>4, <3>5
    <3> QED
      BY <3>1, <3>6
  <2> HIDE DEF S
  <2>3. \A j \in 0 .. LastPart : j \in S
    BY <1>1, <2>1, <2>2, UpTo
  <2> QED
    BY <2>3, <1>1 DEF S
<1>6. ASSUME NEW i \in Parts
      PROVE  HeaderSize <= place[i]
  <2>1. 0 \in Parts /\ place[0] = HeaderSize
    BY <1>1, <1>2
  <2>2. sizes[0] \in Nat /\ place[i] \in Nat
    BY <2>1, <1>2
  <2>3. 0 < i => place[0] + sizes[0] <= place[i]
    BY <2>1, <1>5
  <2> QED
    BY <2>1, <2>2, <2>3, <1>1
<1>7. end \in Nat /\ place[LastPart] + sizes[LastPart] <= end
  <2>1. place[LastPart] + sizes[LastPart] \in Nat
    BY <1>1, <1>2
  <2> QED
    BY <1>3, <2>1, Aligned
<1>8. ASSUME NEW i \in Parts
      PROVE  place[i] + sizes[i] <= end
  <2>1. LastPart \in Parts
    BY <1>1
  <2>2. i # LastPart => place[i] + sizes[i] <= place[LastPart]
    BY <2>1, <1>1, <1>5
  <2>3. place[i] \in Nat /\ sizes[i] \in Nat /\ place[LastPart] \in Nat /\ sizes[LastPart] \in Nat
    BY <2>1, <1>2
  <2> QED
    BY <2>2, <2>3, <1>7
<1>9. place[0] = HeaderSize
  BY <1>1, <1>2
<1> QED
  BY <1>2, <1>5, <1>6, <1>7, <1>8, <1>9 DEF place, end

\* Where a part is depends on those before it only.
LEMMA PlaceDepends ==
  ASSUME NEW s \in [Parts -> Nat], NEW t \in [Parts -> Nat], NEW n \in Parts,
         \A i \in 0 .. (n - 1) : s[i] = t[i]
  PROVE  \A i \in 0 .. n : PlaceOfPart(s)[i] = PlaceOfPart(t)[i]
<1> DEFINE a == PlaceOfPart(s)
           b == PlaceOfPart(t)
           S == {i \in 0 .. n : a[i] = b[i]}
<1>1. LastPart \in Nat /\ Parts = 0 .. LastPart
  BY PatchAssumption DEF Parts
<1>2. /\ \A i \in Parts : a[i] = IF i = 0 THEN HeaderSize ELSE NextPlace(s, i, a[i - 1])
      /\ \A i \in Parts : b[i] = IF i = 0 THEN HeaderSize ELSE NextPlace(t, i, b[i - 1])
  BY PlaceRecursion
<1> HIDE DEF a, b
<1>3. 0 \in S
  BY <1>1, <1>2
<1>4. ASSUME NEW i \in 0 .. (n - 1), i \in S
      PROVE  i + 1 \in S
  <2>1. i + 1 \in Parts /\ i + 1 # 0 /\ (i + 1) - 1 = i /\ i + 1 \in 0 .. n
    BY <1>1
  <2>2. s[i] = t[i] /\ a[i] = b[i]
    BY <1>4
  <2>3. NextPlace(s, i + 1, a[i]) = NextPlace(t, i + 1, b[i])
    BY <2>1, <2>2 DEF NextPlace
  <2>4. a[i + 1] = b[i + 1]
    BY <2>1, <2>3, <1>2
  <2> QED
    BY <2>1, <2>4
<1> HIDE DEF S
<1>5. n \in Nat
  BY <1>1
<1>6. \A i \in 0 .. n : i \in S
  BY <1>3, <1>4, <1>5, UpTo
<1> QED
  BY <1>6 DEF S, a, b

AllOf == [Partitions -> [Parts -> Nat]]

LEMMA NcchSizes ==
  ASSUME NEW all \in AllOf, NEW p \in Partitions
  PROVE  /\ NcchSize(all, p) \in Nat /\ all[p] \in [Parts -> Nat]
         /\ IsThere(all, p) => NcchSize(all, p) = EndOfNcch(all[p]) /\ HeaderSize <= NcchSize(all, p)
         /\ ~IsThere(all, p) => NcchSize(all, p) = 0
<1>1. all[p] \in [Parts -> Nat]
  BY DEF AllOf
<1>2. 0 \in Parts /\ HeaderSize = 2
  BY PatchAssumption DEF Parts, HeaderSize
<1>3. /\ EndOfNcch(all[p]) \in Nat /\ PlaceOfPart(all[p])[0] = HeaderSize
      /\ PlaceOfPart(all[p])[0] + all[p][0] <= EndOfNcch(all[p])
  BY <1>1, <1>2, PartsInOrder
<1>4. all[p][0] \in Nat
  BY <1>1, <1>2
<1> QED
  BY <1>1, <1>2, <1>3, <1>4 DEF NcchSize

FirstPlace(k) == IF k = "cci" THEN HeaderSize ELSE 0

LEMMA PartitionsInOrder ==
  ASSUME NEW k, NEW all \in AllOf
  PROVE  /\ PlaceOfPartition(k, all) \in [Partitions -> Nat]
         /\ PlaceOfPartition(k, all)[0] = FirstPlace(k)
         /\ \A p, q \in Partitions : p < q =>
              PlaceOfPartition(k, all)[p] + NcchSize(all, p) <= PlaceOfPartition(k, all)[q]
         /\ \A p \in Partitions : FirstPlace(k) <= PlaceOfPartition(k, all)[p]
<1> DEFINE place == PlaceOfPartition(k, all)
           h == [c \in (1 .. LastPartition) \X Nat |-> c[2] + NcchSize(all, c[1] - 1)]
           first == FirstPlace(k)
           n == [p \in Partitions |-> NcchSize(all, p)]
<1>1. LastPartition \in Nat /\ first \in Nat /\ Partitions = 0 .. LastPartition
  BY PatchAssumption DEF HeaderSize, Partitions, FirstPlace
<1>2. n \in [Partitions -> Nat]
  BY NcchSizes
<1>3. \A p \in Partitions : n[p] = NcchSize(all, p)
  OBVIOUS
<1> HIDE DEF n
<1>4. ASSUME NEW p \in 1 .. LastPartition
      PROVE  p - 1 \in Partitions /\ n[p - 1] = NcchSize(all, p - 1) /\ n[p - 1] \in Nat
  BY <1>1, <1>2, <1>3
<1>5. h \in [(1 .. LastPartition) \X Nat -> Nat]
  BY <1>4
<1>6. \A i \in 1 .. LastPartition : \A b \in Nat : h[<<i, b>>] = b + n[i - 1]
  BY <1>4
<1> HIDE DEF h, first
<1>7. PICK f \in [0 .. LastPartition -> Nat] : Recurs(f, LastPartition, first, h)
  BY <1>1, <1>5, Recursion
<1>8. f = [p \in Partitions |-> IF p = 0 THEN first ELSE f[p - 1] + NcchSize(all, p - 1)]
  <2>1. ASSUME NEW p \in Partitions
        PROVE  f[p] = IF p = 0 THEN first ELSE f[p - 1] + NcchSize(all, p - 1)
    <3>1. f[p] = IF p = 0 THEN first ELSE h[<<p, f[p - 1]>>]
      BY <1>1, <1>7 DEF Recurs
    <3>2. p # 0 => p \in 1 .. LastPartition /\ p - 1 \in 0 .. LastPartition
      BY <1>1
    <3>3. p # 0 => h[<<p, f[p - 1]>>] = f[p - 1] + NcchSize(all, p - 1)
      BY <3>2, <1>4, <1>6
    <3> QED
      BY <3>1, <3>3
  <2> QED
    BY <1>1, <2>1
<1> DEFINE Def(g) == g = [p \in Partitions |->
                            IF p = 0 THEN (IF k = "cci" THEN HeaderSize ELSE 0)
                            ELSE g[p - 1] + NcchSize(all, p - 1)]
<1>9. Def(f)
  BY <1>8 DEF first, FirstPlace
<1>10. place = CHOOSE g : Def(g)
  BY DEF PlaceOfPartition
<1>11. Def(place)
  BY <1>9, <1>10
<1>12. place = [p \in Partitions |-> IF p = 0 THEN first ELSE place[p - 1] + n[p - 1]]
  <2>1. \A p \in Partitions : p # 0 => NcchSize(all, p - 1) = n[p - 1]
    BY <1>1, <1>4
  <2> QED
    BY <1>11, <2>1 DEF first, FirstPlace
<1> HIDE DEF place, Def
<1>13. \A p \in Partitions : place[p] \in Nat
  <2> DEFINE S == {p \in Partitions : place[p] \in Nat}
  <2>1. 0 \in S
    BY <1>1, <1>12
  <2>2. ASSUME NEW p \in 0 .. (LastPartition - 1), p \in S
        PROVE  p + 1 \in S
    <3>1. p + 1 \in Partitions /\ p + 1 # 0 /\ (p + 1) - 1 = p /\ p \in Partitions
      BY <1>1
    <3>2. place[p + 1] = place[p] + n[p]
      BY <3>1, <1>12
    <3> QED
      BY <3>1, <3>2, <2>2, <1>2
  <2> HIDE DEF S
  <2>3. \A p \in 0 .. LastPartition : p \in S
    BY <1>1, <2>1, <2>2, UpTo
  <2> QED
    BY <1>1, <2>3 DEF S
<1>14. ASSUME NEW p \in Partitions
       PROVE  \A q \in Partitions : p < q => place[p] + n[p] <= place[q]
  <2> DEFINE S == {q \in Partitions : p < q => place[p] + n[p] <= place[q]}
  <2>1. 0 \in S
    BY <1>1
  <2>2. ASSUME NEW q \in 0 .. (LastPartition - 1), q \in S
        PROVE  q + 1 \in S
    <3>1. q + 1 \in Partitions /\ q + 1 # 0 /\ (q + 1) - 1 = q /\ q \in Partitions
      BY <1>1
    <3>2. place[q + 1] = place[q] + n[q]
      BY <3>1, <1>12
    <3>3. p < q => place[p] + n[p] <= place[q]
      BY <2>2
    <3>4. p < q + 1 => p < q \/ p = q
      BY <3>1, <1>1
    <3>5. n[p] \in Nat /\ n[q] \in Nat /\ place[p] \in Nat /\ place[q] \in Nat
      BY <3>1, <1>2, <1>13
    <3>6. p < q + 1 => place[p] + n[p] <= place[q + 1]
      BY <3>2, <3>3, <3>4, <3>5
    <3> QED
      BY <3>1, <3>6
  <2> HIDE DEF S
  <2>3. \A q \in 0 .. LastPartition : q \in S
    BY <1>1, <2>1, <2>2, UpTo
  <2> QED
    BY <1>1, <2>3 DEF S
<1>15. place[0] = first
  BY <1>1, <1>12
<1>16. ASSUME NEW p \in Partitions
       PROVE  first <= place[p]
  <2>1. 0 \in Partitions /\ n[0] \in Nat /\ place[p] \in Nat
    BY <1>1, <1>2, <1>13
  <2>2. 0 < p => place[0] + n[0] <= place[p]
    BY <2>1, <1>14
  <2> QED
    BY <2>1, <2>2, <1>1, <1>15
<1>17. place \in [Partitions -> Nat]
  BY <1>12, <1>13
<1> QED
  BY <1>3, <1>14, <1>15, <1>16, <1>17 DEF place, first

Entry == [Offset : Nat, Size : Nat]

EndOf(e) == e.Offset + e.Size

Ordered(T, last) == \A i, j \in 0 .. last : i < j => EndOf(T[i]) <= T[j].Offset

\* What Completed makes of a table whose entries that are there lie one behind the other.
IsCompleted(T, raw, last, lo) ==
  LET there == {j \in 0 .. last : raw[j] # NoEntry} IN
  /\ T \in [0 .. last -> Entry] /\ Ordered(T, last)
  /\ \A i \in 0 .. last : IF raw[i] # NoEntry THEN T[i] = raw[i] ELSE T[i].Size = 0
  /\ there # {} => /\ \A i \in 0 .. last : lo <= T[i].Offset
                   /\ \E m \in there : EndOf(T[last]) = EndOf(raw[m])
  /\ there = {} => \A i \in 0 .. last : T[i] = NoEntry

LEMMA CompletedTable ==
  ASSUME NEW last \in Nat, NEW raw \in [0 .. last -> Entry], NEW lo \in Nat,
         \A i, j \in 0 .. last : i < j /\ raw[i] # NoEntry /\ raw[j] # NoEntry =>
           EndOf(raw[i]) <= raw[j].Offset,
         \A i \in 0 .. last : raw[i] # NoEntry => lo <= raw[i].Offset
  PROVE  IsCompleted(Completed(raw, last), raw, last, lo)
<1> DEFINE there == {j \in 0 .. last : raw[j] # NoEntry}
           further(i) == {j \in there : i < j}
           offset(i) == IF \E j \in there : i < j THEN raw[Min(further(i))].Offset
                        ELSE IF there # {} THEN EndOf(raw[Max(there)]) ELSE 0
           T == Completed(raw, last)
<1>1. T = [i \in 0 .. last |-> IF i \in there THEN raw[i] ELSE [Offset |-> offset(i), Size |-> 0]]
  BY DEF Completed, EndOf
<1>2. \A i \in 0 .. last : raw[i].Offset \in Nat /\ raw[i].Size \in Nat /\ EndOf(raw[i]) \in Nat
  BY DEF Entry, EndOf
<1>3. there \subseteq 0 .. last /\ there \subseteq Nat
  OBVIOUS
<1>4. \A i, j \in there : i < j => EndOf(raw[i]) <= raw[j].Offset
  OBVIOUS
<1>5. \A i \in there : lo <= raw[i].Offset
  OBVIOUS
<1> HIDE DEF there
<1>6. ASSUME NEW i \in 0 .. last, further(i) # {}
      PROVE  /\ Min(further(i)) \in further(i) /\ \A j \in further(i) : Min(further(i)) <= j
             /\ offset(i) = raw[Min(further(i))].Offset
  <2>1. further(i) \subseteq Nat
    BY <1>3
  <2> DEFINE F == further(i)
  <2>2. \E j \in there : i < j
    BY <1>6
  <2>3. offset(i) = raw[Min(F)].Offset
    BY <2>2
  <2>4. F \subseteq Nat /\ F # {}
    BY <2>1, <1>6
  <2> HIDE DEF F
  <2>5. Min(F) \in F /\ \A j \in F : Min(F) <= j
    BY <2>4, MinProperties
  <2> QED
    BY <2>3, <2>5 DEF F
<1>7. ASSUME there # {}
      PROVE  Max(there) \in there /\ \A j \in there : j <= Max(there)
  <2>1. \A j \in there : j <= last
    BY <1>3
  <2> QED
    BY <1>3, <1>7, <2>1, MaxProperties
<1> DEFINE m == Max(there)
<1>8. ASSUME NEW i \in 0 .. last, further(i) = {}, there # {}
      PROVE  offset(i) = EndOf(raw[m])
  <2>1. ~\E j \in there : i < j
    BY <1>8
  <2> QED
    BY <2>1, <1>8
<1>9. ASSUME NEW i \in 0 .. last, there = {}
      PROVE  offset(i) = 0
  BY <1>9
<1>10. ASSUME NEW i \in 0 .. last
       PROVE  offset(i) \in Nat /\ (there # {} => lo <= offset(i))
  <2>1. CASE further(i) # {}
    <3>1. Min(further(i)) \in there
      BY <1>6, <2>1
    <3> QED
      BY <3>1, <2>1, <1>2, <1>3, <1>5, <1>6
  <2>2. CASE further(i) = {} /\ there # {}
    <3>1. m \in there /\ offset(i) = EndOf(raw[m])
      BY <2>2, <1>7, <1>8
    <3>2. m \in 0 .. last /\ lo <= raw[m].Offset
      BY <3>1, <1>3, <1>5
    <3>3. lo <= EndOf(raw[m])
      BY <3>2, <1>2 DEF EndOf
    <3> QED
      BY <3>1, <3>2, <3>3, <1>2
  <2>3. CASE there = {}
    BY <2>3, <1>9
  <2> QED
    BY <2>1, <2>2, <2>3
<1>21. there # {} => m \in there /\ m \in 0 .. last /\ \A j \in there : j <= m
  BY <1>3, <1>7
<1> HIDE DEF m, offset
\* The end of an entry that is there is at most the offset given to a later one.
<1>11. ASSUME NEW i \in there, NEW j \in 0 .. last, i < j
       PROVE  EndOf(raw[i]) <= offset(j)
  <2>1. CASE further(j) # {}
    <3> DEFINE n == Min(further(j))
    <3>1. n \in there /\ j < n /\ offset(j) = raw[n].Offset
      BY <1>6, <2>1
    <3> HIDE DEF n
    <3>2. i < n
      BY <3>1, <1>3, <1>11
    <3> QED
      BY <3>1, <3>2, <1>4
  <2>2. CASE further(j) = {}
    <3>1. m \in there /\ i <= m /\ offset(j) = EndOf(raw[m])
      BY <2>2, <1>21, <1>8
    <3>2. i < m => EndOf(raw[i]) <= raw[m].Offset
      BY <3>1, <1>4
    <3>3. m \in 0 .. last /\ i \in 0 .. last
      BY <3>1, <1>3
    <3>4. raw[m].Offset <= EndOf(raw[m])
      BY <3>3, <1>2 DEF EndOf
    <3> QED
      BY <3>1, <3>2, <3>3, <3>4, <1>2
  <2> QED
    BY <2>1, <2>2
<1>12. ASSUME NEW i \in 0 .. last, NEW j \in there, i < j
       PROVE  offset(i) <= raw[j].Offset
  <2>1. j \in further(i)
    BY <1>12
  <2>2. Min(further(i)) \in there /\ Min(further(i)) <= j /\ offset(i) = raw[Min(further(i))].Offset
    BY <2>1, <1>6
  <2> DEFINE n == Min(further(i))
  <2>3. n \in there /\ n <= j /\ offset(i) = raw[n].Offset
    BY <2>2
  <2> HIDE DEF n
  <2>4. n < j => EndOf(raw[n]) <= raw[j].Offset
    BY <2>3, <1>4
  <2>5. n \in 0 .. last /\ j \in 0 .. last
    BY <2>3, <1>3
  <2>6. raw[n].Offset <= EndOf(raw[n])
    BY <2>5, <1>2 DEF EndOf
  <2> QED
    BY <2>3, <2>4, <2>5, <2>6, <1>2
<1>13. ASSUME NEW i \in 0 .. last, NEW j \in 0 .. last, i < j
       PROVE  offset(i) <= offset(j)
  <2>1. CASE further(j) # {}
    <3> DEFINE n == Min(further(j))
    <3>1. n \in there /\ j < n /\ offset(j) = raw[n].Offset
      BY <2>1, <1>6
    <3> HIDE DEF n
    <3>2. i < n
      BY <3>1, <1>3, <1>13
    <3> QED
      BY <3>1, <3>2, <1>12
  <2>2. CASE further(j) = {} /\ there # {}
    <3>1. m \in there /\ offset(j) = EndOf(raw[m])
      BY <2>2, <1>21, <1>8
    <3>2. m \in 0 .. last
      BY <3>1, <1>3
    <3>3. CASE i < m
      <4>1. offset(i) <= raw[m].Offset
        BY <3>1, <3>3, <1>12
      <4>2. raw[m].Offset <= EndOf(raw[m])
        BY <3>2, <1>2 DEF EndOf
      <4> QED
        BY <3>1, <3>2, <4>1, <4>2, <1>2, <1>10
    <3>4. CASE ~(i < m)
      <4>1. further(i) = {}
        <5>1. \A j2 \in there : ~(i < j2)
          BY <3>1, <3>2, <3>4, <1>3, <1>21
        <5> QED
          BY <5>1
      <4>2. offset(i) = EndOf(raw[m])
        BY <2>2, <4>1, <1>8
      <4> QED
        BY <3>1, <3>2, <4>2, <1>2
    <3> QED
      BY <3>3, <3>4
  <2>3. CASE there = {}
    BY <2>3, <1>9
  <2> QED
    BY <2>1, <2>2, <2>3
<1> HIDE DEF offset, further, T, m
<1>14. ASSUME NEW i \in 0 .. last
       PROVE  /\ i \in there => T[i] = raw[i]
              /\ i \notin there => T[i].Offset = offset(i) /\ T[i].Size = 0 /\ EndOf(T[i]) = offset(i)
              /\ T[i] \in Entry
  <2>1. i \in there => T[i] = raw[i]
    BY <1>1
  <2>2. i \notin there => T[i] = [Offset |-> offset(i), Size |-> 0]
    BY <1>1
  <2>3. offset(i) \in Nat
    BY <1>10
  <2> QED
    BY <2>1, <2>2, <2>3 DEF Entry, EndOf
<1>15. T \in [0 .. last -> Entry]
  BY <1>1, <1>14
<1>16. Ordered(T, last)
  <2> SUFFICES ASSUME NEW i \in 0 .. last, NEW j \in 0 .. last, i < j
               PROVE  EndOf(T[i]) <= T[j].Offset
    BY DEF Ordered
  <2>1. CASE i \in there /\ j \in there
    BY <2>1, <1>4, <1>14
  <2>2. CASE i \in there /\ j \notin there
    BY <2>2, <1>11, <1>14
  <2>3. CASE i \notin there /\ j \in there
    BY <2>3, <1>12, <1>14
  <2>4. CASE i \notin there /\ j \notin there
    BY <2>4, <1>13, <1>14
  <2> QED
    BY <2>1, <2>2, <2>3, <2>4
<1>17. \A i \in 0 .. last : there # {} => lo <= T[i].Offset
  BY <1>5, <1>10, <1>14
<1>18. ASSUME there # {}
       PROVE  \E n \in there : EndOf(T[last]) = EndOf(raw[n])
  <2>1. last \in 0 .. last
    OBVIOUS
  <2>2. CASE last \in there
    BY <2>1, <2>2, <1>14
  <2>3. CASE last \notin there
    <3>1. further(last) = {}
      <4>1. \A j \in there : ~(last < j)
        BY <1>3
      <4> QED
        BY <4>1 DEF further
    <3>2. m \in there /\ offset(last) = EndOf(raw[m])
      BY <2>1, <3>1, <1>18, <1>21, <1>8 DEF m
    <3> QED
      BY <2>1, <2>3, <3>2, <1>14
  <2> QED
    BY <2>2, <2>3
<1>19. ASSUME there = {}, NEW i \in 0 .. last
       PROVE  T[i] = NoEntry
  <2>1. T[i] = [Offset |-> offset(i), Size |-> 0] /\ offset(i) = 0
    BY <1>1, <1>9, <1>19
  <2> QED
    BY <2>1 DEF NoEntry
<1>20. \A i \in 0 .. last : i \in there <=> raw[i] # NoEntry
  BY DEF there
<1> QED
  BY <1>14, <1>15, <1>16, <1>17, <1>18, <1>19, <1>20 DEF there, T, IsCompleted

LEMMA NoEntryType == NoEntry \in Entry /\ NoEntry.Size = 0 /\ NoEntry.Offset = 0 /\ EndOf(NoEntry) = 0
BY DEF NoEntry, Entry, EndOf

\* The table of an NCSD.
IsTable(T, k, all) ==
  /\ T \in [Partitions -> Entry] /\ Ordered(T, LastPartition)
  /\ \A p \in Partitions :
       /\ T[p].Size = NcchSize(all, p) /\ FirstPlace(k) <= T[p].Offset
       /\ IsThere(all, p) => T[p].Offset = PlaceOfPartition(k, all)[p]
       /\ EndOf(T[p]) <= EndOf(T[LastPartition])
  /\ T[0].Offset = FirstPlace(k)
  /\ \E p \in Partitions : IsThere(all, p) /\ EndOf(T[LastPartition]) = EndOf(T[p])

LEMMA TableOfNcsd ==
  ASSUME NEW k, NEW all \in AllOf
  PROVE  IsTable(AnalyzeNcsd(k, all), k, all)
<1> DEFINE place == PlaceOfPartition(k, all)
           raw == [p \in Partitions |-> IF IsThere(all, p)
                                        THEN [Offset |-> place[p], Size |-> NcchSize(all, p)]
                                        ELSE NoEntry]
           T == AnalyzeNcsd(k, all)
           first == FirstPlace(k)
<1>1. LastPartition \in Nat /\ Partitions = 0 .. LastPartition /\ HeaderSize = 2 /\ first \in Nat
  BY PatchAssumption DEF Partitions, HeaderSize, FirstPlace
<1>2. /\ place \in [Partitions -> Nat] /\ place[0] = first
      /\ \A p, q \in Partitions : p < q => place[p] + NcchSize(all, p) <= place[q]
      /\ \A p \in Partitions : first <= place[p]
  BY PartitionsInOrder
<1>3. \A p \in Partitions : NcchSize(all, p) \in Nat
  BY NcchSizes
<1>4. T = Completed(raw, LastPartition)
  BY DEF AnalyzeNcsd
<1> HIDE DEF place, T, first
<1>5. raw \in [0 .. LastPartition -> Entry]
  BY <1>1, <1>2, <1>3 DEF Entry, NoEntry
<1>6. ASSUME NEW p \in Partitions
      PROVE  /\ IsThere(all, p) => /\ raw[p].Offset = place[p] /\ raw[p].Size = NcchSize(all, p)
                                   /\ EndOf(raw[p]) = place[p] + NcchSize(all, p)
                                   /\ raw[p] # NoEntry
             /\ ~IsThere(all, p) => raw[p] = NoEntry
  <2>1. IsThere(all, p) => raw[p] = [Offset |-> place[p], Size |-> NcchSize(all, p)]
    OBVIOUS
  <2>2. IsThere(all, p) => NcchSize(all, p) # 0
    BY <1>1, <1>3, NcchSizes
  <2>3. raw[p].Size # 0 => raw[p] # NoEntry
    BY NoEntryType
  <2>4. ~IsThere(all, p) => raw[p] = NoEntry
    OBVIOUS
  <2> HIDE DEF raw
  <2> QED
    BY <2>1, <2>2, <2>3, <2>4 DEF EndOf
<1> HIDE DEF raw
<1>7. \A i, j \in 0 .. LastPartition : i < j /\ raw[i] # NoEntry /\ raw[j] # NoEntry =>
        EndOf(raw[i]) <= raw[j].Offset
  BY <1>1, <1>2, <1>6
<1>8. \A i \in 0 .. LastPartition : raw[i] # NoEntry => first <= raw[i].Offset
  BY <1>1, <1>2, <1>6
<1>9. IsCompleted(T, raw, LastPartition, first)
  BY <1>1, <1>4, <1>5, <1>7, <1>8, CompletedTable
<1>10. 0 \in Partitions /\ IsThere(all, 0) /\ raw[0] # NoEntry
  BY <1>1, <1>6 DEF IsThere
<1>11. T \in [Partitions -> Entry] /\ Ordered(T, LastPartition)
  BY <1>1, <1>9 DEF IsCompleted
<1>12. ASSUME NEW p \in Partitions
       PROVE  /\ T[p].Size = NcchSize(all, p) /\ first <= T[p].Offset
              /\ IsThere(all, p) => T[p].Offset = place[p] /\ T[p] = raw[p]
  <2>1. IF raw[p] # NoEntry THEN T[p] = raw[p] ELSE T[p].Size = 0
    BY <1>1, <1>9 DEF IsCompleted
  <2>2. first <= T[p].Offset
    BY <1>1, <1>9, <1>10 DEF IsCompleted
  <2>3. ~IsThere(all, p) => NcchSize(all, p) = 0
    BY NcchSizes
  <2> QED
    BY <2>1, <2>2, <2>3, <1>6
<1>13. ASSUME NEW p \in Partitions
       PROVE  EndOf(T[p]) <= EndOf(T[LastPartition])
  <2>1. p \in 0 .. LastPartition /\ LastPartition \in 0 .. LastPartition /\ LastPartition \in Partitions
    BY <1>1
  <2>2. \A q \in Partitions : T[q].Offset \in Nat /\ T[q].Size \in Nat
    BY <1>11 DEF Entry
  <2>3. p < LastPartition => EndOf(T[p]) <= T[LastPartition].Offset
    BY <2>1, <1>11 DEF Ordered
  <2> QED
    BY <2>1, <2>2, <2>3 DEF EndOf
<1>14. T[0].Offset = first
  BY <1>2, <1>10, <1>12
<1>15. PICK p \in 0 .. LastPartition : raw[p] # NoEntry /\ EndOf(T[LastPartition]) = EndOf(raw[p])
  BY <1>1, <1>9, <1>10 DEF IsCompleted
<1>16. p \in Partitions /\ IsThere(all, p) /\ EndOf(T[LastPartition]) = EndOf(T[p])
  BY <1>1, <1>6, <1>12, <1>15
<1>17. IsTable(T, k, all)
  BY <1>11, <1>12, <1>13, <1>14, <1>16 DEF IsTable, first, place
<1> QED
  BY <1>17 DEF T

\* The table of an NCCH: that of a CFA has the last part only.
IsPartTable(E, k, sizes) ==
  /\ E \in [Parts -> Entry] /\ Ordered(E, LastPart)
  /\ \A i \in Parts :
       /\ EndOf(E[i]) <= EndOfNcch(sizes)
       /\ E[i].Size # 0 => E[i].Size = sizes[i] /\ E[i].Offset = PlaceOfPart(sizes)[i]
       /\ k # "cfa" => E[i].Size = sizes[i] /\ HeaderSize <= E[i].Offset
       /\ k = "cfa" =>
            /\ E[i].Size = IF i = LastPart THEN sizes[i] ELSE 0
            /\ E[i].Offset = IF sizes[LastPart] = 0 THEN 0 ELSE PlaceOfPart(sizes)[LastPart]
  /\ k # "cfa" => E[0].Offset = HeaderSize

LEMMA TableOfNcch ==
  ASSUME NEW k, NEW sizes \in [Parts -> Nat]
  PROVE  IsPartTable(Analyze(sizes, k), k, sizes)
<1> DEFINE place == PlaceOfPart(sizes)
           dropped(i) == (k = "cfa" /\ i # LastPart) \/ (sizes[i] = 0 /\ i # 0)
           raw == [i \in Parts |-> IF dropped(i) THEN NoEntry ELSE [Offset |-> place[i], Size |-> sizes[i]]]
           E == Analyze(sizes, k)
           lo == IF k = "cfa" THEN place[LastPart] ELSE HeaderSize
           end == EndOfNcch(sizes)
<1>1. LastPart \in Nat \ {0} /\ Parts = 0 .. LastPart /\ HeaderSize = 2
  BY PatchAssumption DEF Parts, HeaderSize
<1>2. /\ place \in [Parts -> Nat] /\ place[0] = HeaderSize
      /\ \A i, j \in Parts : i < j => place[i] + sizes[i] <= place[j]
      /\ \A i \in Parts : HeaderSize <= place[i] /\ place[i] + sizes[i] <= end
      /\ end \in Nat
  BY PartsInOrder
<1>3. E = Completed(raw, LastPart)
  BY DEF Analyze
<1> HIDE DEF place, E, end
<1>4. raw \in [0 .. LastPart -> Entry]
  BY <1>1, <1>2 DEF Entry, NoEntry
<1>5. ASSUME NEW i \in Parts
      PROVE  /\ ~dropped(i) => /\ raw[i].Offset = place[i] /\ raw[i].Size = sizes[i]
                               /\ EndOf(raw[i]) = place[i] + sizes[i] /\ raw[i] # NoEntry
             /\ dropped(i) => raw[i] = NoEntry
  <2>1. ~dropped(i) => raw[i] = [Offset |-> place[i], Size |-> sizes[i]]
    OBVIOUS
  <2>2. dropped(i) => raw[i] = NoEntry
    OBVIOUS
  <2>3. place[i] # 0
    BY <1>1, <1>2
  <2>4. raw[i].Offset # 0 => raw[i] # NoEntry
    BY NoEntryType
  <2> HIDE DEF raw, dropped
  <2> QED
    BY <2>1, <2>2, <2>3, <2>4 DEF EndOf
<1> HIDE DEF raw
<1>6. \A i, j \in 0 .. LastPart : i < j /\ raw[i] # NoEntry /\ raw[j] # NoEntry =>
        EndOf(raw[i]) <= raw[j].Offset
  <2> HIDE DEF dropped
  <2> QED
    BY <1>1, <1>2, <1>5
<1>7. lo \in Nat /\ \A i \in 0 .. LastPart : raw[i] # NoEntry => lo <= raw[i].Offset
  <2>1. lo \in Nat
    BY <1>1, <1>2
  <2>2. ASSUME NEW i \in Parts, raw[i] # NoEntry
        PROVE  lo <= raw[i].Offset
    <3>1. ~dropped(i) /\ raw[i].Offset = place[i]
      BY <1>5, <2>2
    <3>2. k = "cfa" => i = LastPart
      BY <3>1
    <3>3. HeaderSize <= place[i] /\ place[i] \in Nat
      BY <1>2
    <3> QED
      BY <3>1, <3>2, <3>3
  <2> QED
    BY <1>1, <2>1, <2>2
<1> HIDE DEF lo
<1>8. IsCompleted(E, raw, LastPart, lo)
  BY <1>1, <1>3, <1>4, <1>6, <1>7, CompletedTable
<1>9. E \in [Parts -> Entry] /\ Ordered(E, LastPart)
  BY <1>1, <1>8 DEF IsCompleted
<1>10. ASSUME NEW i \in Parts
       PROVE  /\ ~dropped(i) => E[i].Offset = place[i] /\ E[i].Size = sizes[i]
              /\ dropped(i) => E[i].Size = 0
              /\ E[i].Offset \in Nat /\ E[i].Size \in Nat
              /\ (\E j \in Parts : ~dropped(j)) => lo <= E[i].Offset
              /\ (\A j \in Parts : dropped(j)) => E[i] = NoEntry
  <2>1. IF raw[i] # NoEntry THEN E[i] = raw[i] ELSE E[i].Size = 0
    BY <1>1, <1>8 DEF IsCompleted
  <2>2. E[i].Offset \in Nat /\ E[i].Size \in Nat
    BY <1>9 DEF Entry
  <2>3. (\E j \in 0 .. LastPart : raw[j] # NoEntry) => lo <= E[i].Offset
    BY <1>1, <1>8 DEF IsCompleted
  <2>4. (\A j \in 0 .. LastPart : raw[j] = NoEntry) => E[i] = NoEntry
    BY <1>1, <1>8 DEF IsCompleted
  <2> HIDE DEF dropped
  <2> QED
    BY <2>1, <2>2, <2>3, <2>4, <1>1, <1>5
<1>11. 0 \in Parts /\ LastPart \in Parts
  BY <1>1
<1>12. ASSUME NEW i \in Parts, k # "cfa"
       PROVE  E[i].Size = sizes[i] /\ HeaderSize <= E[i].Offset /\ E[0].Offset = HeaderSize
  <2>1. ~dropped(0)
    BY <1>12
  <2>2. HeaderSize <= E[i].Offset /\ E[0].Offset = HeaderSize
    BY <1>2, <1>10, <1>11, <1>12, <2>1 DEF lo
  <2>3. dropped(i) => sizes[i] = 0
    BY <1>12
  <2> QED
    BY <2>2, <2>3, <1>10
<1>13. ASSUME NEW i \in Parts, k = "cfa"
       PROVE  /\ E[i].Size = IF i = LastPart THEN sizes[i] ELSE 0
              /\ E[i].Offset = IF sizes[LastPart] = 0 THEN 0 ELSE place[LastPart]
  <2>1. CASE sizes[LastPart] = 0
    <3>1. \A j \in Parts : dropped(j)
      BY <2>1, <1>1, <1>13
    <3>2. E[i] = NoEntry
      BY <3>1, <1>10
    <3> QED
      BY <2>1, <3>2, NoEntryType
  <2>2. CASE sizes[LastPart] # 0
    <3>1. ~dropped(LastPart)
      BY <2>2, <1>13
    <3>2. E[LastPart].Offset = place[LastPart] /\ E[LastPart].Size = sizes[LastPart]
      BY <3>1, <1>10, <1>11
    <3>3. i # LastPart => dropped(i)
      BY <1>13
    <3>4. i # LastPart => E[i].Size = 0
      BY <3>3, <1>10
    <3>5. place[LastPart] <= E[i].Offset
      BY <3>1, <1>10, <1>11, <1>13 DEF lo
    <3>6. i # LastPart => EndOf(E[i]) <= E[LastPart].Offset
      BY <1>1, <1>9 DEF Ordered
    <3>7. E[i].Offset \in Nat /\ E[i].Size \in Nat /\ place[LastPart] \in Nat
      BY <1>2, <1>10, <1>11
    <3>8. i # LastPart => E[i].Offset <= place[LastPart]
      BY <3>2, <3>4, <3>6, <3>7 DEF EndOf
    <3>9. E[i].Offset = place[LastPart]
      BY <3>2, <3>5, <3>7, <3>8
    <3> QED
      BY <2>2, <3>2, <3>4, <3>9
  <2> QED
    BY <2>1, <2>2
<1>14. ASSUME NEW i \in Parts
       PROVE  EndOf(E[i]) <= end
  <2>1. CASE \E m \in 0 .. LastPart : raw[m] # NoEntry
    <3>1. PICK m \in 0 .. LastPart : raw[m] # NoEntry /\ EndOf(E[LastPart]) = EndOf(raw[m])
      BY <2>1, <1>8 DEF IsCompleted
    <3>2. m \in Parts /\ EndOf(raw[m]) = place[m] + sizes[m]
      BY <3>1, <1>1, <1>5
    <3>3. EndOf(E[LastPart]) <= end
      BY <3>1, <3>2, <1>2
    <3>4. i # LastPart => EndOf(E[i]) <= E[LastPart].Offset
      BY <1>1, <1>9 DEF Ordered
    <3>5. /\ E[i].Offset \in Nat /\ E[i].Size \in Nat
          /\ E[LastPart].Offset \in Nat /\ E[LastPart].Size \in Nat
      BY <1>10, <1>11
    <3> QED
      BY <3>3, <3>4, <3>5, <1>2 DEF EndOf
  <2>2. CASE \A m \in 0 .. LastPart : raw[m] = NoEntry
    <3>1. E[i] = NoEntry
      BY <2>2, <1>1, <1>8 DEF IsCompleted
    <3> QED
      BY <3>1, <1>2, NoEntryType
  <2> QED
    BY <2>1, <2>2
<1>15. ASSUME NEW i \in Parts, E[i].Size # 0
       PROVE  E[i].Size = sizes[i] /\ E[i].Offset = place[i]
  BY <1>10, <1>15
<1>16. k # "cfa" => E[0].Offset = HeaderSize
  BY <1>11, <1>12
<1>17. IsPartTable(E, k, sizes)
  BY <1>9, <1>12, <1>13, <1>14, <1>15, <1>16 DEF IsPartTable, place, end
<1> QED
  BY <1>17 DEF E

LEMMA NoPartTable == [i \in Parts |-> NoEntry] \in [Parts -> Entry]
BY NoEntryType

\* The tables of a file: that of each partition that is there, and those that the code
\* sees where there is none.
LEMMA TableOfParts ==
  ASSUME NEW k, NEW all \in AllOf, NEW p \in Partitions
  PROVE  /\ PartsAt(k, all, p) \in [Parts -> Entry]
         /\ IsThere(all, p) => IsPartTable(PartsAt(k, all, p), KindOf(k, p), all[p])
<1> DEFINE there == {q \in p .. LastPartition : IsThere(all, q)}
<1>1. LastPartition \in Nat /\ Partitions = 0 .. LastPartition
  BY PatchAssumption DEF Partitions
<1>2. CASE there = {}
  <2>1. PartsAt(k, all, p) = [i \in Parts |-> NoEntry]
    BY <1>2 DEF PartsAt
  <2>2. ~IsThere(all, p)
    BY <1>1, <1>2
  <2> QED
    BY <2>1, <2>2, NoPartTable
<1>3. CASE there # {}
  <2> DEFINE q == Min(there)
  <2>1. PartsAt(k, all, p) = Analyze(all[q], KindOf(k, p))
    BY <1>3 DEF PartsAt
  <2>2. there \subseteq Nat
    BY <1>1
  <2>3. IsThere(all, p) => p \in there
    BY <1>1
  <2>4. \A j \in there : p <= j /\ j \in Partitions
    BY <1>1
  <2> HIDE DEF there
  <2>5. q \in there /\ \A j \in there : q <= j
    BY <1>3, <2>2, MinProperties
  <2>7. q \in Partitions /\ p <= q
    BY <2>4, <2>5
  <2>10. IsThere(all, p) => q <= p
    BY <2>3, <2>5
  <2> HIDE DEF q
  <2>6. IsThere(all, p) => q = p
    BY <1>1, <2>7, <2>10
  <2>8. all[q] \in [Parts -> Nat]
    BY <2>7 DEF AllOf
  <2>9. IsPartTable(Analyze(all[q], KindOf(k, p)), KindOf(k, p), all[q])
    BY <2>8, TableOfNcch
  <2> QED
    BY <2>1, <2>6, <2>9 DEF IsPartTable
<1> QED
  BY <1>2, <1>3

-----------------------------------------------------------------------------
(* The two files                                                           *)

\* What is used of a file.
IsLaid(file, k, all, ncsd, header) ==
  /\ file.Sizes = all /\ all \in AllOf /\ IsTable(file.Table, k, all)
  /\ \A p \in Partitions :
       /\ file.Parts[p] \in [Parts -> Entry]
       /\ IsThere(all, p) =>
            /\ IsPartTable(file.Parts[p], KindOf(k, p), all[p])
            /\ file.Bytes[file.Table[p].Offset] = Magic
            /\ file.Bytes[file.Table[p].Offset + 1] = header[p]
  /\ IsFile(file.Bytes) /\ EndOf(file.Table[LastPartition]) <= Length(file.Bytes)
  /\ k = "cci" =>
       /\ Length(file.Bytes) = CardSize
       /\ file.Bytes[0] = Magic /\ file.Bytes[1] = ncsd
       /\ \A x \in EndOf(file.Table[LastPartition]) .. (CardSize - 1) : file.Bytes[x] = Filling
  /\ k # "cci" =>
       /\ \A p \in Partitions : IsThere(all, p) => p = 0
       /\ Length(file.Bytes) = file.Table[0].Size
       /\ \A x \in HeaderSize .. (file.Table[0].Size - 1) :
            \/ \E i \in Parts : /\ PlaceOfPart(all[0])[i] <= x
                                /\ x < PlaceOfPart(all[0])[i] + all[0][i]
            \/ file.Bytes[x] = Filler

LEMMA SizesType ==
  ASSUME NEW k, NEW all \in AllSizes(k)
  PROVE  /\ all \in AllOf
         /\ k # "cci" => \A p \in Partitions : IsThere(all, p) => p = 0
         /\ k = "cci" => all \in Cards
<1>1. CASE k = "cci"
  <2>1. all \in Cards
    BY <1>1 DEF AllSizes
  <2>2. all \in AllOf
    BY <2>1, PatchAssumption DEF AllOf, Partitions, Parts
  <2> QED
    BY <1>1, <2>1, <2>2
<1>2. CASE k # "cci"
  <2>1. PICK sizes \in PartSizes(k) :
          all = [p \in Partitions |-> IF p = 0 THEN sizes ELSE [i \in Parts |-> 0]]
    BY <1>2 DEF AllSizes
  <2>2. sizes \in [Parts -> Nat] /\ [i \in Parts |-> 0] \in [Parts -> Nat]
    <3>1. sizes \in [Parts -> Sizes \cup {0}]
      BY DEF PartSizes
    <3>2. Sizes \cup {0} \subseteq Nat
      BY PatchAssumption
    <3> QED
      BY <3>1, <3>2
  <2>3. all \in AllOf
    BY <2>1, <2>2 DEF AllOf
  <2>4. \A p \in Partitions : IsThere(all, p) => p = 0
    BY <2>1 DEF IsThere
  <2> QED
    BY <1>2, <2>3, <2>4
<1> QED
  BY <1>1, <1>2

LEMMA LaidOut ==
  ASSUME NEW k, NEW all \in AllSizes(k), NEW ncsd, NEW header, NEW allOld, NEW changes
  PROVE  IsLaid(FileOf(k, all, ncsd, header, allOld, changes), k, all, ncsd, header)
<1> DEFINE file == FileOf(k, all, ncsd, header, allOld, changes)
           place == PlaceOfPartition(k, all)
           n == [p \in Partitions |-> NcchSize(all, p)]
           here(x) == {p \in Partitions : place[p] <= x /\ x < place[p] + NcchSize(all, p)}
           size == IF k = "cci" THEN CardSize ELSE NcchSize(all, 0)
           T == AnalyzeNcsd(k, all)
           bytes == file.Bytes
           end == EndOf(T[LastPartition])
           first == FirstPlace(k)
<1>1. /\ LastPartition \in Nat /\ Partitions = 0 .. LastPartition /\ HeaderSize = 2
      /\ first = (IF k = "cci" THEN 2 ELSE 0) /\ CardSize \in Nat \ {0} /\ 0 \in Partitions
  BY PatchAssumption DEF Partitions, HeaderSize, FirstPlace
<1>2. /\ all \in AllOf /\ (k # "cci" => \A p \in Partitions : IsThere(all, p) => p = 0)
      /\ (k = "cci" => all \in Cards)
  BY SizesType
<1>3. IsTable(T, k, all)
  BY <1>2, TableOfNcsd
<1>4. /\ place \in [Partitions -> Nat]
      /\ place[0] = first
      /\ \A p, q \in Partitions : p < q => place[p] + NcchSize(all, p) <= place[q]
      /\ \A p \in Partitions : first <= place[p]
  BY <1>2, PartitionsInOrder
<1>5. \A p \in Partitions : /\ NcchSize(all, p) \in Nat
                            /\ IsThere(all, p) => HeaderSize <= NcchSize(all, p)
                            /\ ~IsThere(all, p) => NcchSize(all, p) = 0
  BY <1>2, NcchSizes
<1>6. /\ file.Sizes = all /\ file.Table = T /\ file.Parts = [p \in Partitions |-> PartsAt(k, all, p)]
      /\ bytes = [x \in 0 .. (size - 1) |->
           IF here(x) # {}
           THEN LET p == CHOOSE p \in here(x) : TRUE IN
                NcchByte(p, all[p], header[p], allOld, changes, x - place[p])
           ELSE IF x = 0 THEN Magic ELSE IF x = 1 THEN ncsd ELSE Filling]
  BY DEF FileOf
<1>7. size \in Nat
  BY <1>1, <1>5
<1> HIDE DEF file, bytes, T, place
<1>8. DOMAIN bytes = 0 .. (size - 1) /\ Length(bytes) = size
  <2>1. DOMAIN bytes = 0 .. (size - 1)
    BY <1>6
  <2> HIDE DEF size
  <2> QED
    BY <1>7, <2>1, LengthOf
<1>9. IsFile(bytes)
  <2>1. bytes = [x \in DOMAIN bytes |-> bytes[x]]
    BY <1>6
  <2> HIDE DEF size
  <2> QED
    BY <1>7, <1>8, <2>1 DEF IsFile
<1>10. ASSUME NEW p \in Partitions, IsThere(all, p)
       PROVE  /\ T[p].Offset = place[p] /\ T[p].Size = NcchSize(all, p)
              /\ EndOf(T[p]) = place[p] + NcchSize(all, p) /\ EndOf(T[p]) <= size
  <2>1. /\ T[p].Offset = place[p] /\ T[p].Size = NcchSize(all, p)
        /\ EndOf(T[p]) = place[p] + NcchSize(all, p)
    BY <1>3, <1>10 DEF IsTable, EndOf, place
  <2>2. CASE k = "cci"
    <3>1. PlaceOfPartition("cci", all)[LastPartition] + NcchSize(all, LastPartition) <= CardSize
      BY <1>2, <2>2, CardsFit
    <3>2. LastPartition \in Partitions
      BY <1>1
    <3>3. p < LastPartition => place[p] + NcchSize(all, p) <= place[LastPartition]
      BY <1>4, <3>2
    <3>4. place[LastPartition] + NcchSize(all, LastPartition) <= CardSize
      BY <3>1, <2>2 DEF place
    <3>5. /\ place[p] \in Nat /\ place[LastPartition] \in Nat
          /\ NcchSize(all, p) \in Nat /\ NcchSize(all, LastPartition) \in Nat
      BY <3>2, <1>4, <1>5
    <3>6. place[p] + NcchSize(all, p) <= CardSize
      BY <3>3, <3>4, <3>5, <1>1
    <3> QED
      BY <2>1, <2>2, <3>6
  <2>3. CASE k # "cci"
    <3>1. p = 0
      BY <1>2, <1>10, <2>3
    <3> QED
      BY <2>1, <2>3, <3>1, <1>1, <1>4, <1>5
  <2> QED
    BY <2>1, <2>2, <2>3
<1>11. PICK m \in Partitions : IsThere(all, m) /\ end = EndOf(T[m])
  BY <1>3 DEF IsTable
<1>12. end <= size /\ end \in Nat /\ \A p \in Partitions : EndOf(T[p]) <= end
  <2>1. end <= size /\ \A p \in Partitions : EndOf(T[p]) <= end
    BY <1>3, <1>10, <1>11 DEF IsTable
  <2>2. end = place[m] + NcchSize(all, m)
    BY <1>10, <1>11
  <2> QED
    BY <2>1, <2>2, <1>4, <1>5
<1>13. ASSUME NEW p \in Partitions, IsThere(all, p), NEW x \in 0 .. (NcchSize(all, p) - 1)
       PROVE  bytes[place[p] + x] = NcchByte(p, all[p], header[p], allOld, changes, x)
  <2> DEFINE y == place[p] + x
  <2>1. place[p] \in Nat /\ NcchSize(all, p) \in Nat /\ x \in Nat /\ y \in Nat /\ y - place[p] = x
    BY <1>4, <1>5
  <2>2. y \in 0 .. (size - 1)
    BY <2>1, <1>7, <1>10, <1>13
  <2>3. p \in here(y)
    BY <2>1, <1>13
  <2>4. ASSUME NEW q \in here(y)
        PROVE  q = p
    <3>1. q \in Partitions /\ place[q] <= y /\ y < place[q] + NcchSize(all, q)
      OBVIOUS
    <3>2. /\ q < p => place[q] + NcchSize(all, q) <= place[p]
          /\ p < q => place[p] + NcchSize(all, p) <= place[q]
      BY <3>1, <1>4
    <3>3. place[q] \in Nat /\ NcchSize(all, q) \in Nat /\ q \in Nat /\ p \in Nat
      BY <3>1, <1>1, <1>4, <1>5
    <3> QED
      BY <3>1, <3>2, <3>3, <2>1, <1>13
  <2> HIDE DEF y
  <2>5. (CHOOSE q \in here(y) : TRUE) = p
    BY <2>3, <2>4
  <2>6. bytes[y] = NcchByte(p, all[p], header[p], allOld, changes, y - place[p])
    BY <2>2, <2>3, <2>5, <1>6
  <2> QED
    BY <2>1, <2>6 DEF y
<1>14. ASSUME NEW x \in 0 .. (size - 1), k = "cci", x < first \/ end <= x
       PROVE  bytes[x] = IF x = 0 THEN Magic ELSE IF x = 1 THEN ncsd ELSE Filling
  <2>1. ASSUME NEW p \in here(x)
        PROVE  FALSE
    <3>1. p \in Partitions /\ place[p] <= x /\ x < place[p] + NcchSize(all, p)
      OBVIOUS
    <3>2. place[p] \in Nat /\ NcchSize(all, p) \in Nat /\ first <= place[p] /\ first \in Nat
      BY <3>1, <1>1, <1>4, <1>5
    <3>3. IsThere(all, p)
      BY <3>1, <3>2, <1>5
    <3>4. place[p] + NcchSize(all, p) <= end
      BY <3>1, <3>3, <1>10, <1>12
    <3> QED
      BY <3>1, <3>2, <3>4, <1>12, <1>14
  <2>2. here(x) = {}
    BY <2>1
  <2> HIDE DEF here
  <2> QED
    BY <2>2, <1>6
<1>15. ASSUME NEW p \in Partitions, IsThere(all, p)
       PROVE  /\ IsPartTable(file.Parts[p], KindOf(k, p), all[p])
              /\ bytes[T[p].Offset] = Magic /\ bytes[T[p].Offset + 1] = header[p]
  <2>1. 0 \in 0 .. (NcchSize(all, p) - 1) /\ 1 \in 0 .. (NcchSize(all, p) - 1)
    BY <1>1, <1>5, <1>15
  <2>2. /\ bytes[place[p] + 0] = NcchByte(p, all[p], header[p], allOld, changes, 0)
        /\ bytes[place[p] + 1] = NcchByte(p, all[p], header[p], allOld, changes, 1)
    BY <2>1, <1>13, <1>15
  <2>3. place[p] + 0 = place[p] /\ T[p].Offset = place[p]
    BY <1>4, <1>10, <1>15
  <2>4. /\ NcchByte(p, all[p], header[p], allOld, changes, 0) = Magic
        /\ NcchByte(p, all[p], header[p], allOld, changes, 1) = header[p]
    BY DEF NcchByte
  <2>5. file.Parts[p] = PartsAt(k, all, p)
    BY <1>6
  <2>6. IsPartTable(PartsAt(k, all, p), KindOf(k, p), all[p])
    BY <1>2, <1>15, TableOfParts
  <2> QED
    BY <2>2, <2>3, <2>4, <2>5, <2>6
<1>16. \A p \in Partitions : file.Parts[p] \in [Parts -> Entry]
  <2> SUFFICES ASSUME NEW p \in Partitions PROVE file.Parts[p] \in [Parts -> Entry]
    OBVIOUS
  <2>1. file.Parts[p] = PartsAt(k, all, p)
    BY <1>6
  <2> QED
    BY <2>1, <1>2, TableOfParts
<1>17. ASSUME k = "cci"
       PROVE  /\ Length(bytes) = CardSize /\ bytes[0] = Magic /\ bytes[1] = ncsd
              /\ \A x \in end .. (CardSize - 1) : bytes[x] = Filling
  <2>1. size = CardSize /\ first = 2
    BY <1>1, <1>17
  <2>2. 2 <= end
    <3>1. HeaderSize <= NcchSize(all, m) /\ end = place[m] + NcchSize(all, m)
      BY <1>5, <1>10, <1>11
    <3> QED
      BY <3>1, <1>1, <1>4, <1>5
  <2>3. 0 \in 0 .. (size - 1) /\ 1 \in 0 .. (size - 1)
    BY <2>2, <1>7, <1>12
  <2>4. bytes[0] = Magic /\ bytes[1] = ncsd
    BY <1>14, <1>17, <2>1, <2>3
  <2>5. ASSUME NEW x \in end .. (CardSize - 1)
        PROVE  bytes[x] = Filling
    <3>1. x \in 0 .. (size - 1) /\ end <= x /\ x # 0 /\ x # 1
      BY <2>1, <2>2, <1>1, <1>12
    <3> QED
      BY <3>1, <1>14, <1>17
  <2> QED
    BY <2>1, <2>4, <2>5, <1>8
<1>18. ASSUME k # "cci"
       PROVE  /\ Length(bytes) = T[0].Size
              /\ \A x \in HeaderSize .. (T[0].Size - 1) :
                   \/ \E i \in Parts : /\ PlaceOfPart(all[0])[i] <= x
                                       /\ x < PlaceOfPart(all[0])[i] + all[0][i]
                   \/ bytes[x] = Filler
  <2>1. IsThere(all, 0) /\ T[0].Size = NcchSize(all, 0) /\ size = NcchSize(all, 0) /\ place[0] = 0
    BY <1>1, <1>4, <1>10, <1>18 DEF IsThere
  <2>2. ASSUME NEW x \in HeaderSize .. (T[0].Size - 1),
               \A i \in Parts : ~(/\ PlaceOfPart(all[0])[i] <= x
                                  /\ x < PlaceOfPart(all[0])[i] + all[0][i])
        PROVE  bytes[x] = Filler
    <3>1. x \in 0 .. (NcchSize(all, 0) - 1) /\ place[0] + x = x /\ x # 0 /\ x # 1
      BY <2>1, <1>1, <1>5
    <3>2. bytes[place[0] + x] = NcchByte(0, all[0], header[0], allOld, changes, x)
      BY <3>1, <2>1, <1>1, <1>13
    <3>3. {i \in Parts : PlaceOfPart(all[0])[i] <= x /\ x < PlaceOfPart(all[0])[i] + all[0][i]} = {}
      BY <2>2
    <3>4. NcchByte(0, all[0], header[0], allOld, changes, x) = Filler
      BY <3>1, <3>3 DEF NcchByte
    <3> QED
      BY <3>1, <3>2, <3>4
  <2> QED
    BY <2>1, <2>2, <1>8
<1>19. IsLaid(file, k, all, ncsd, header)
  <2> HIDE DEF end, size
  <2>1. end <= Length(bytes)
    BY <1>8, <1>12
  <2> QED
    BY <2>1, <1>2, <1>3, <1>6, <1>9, <1>15, <1>16, <1>17, <1>18 DEF IsLaid, bytes, end
<1> QED
  BY <1>19 DEF file

-----------------------------------------------------------------------------
(* The writes                                                              *)

Common(so, sn) == IF so < sn THEN so ELSE sn

Differs(from, so, to, sn, k) == k >= Common(so, sn) \/ old.Bytes[from + k] # new.Bytes[to + k]

\* The functions that Writes is made of: what is buffered, the length of what is
\* written after each byte, and where, the end of what was written last, the commands.
IsBuffered(from, so, to, sn, buffered) ==
  \A k \in 0 .. sn :
    buffered[k] = IF k \in {0, Common(so, sn), sn} \/ ~Differs(from, so, to, sn, k - 1) THEN 0
                  ELSE (buffered[k - 1] + 1) % WriteBuffer

PieceLength(from, so, to, sn, buffered, k) ==
  IF ~Differs(from, so, to, sn, k - 1) THEN buffered[k - 1]
  ELSE IF buffered[k] = 0 THEN buffered[k - 1] + 1 ELSE 0

PieceEnd(from, so, to, sn, k) == to + (IF Differs(from, so, to, sn, k - 1) THEN k ELSE k - 1)

IsBase(sn, length, end, base) ==
  \A k \in 0 .. sn :
    base[k] = IF k = 0 THEN 0 ELSE IF length[k] # 0 THEN end[k] ELSE base[k - 1]

Piece(length, end, base, k) ==
  LET at == end[k] - length[k]
      first == base[k - 1] = 0
  IN SeekWrite(first, SeekOffset(at, base[k - 1], first),
               [m \in 1 .. length[k] |-> new.Bytes[at + m - 1]])

IsUpTo(sn, length, end, base, upTo) ==
  \A k \in 0 .. sn :
    upTo[k] = IF k = 0 THEN <<>>
              ELSE upTo[k - 1] \o (IF length[k] # 0 THEN <<Piece(length, end, base, k)>> ELSE <<>>)

AreWrites(from, so, to, sn, buffered, length, end, base, upTo) ==
  /\ buffered \in [0 .. sn -> Nat] /\ IsBuffered(from, so, to, sn, buffered)
  /\ length \in [1 .. sn -> Nat]
  /\ \A k \in 1 .. sn : length[k] = PieceLength(from, so, to, sn, buffered, k)
  /\ end \in [1 .. sn -> Nat]
  /\ \A k \in 1 .. sn : end[k] = PieceEnd(from, so, to, sn, k)
  /\ base \in [0 .. sn -> Nat] /\ IsBase(sn, length, end, base)
  /\ IsUpTo(sn, length, end, base, upTo)
  /\ Writes(from, so, to, sn) = upTo[sn]

LEMMA WritesMade ==
  ASSUME NEW from \in Nat, NEW so \in Nat, NEW to \in Nat, NEW sn \in Nat
  PROVE  \E buffered, length, end, base, upTo :
           AreWrites(from, so, to, sn, buffered, length, end, base, upTo)
<1> DEFINE common == IF so < sn THEN so ELSE sn
           differs(k) == k >= common \/ old.Bytes[from + k] # new.Bytes[to + k]
           B(g) == g = [k \in 0 .. sn |->
                          IF k \in {0, common, sn} \/ ~differs(k - 1) THEN 0
                          ELSE (g[k - 1] + 1) % WriteBuffer]
           buffered == CHOOSE g : B(g)
           length(k) == IF ~differs(k - 1) THEN buffered[k - 1]
                        ELSE IF buffered[k] = 0 THEN buffered[k - 1] + 1 ELSE 0
           end(k) == to + (IF differs(k - 1) THEN k ELSE k - 1)
           N(g) == g = [k \in 0 .. sn |->
                          IF k = 0 THEN 0 ELSE IF length(k) # 0 THEN end(k) ELSE g[k - 1]]
           base == CHOOSE g : N(g)
           write(k) ==
             LET at == end(k) - length(k)
                 first == base[k - 1] = 0
             IN SeekWrite(first, SeekOffset(at, base[k - 1], first),
                          [m \in 1 .. length(k) |-> new.Bytes[at + m - 1]])
           U(g) == g = [k \in 0 .. sn |->
                          IF k = 0 THEN <<>>
                          ELSE g[k - 1] \o (IF length(k) # 0 THEN <<write(k)>> ELSE <<>>)]
           upTo == CHOOSE g : U(g)
<1>1. Writes(from, so, to, sn) = upTo[sn]
  BY DEF Writes
<1>2. WriteBuffer \in Nat \ {0}
  BY PatchAssumption
<1>3. common = Common(so, sn) /\ \A k : differs(k) = Differs(from, so, to, sn, k)
  BY DEF Common, Differs
<1> HIDE DEF differs, common, buffered, base, upTo
<1>4. B(buffered) /\ buffered \in [0 .. sn -> Nat]
  <2> DEFINE V == 0 .. (WriteBuffer - 1)
             h == [c \in (1 .. sn) \X V |->
                     IF c[1] \in {0, common, sn} \/ ~differs(c[1] - 1) THEN 0
                     ELSE (c[2] + 1) % WriteBuffer]
  <2>1. 0 \in V /\ \A b \in V : b \in Nat /\ (b + 1) % WriteBuffer \in V
    BY <1>2
  <2>2. h \in [(1 .. sn) \X V -> V]
    BY <2>1
  <2>3. \A k \in 1 .. sn : \A b \in V :
          h[<<k, b>>] = IF k \in {0, common, sn} \/ ~differs(k - 1) THEN 0 ELSE (b + 1) % WriteBuffer
    OBVIOUS
  <2> HIDE DEF h, V
  <2>4. PICK f \in [0 .. sn -> V] : Recurs(f, sn, 0, h)
    BY <2>1, <2>2, Recursion
  <2>5. ASSUME NEW k \in 0 .. sn
        PROVE  f[k] = IF k \in {0, common, sn} \/ ~differs(k - 1) THEN 0
                      ELSE (f[k - 1] + 1) % WriteBuffer
    <3>1. f[k] = IF k = 0 THEN 0 ELSE h[<<k, f[k - 1]>>]
      BY <2>4 DEF Recurs
    <3>2. k # 0 => k \in 1 .. sn /\ k - 1 \in 0 .. sn
      OBVIOUS
    <3>3. k # 0 => f[k - 1] \in V
      BY <3>2
    <3> QED
      BY <3>1, <3>2, <3>3, <2>3
  <2>6. B(f)
    BY <2>5
  <2>7. B(buffered)
    BY <2>6 DEF buffered
  <2>8. \A k \in 0 .. sn : buffered[k] = IF k \in {0, common, sn} \/ ~differs(k - 1) THEN 0
                                           ELSE (buffered[k - 1] + 1) % WriteBuffer
    BY <2>7
  <2>9. buffered = [k \in 0 .. sn |-> buffered[k]]
    BY <2>7
  <2> DEFINE S == {k \in 0 .. sn : buffered[k] \in Nat}
  <2> HIDE DEF B
  <2>10. 0 \in S
    BY <2>8
  <2>11. ASSUME NEW k \in 0 .. (sn - 1), k \in S
         PROVE  k + 1 \in S
    <3>1. k + 1 \in 0 .. sn /\ (k + 1) - 1 = k /\ buffered[k] \in Nat
      BY <2>11
    <3>2. buffered[k + 1] \in {0, (buffered[k] + 1) % WriteBuffer}
      BY <3>1, <2>8
    <3> QED
      BY <3>1, <3>2, <1>2
  <2> HIDE DEF S
  <2>12. \A k \in 0 .. sn : k \in S
    BY <2>10, <2>11, UpTo
  <2> QED
    BY <2>7, <2>9, <2>12 DEF S
<1>5. IsBuffered(from, so, to, sn, buffered)
  BY <1>3, <1>4 DEF IsBuffered
<1> DEFINE len == [k \in 1 .. sn |-> length(k)]
           ends == [k \in 1 .. sn |-> end(k)]
<1>6. /\ len \in [1 .. sn -> Nat]
      /\ \A k \in 1 .. sn : len[k] = PieceLength(from, so, to, sn, buffered, k)
  <2> SUFFICES ASSUME NEW k \in 1 .. sn
               PROVE  length(k) \in Nat /\ length(k) = PieceLength(from, so, to, sn, buffered, k)
    OBVIOUS
  <2>1. k - 1 \in 0 .. sn /\ buffered[k - 1] \in Nat
    BY <1>4
  <2> QED
    BY <2>1, <1>3 DEF PieceLength
<1>7. /\ ends \in [1 .. sn -> Nat]
      /\ \A k \in 1 .. sn : ends[k] = PieceEnd(from, so, to, sn, k)
  BY <1>3 DEF PieceEnd
<1>8. \A k \in 1 .. sn : len[k] = length(k) /\ ends[k] = end(k)
  OBVIOUS
<1> HIDE DEF length, end, len, ends
<1>9. N(base) /\ base \in [0 .. sn -> Nat]
  <2> DEFINE h == [c \in (1 .. sn) \X Nat |-> IF length(c[1]) # 0 THEN end(c[1]) ELSE c[2]]
  <2>1. h \in [(1 .. sn) \X Nat -> Nat]
    BY <1>7, <1>8
  <2>2. \A k \in 1 .. sn : \A b \in Nat : h[<<k, b>>] = IF length(k) # 0 THEN end(k) ELSE b
    OBVIOUS
  <2> HIDE DEF h
  <2>3. 0 \in Nat
    OBVIOUS
  <2>4. PICK f \in [0 .. sn -> Nat] : Recurs(f, sn, 0, h)
    BY <2>1, <2>3, Recursion
  <2>5. ASSUME NEW k \in 0 .. sn
        PROVE  f[k] = IF k = 0 THEN 0 ELSE IF length(k) # 0 THEN end(k) ELSE f[k - 1]
    <3>1. f[k] = IF k = 0 THEN 0 ELSE h[<<k, f[k - 1]>>]
      BY <2>4 DEF Recurs
    <3>2. k # 0 => k \in 1 .. sn /\ k - 1 \in 0 .. sn
      OBVIOUS
    <3>3. k # 0 => f[k - 1] \in Nat
      BY <3>2
    <3> QED
      BY <3>1, <3>2, <3>3, <2>2
  <2>6. N(f)
    BY <2>5
  <2>7. N(base)
    BY <2>6 DEF base
  <2>8. \A k \in 0 .. sn : base[k] = IF k = 0 THEN 0 ELSE IF length(k) # 0 THEN end(k) ELSE base[k - 1]
    BY <2>7
  <2>9. base = [k \in 0 .. sn |-> base[k]]
    BY <2>7
  <2> DEFINE S == {k \in 0 .. sn : base[k] \in Nat}
  <2> HIDE DEF N
  <2>10. 0 \in S
    BY <2>8
  <2>11. ASSUME NEW k \in 0 .. (sn - 1), k \in S
         PROVE  k + 1 \in S
    <3>1. k + 1 \in 0 .. sn /\ (k + 1) - 1 = k /\ base[k] \in Nat /\ k + 1 \in 1 .. sn
      BY <2>11
    <3>2. base[k + 1] \in {end(k + 1), base[k]} /\ end(k + 1) \in Nat
      BY <3>1, <2>8, <1>7, <1>8
    <3> QED
      BY <3>1, <3>2
  <2> HIDE DEF S
  <2>12. \A k \in 0 .. sn : k \in S
    BY <2>10, <2>11, UpTo
  <2> QED
    BY <2>7, <2>9, <2>12 DEF S
<1>10. IsBase(sn, len, ends, base)
  <2>1. \A k \in 0 .. sn : base[k] = IF k = 0 THEN 0 ELSE IF length(k) # 0 THEN end(k) ELSE base[k - 1]
    BY <1>9
  <2> QED
    BY <2>1, <1>8 DEF IsBase
<1>11. \A k \in 1 .. sn : write(k) = Piece(len, ends, base, k)
  BY <1>8 DEF Piece
<1> HIDE DEF write
<1>12. IsUpTo(sn, len, ends, base, upTo)
  <2> DEFINE V == Seq({write(k) : k \in 1 .. sn})
             h == [c \in (1 .. sn) \X V |->
                     c[2] \o (IF length(c[1]) # 0 THEN <<write(c[1])>> ELSE <<>>)]
  <2>1. ASSUME NEW k \in 1 .. sn, NEW s \in V
        PROVE  s \o (IF length(k) # 0 THEN <<write(k)>> ELSE <<>>) \in V
    <3> DEFINE W == {write(j) : j \in 1 .. sn}
               last == IF length(k) # 0 THEN <<write(k)>> ELSE <<>>
    <3>1. write(k) \in W
      OBVIOUS
    <3> HIDE DEF W
    <3>2. last \in Seq(W)
      BY <3>1
    <3> HIDE DEF last
    <3>3. s \in Seq(W)
      BY DEF W
    <3>4. s \o last \in Seq(W)
      BY <3>2, <3>3, ConcatProperties
    <3> QED
      BY <3>4 DEF last, W
  <2>2. h \in [(1 .. sn) \X V -> V] /\ <<>> \in V
    BY <2>1
  <2>3. \A k \in 1 .. sn : \A s \in V :
          h[<<k, s>>] = s \o (IF length(k) # 0 THEN <<write(k)>> ELSE <<>>)
    OBVIOUS
  <2> HIDE DEF h, V
  <2>4. PICK f \in [0 .. sn -> V] : Recurs(f, sn, <<>>, h)
    BY <2>2, Recursion
  <2>5. ASSUME NEW k \in 0 .. sn
        PROVE  f[k] = IF k = 0 THEN <<>>
                      ELSE f[k - 1] \o (IF length(k) # 0 THEN <<write(k)>> ELSE <<>>)
    <3>1. f[k] = IF k = 0 THEN <<>> ELSE h[<<k, f[k - 1]>>]
      BY <2>4 DEF Recurs
    <3>2. k # 0 => k \in 1 .. sn /\ k - 1 \in 0 .. sn
      OBVIOUS
    <3>3. k # 0 => f[k - 1] \in V
      BY <3>2
    <3> QED
      BY <3>1, <3>2, <3>3, <2>3
  <2>6. U(f)
    BY <2>5
  <2>7. U(upTo)
    BY <2>6 DEF upTo
  <2>8. \A k \in 0 .. sn : upTo[k] = IF k = 0 THEN <<>>
                      ELSE upTo[k - 1] \o (IF length(k) # 0 THEN <<write(k)>> ELSE <<>>)
    BY <2>7
  <2> HIDE DEF U
  <2>9. ASSUME NEW k \in 0 .. sn
        PROVE  upTo[k] = IF k = 0 THEN <<>>
              ELSE upTo[k - 1] \o (IF len[k] # 0 THEN <<Piece(len, ends, base, k)>> ELSE <<>>)
    <3>1. k # 0 => k \in 1 .. sn
      OBVIOUS
    <3>2. k # 0 => len[k] = length(k) /\ write(k) = Piece(len, ends, base, k)
      BY <3>1, <1>8, <1>11
    <3> QED
      BY <3>2, <2>8
  <2> QED
    BY <2>9 DEF IsUpTo
<1>13. AreWrites(from, so, to, sn, buffered, len, ends, base, upTo)
  BY <1>1, <1>4, <1>5, <1>6, <1>7, <1>9, <1>10, <1>12 DEF AreWrites
<1> QED
  BY <1>13

\* The file f has the old bytes where the new ones belong, and anything may be there.
WriteStart(from, so, to, sn, f) ==
  /\ IsFile(f) /\ Safe(f, to, to + sn)
  /\ \A j \in 0 .. (Common(so, sn) - 1) : to + j \in DOMAIN f /\ f[to + j] = old.Bytes[from + j]

\* The file g is f with the first lo bytes written.
WrittenUpTo(from, so, to, sn, f, g, lo) ==
  /\ IsFile(g) /\ Same(f, g, to, to + sn)
  /\ \A j \in 0 .. (lo - 1) : to + j \in DOMAIN g /\ g[to + j] = new.Bytes[to + j]
  /\ \A j \in lo .. (Common(so, sn) - 1) : to + j \in DOMAIN g /\ g[to + j] = old.Bytes[from + j]

LEMMA PieceWritten ==
  ASSUME NEW from \in Nat, NEW so \in Nat, NEW to \in Nat, NEW sn \in Nat, NEW f, NEW g,
         NEW lo \in Nat, NEW len \in Nat, lo + len <= sn, IsFile(f),
         WrittenUpTo(from, so, to, sn, f, g, lo)
  PROVE  WrittenUpTo(from, so, to, sn, f, Written(g, to + lo, Chunk(new.Bytes, to + lo, len)), lo + len)
<1> DEFINE at == to + lo
           h == Written(g, at, Chunk(new.Bytes, at, len))
           n == Length(g)
           common == Common(so, sn)
           hi == lo + len
<1>1. /\ IsFile(g) /\ Same(f, g, to, to + sn)
      /\ \A j \in 0 .. (lo - 1) : to + j \in DOMAIN g /\ g[to + j] = new.Bytes[to + j]
      /\ \A j \in lo .. (common - 1) : to + j \in DOMAIN g /\ g[to + j] = old.Bytes[from + j]
  BY DEF WrittenUpTo
<1>2. at \in Nat /\ common \in Nat /\ common <= sn /\ hi \in Nat
  BY DEF Common
<1> HIDE DEF common
<1>3. n \in Nat /\ DOMAIN g = 0 .. (n - 1)
  BY <1>1, FileProperties
<1> HIDE DEF n
<1>4. /\ IsFile(h) /\ Length(h) = IF at + len > n THEN at + len ELSE n
      /\ \A x \in at .. (at + len - 1) : h[x] = new.Bytes[at + x - at]
      /\ \A x \in 0 .. (n - 1) : x < at \/ at + len <= x => h[x] = g[x]
  <2> HIDE DEF at
  <2>1. IsCopy(h, g, new.Bytes, at, at, len)
    BY <1>1, <1>2, CopiedFile
  <2> QED
    BY <2>1 DEF IsCopy, n
<1>5. DOMAIN h = 0 .. (Length(h) - 1) /\ Length(h) \in Nat
  BY <1>4, FileProperties
<1> HIDE DEF h
<1>6. Same(g, h, to, to + sn)
  <2>1. IsSeq(Chunk(new.Bytes, at, len)) /\ Len(Chunk(new.Bytes, at, len)) = len
    BY <1>2, ChunkSeq
  <2> HIDE DEF at
  <2>2. Same(g, h, at, at + len)
    BY <2>1, <1>1, <1>2, WrittenSame DEF h
  <2>3. to <= at /\ at + len <= to + sn /\ at + len \in Nat /\ to + sn \in Nat
    BY <1>2 DEF at
  <2> QED
    BY <2>2, <2>3, <1>1, <1>2, <1>4, SameWider
<1>7. Same(f, h, to, to + sn)
  BY <1>1, <1>4, <1>6, SameTwice, <1>2
<1>8. ASSUME NEW j \in 0 .. (hi - 1)
      PROVE  to + j \in DOMAIN h /\ h[to + j] = new.Bytes[to + j]
  <2>1. to + j \in 0 .. (Length(h) - 1)
    BY <1>4, <1>5, <1>3
  <2>2. CASE j < lo
    <3>1. j \in 0 .. (lo - 1) /\ to + j < at /\ to + j \in Nat
      BY <2>2
    <3>2. to + j \in DOMAIN g /\ g[to + j] = new.Bytes[to + j]
      BY <3>1, <1>1
    <3>3. h[to + j] = g[to + j]
      BY <3>1, <3>2, <1>3, <1>4
    <3> QED
      BY <2>1, <1>5, <3>2, <3>3
  <2>3. CASE lo <= j
    <3> DEFINE x == to + j
    <3>1. x \in at .. (at + len - 1) /\ at + x - at = x
      BY <2>3
    <3> HIDE DEF x, at
    <3>2. h[x] = new.Bytes[at + x - at]
      BY <3>1, <1>4
    <3> QED
      BY <2>1, <1>5, <3>1, <3>2 DEF x
  <2> QED
    BY <2>2, <2>3
<1>9. ASSUME NEW j \in hi .. (common - 1)
      PROVE  to + j \in DOMAIN h /\ h[to + j] = old.Bytes[from + j]
  <2>1. j \in lo .. (common - 1) /\ to + j \in Nat /\ at + len <= to + j
    BY <1>2
  <2>2. to + j \in DOMAIN g /\ g[to + j] = old.Bytes[from + j]
    BY <2>1, <1>1
  <2>3. h[to + j] = g[to + j] /\ to + j \in 0 .. (Length(h) - 1)
    BY <2>1, <2>2, <1>3, <1>4, <1>5
  <2> QED
    BY <2>2, <2>3, <1>5
<1> QED
  BY <1>4, <1>7, <1>8, <1>9 DEF WrittenUpTo, h, at, common, hi

\* A byte that does not differ needs no writing.
LEMMA ByteSkipped ==
  ASSUME NEW from \in Nat, NEW so \in Nat, NEW to \in Nat, NEW sn \in Nat, NEW f, NEW g,
         NEW k \in Nat, ~Differs(from, so, to, sn, k), WrittenUpTo(from, so, to, sn, f, g, k)
  PROVE  WrittenUpTo(from, so, to, sn, f, g, k + 1)
<1>1. k < Common(so, sn) /\ old.Bytes[from + k] = new.Bytes[to + k] /\ Common(so, sn) \in Nat
  BY DEF Differs, Common
<1>2. ASSUME NEW j \in 0 .. ((k + 1) - 1)
      PROVE  to + j \in DOMAIN g /\ g[to + j] = new.Bytes[to + j]
  <2>1. j \in 0 .. (k - 1) \/ j = k
    OBVIOUS
  <2>2. k \in k .. (Common(so, sn) - 1)
    BY <1>1
  <2> QED
    BY <1>1, <2>1, <2>2 DEF WrittenUpTo
<1>3. ASSUME NEW j \in (k + 1) .. (Common(so, sn) - 1)
      PROVE  to + j \in DOMAIN g /\ g[to + j] = old.Bytes[from + j]
  <2>1. j \in k .. (Common(so, sn) - 1)
    BY <1>1
  <2> QED
    BY <2>1 DEF WrittenUpTo
<1> QED
  BY <1>2, <1>3 DEF WrittenUpTo

\* The commands u write the first lo bytes, the last one up to base.
Writing(from, so, to, sn, u, P, base, lo) ==
  /\ Placed(u, P)
  /\ base # 0 => /\ Len(u) # 0 /\ u[Len(u)].Command = "SeekWrite"
                 /\ P[Len(u)] + Len(u[Len(u)].Data) = base
  /\ \A m \in 1 .. Len(u) : u[m].Command = "SeekWrite"
  /\ \A f : WriteStart(from, so, to, sn, f) =>
       \E g : Leads(u, P, f, g) /\ WrittenUpTo(from, so, to, sn, f, g, lo)

LEMMA WritingStarts ==
  ASSUME NEW from \in Nat, NEW so \in Nat, NEW to \in Nat, NEW sn \in Nat
  PROVE  Writing(from, so, to, sn, <<>>, <<>>, 0, 0)
<1>1. ASSUME NEW f, WriteStart(from, so, to, sn, f)
      PROVE  Leads(<<>>, <<>>, f, f) /\ WrittenUpTo(from, so, to, sn, f, f, 0)
  <2>1. IsFile(f) /\ Safe(f, to, to + sn) /\ to + sn \in Nat
    BY <1>1 DEF WriteStart
  <2>2. Same(f, f, to, to + sn)
    BY <2>1, SameAsItself
  <2>3. Good(f)
    BY <2>1, <2>2 DEF Safe
  <2>4. Leads(<<>>, <<>>, f, f)
    BY <2>1, <2>3, LeadsNothing
  <2> QED
    BY <1>1, <2>1, <2>2, <2>4 DEF WriteStart, WrittenUpTo
<1> QED
  BY <1>1, PlacedNothing, NoSeq DEF Writing

LEMMA WritingSkips ==
  ASSUME NEW from \in Nat, NEW so \in Nat, NEW to \in Nat, NEW sn \in Nat,
         NEW u, NEW P, NEW base, NEW k \in Nat, ~Differs(from, so, to, sn, k),
         Writing(from, so, to, sn, u, P, base, k)
  PROVE  Writing(from, so, to, sn, u, P, base, k + 1)
<1>1. ASSUME NEW f, WriteStart(from, so, to, sn, f)
      PROVE  \E g : Leads(u, P, f, g) /\ WrittenUpTo(from, so, to, sn, f, g, k + 1)
  <2>1. PICK g : Leads(u, P, f, g) /\ WrittenUpTo(from, so, to, sn, f, g, k)
    BY <1>1 DEF Writing
  <2> QED
    BY <2>1, ByteSkipped
<1> QED
  BY <1>1 DEF Writing

LEMMA WritingGoesOn ==
  ASSUME NEW from \in Nat, NEW so \in Nat, NEW to \in Nat, NEW sn \in Nat,
         NEW u, NEW P, NEW base \in Nat, NEW lo \in Nat, NEW len \in Nat \ {0}, lo + len <= sn,
         Writing(from, so, to, sn, u, P, base, lo)
  PROVE  LET at == to + lo
             c == SeekWrite(base = 0, SeekOffset(at, base, base = 0), Chunk(new.Bytes, at, len))
         IN Writing(from, so, to, sn, u \o <<c>>, P \o <<at>>, at + len, lo + len)
<1> DEFINE at == to + lo
           data == Chunk(new.Bytes, at, len)
           c == SeekWrite(base = 0, SeekOffset(at, base, base = 0), data)
           v == u \o <<c>>
           Q == P \o <<at>>
<1> SUFFICES Writing(from, so, to, sn, v, Q, at + len, lo + len)
  OBVIOUS
<1>1. at \in Nat /\ IsSeq(data) /\ Len(data) = len
  <2>1. at \in Nat
    OBVIOUS
  <2> HIDE DEF at
  <2> QED
    BY <2>1, ChunkSeq
<1>2. Placed(u, P) /\ IsSeq(u) /\ IsSeq(P) /\ Len(P) = Len(u) /\ Len(u) \in Nat
  BY SeqProperties DEF Writing, Placed, Paired
<1>3. /\ c.Command = "SeekWrite" /\ c.Data = data /\ c.SeekSet = (base = 0) /\ c.SeekSet \in BOOLEAN
      /\ c.Offset = (IF base = 0 THEN at ELSE at - base) /\ c.Offset \in Int
  BY <1>1 DEF SeekWrite, SeekOffset
<1>4. IsCommand(c)
  BY <1>1, <1>3 DEF IsCommand
<1> HIDE DEF c
<1>5. c.Command = "SeekWrite" =>
        IF c.SeekSet THEN at = c.Offset
        ELSE /\ Len(u) # 0 /\ u[Len(u)].Command = "SeekWrite"
             /\ at = P[Len(u)] + Len(u[Len(u)].Data) + c.Offset
  <2>1. CASE base = 0
    BY <2>1, <1>3
  <2>2. CASE base # 0
    <3>1. /\ Len(u) # 0 /\ u[Len(u)].Command = "SeekWrite"
          /\ P[Len(u)] + Len(u[Len(u)].Data) = base
      BY <2>2 DEF Writing
    <3>2. base + c.Offset = at
      BY <2>2, <1>1, <1>3
    <3> QED
      BY <3>1, <3>2, <2>2, <1>3
  <2> QED
    BY <2>1, <2>2
<1> HIDE DEF at, data
<1>6. Placed(v, Q)
  BY <1>1, <1>2, <1>4, <1>5, PlacedAppend
<1>7. IsSeq(<<c>>) /\ Len(<<c>>) = 1 /\ <<c>>[1] = c /\ IsSeq(<<at>>) /\ Len(<<at>>) = 1 /\ <<at>>[1] = at
  BY OneSeq
<1>8. /\ Len(v) = Len(u) + 1 /\ v[Len(u) + 1] = c
      /\ \A m \in 1 .. Len(u) : v[m] = u[m]
      /\ Len(Q) = Len(P) + 1 /\ Q[Len(P) + 1] = at
  <2>1. /\ Len(v) = Len(u) + 1 /\ \A m \in 1 .. Len(u) : v[m] = u[m]
        /\ \A m \in 1 .. 1 : v[Len(u) + m] = <<c>>[m]
    BY <1>2, <1>7, ConcatSeq
  <2>2. /\ Len(Q) = Len(P) + 1
        /\ \A m \in 1 .. 1 : Q[Len(P) + m] = <<at>>[m]
    BY <1>2, <1>7, ConcatSeq
  <2> QED
    BY <2>1, <2>2, <1>7
<1> HIDE DEF v, Q
<1>9. /\ Len(v) # 0 /\ v[Len(v)].Command = "SeekWrite" /\ Q[Len(v)] + Len(v[Len(v)].Data) = at + len
  <2>1. Len(v) # 0 /\ v[Len(v)] = c /\ Q[Len(v)] = at
    BY <1>2, <1>8
  <2> QED
    BY <2>1, <1>1, <1>3
<1>10. \A m \in 1 .. Len(v) : v[m].Command = "SeekWrite"
  <2> TAKE m \in 1 .. Len(v)
  <2>1. m \in 1 .. Len(u) \/ m = Len(u) + 1
    BY <1>2, <1>8
  <2> QED
    BY <2>1, <1>3, <1>8 DEF Writing
<1>11. ASSUME NEW f, WriteStart(from, so, to, sn, f)
       PROVE  \E g : Leads(v, Q, f, g) /\ WrittenUpTo(from, so, to, sn, f, g, lo + len)
  <2>1. PICK g : Leads(u, P, f, g) /\ WrittenUpTo(from, so, to, sn, f, g, lo)
    BY <1>11 DEF Writing
  <2> DEFINE h == Written(g, at, data)
  <2>2. IsFile(f) /\ Safe(f, to, to + sn)
    BY <1>11 DEF WriteStart
  <2>3. WrittenUpTo(from, so, to, sn, f, h, lo + len)
    BY <2>1, <2>2, PieceWritten DEF at, data
  <2>4. IsFile(g) /\ Good(g) /\ IsFile(h) /\ Good(h)
    BY <2>1, <2>2, <2>3 DEF Safe, WrittenUpTo
  <2>5. Step(c, at, g) = h
    BY <1>3 DEF Step
  <2>6. Fine(c, g)
    BY <1>3, <2>4 DEF Fine
  <2> HIDE DEF h
  <2>7. Leads(<<c>>, <<at>>, g, h)
    BY <2>4, <2>5, <2>6, LeadsOne
  <2>8. Paired(u, P) /\ Paired(<<c>>, <<at>>)
    BY <1>2, <1>7 DEF Paired
  <2>9. Leads(v, Q, f, h)
    BY <2>1, <2>7, <2>8, LeadsConcat DEF v, Q
  <2> QED
    BY <2>3, <2>9
<1> QED
  BY <1>6, <1>9, <1>10, <1>11 DEF Writing

LEMMA WritesLead ==
  ASSUME NEW from \in Nat, NEW so \in Nat, NEW to \in Nat, NEW sn \in Nat
  PROVE  \E P, base : Writing(from, so, to, sn, Writes(from, so, to, sn), P, base, sn)
<1>1. PICK b, length, end, base, u : AreWrites(from, so, to, sn, b, length, end, base, u)
  BY WritesMade
<1> DEFINE S == {k \in 0 .. sn : /\ b[k] \in 0 .. (WriteBuffer - 1) /\ b[k] <= k
                                 /\ \E P : Writing(from, so, to, sn, u[k], P, base[k], k - b[k])}
           D(k) == Differs(from, so, to, sn, k)
           common == Common(so, sn)
<1>2. /\ b \in [0 .. sn -> Nat] /\ length \in [1 .. sn -> Nat] /\ end \in [1 .. sn -> Nat]
      /\ base \in [0 .. sn -> Nat] /\ Writes(from, so, to, sn) = u[sn]
  BY <1>1 DEF AreWrites
<1>3. /\ \A k \in 0 .. sn : b[k] = IF k \in {0, common, sn} \/ ~D(k - 1) THEN 0
                                   ELSE (b[k - 1] + 1) % WriteBuffer
      /\ \A k \in 1 .. sn : length[k] = IF ~D(k - 1) THEN b[k - 1]
                                        ELSE IF b[k] = 0 THEN b[k - 1] + 1 ELSE 0
      /\ \A k \in 1 .. sn : end[k] = to + (IF D(k - 1) THEN k ELSE k - 1)
      /\ \A k \in 0 .. sn : base[k] = IF k = 0 THEN 0 ELSE IF length[k] # 0 THEN end[k] ELSE base[k - 1]
      /\ \A k \in 0 .. sn : u[k] = IF k = 0 THEN <<>>
           ELSE u[k - 1] \o (IF length[k] # 0 THEN <<Piece(length, end, base, k)>> ELSE <<>>)
  BY <1>1 DEF AreWrites, IsBuffered, PieceLength, PieceEnd, IsBase, IsUpTo
<1>4. WriteBuffer \in Nat \ {0}
  BY PatchAssumption
<1> HIDE DEF D, common
<1>5. 0 \in S
  <2>1. 0 \in 0 .. sn
    OBVIOUS
  <2>2. b[0] = 0 /\ base[0] = 0 /\ u[0] = <<>>
    BY <2>1, <1>3
  <2>3. Writing(from, so, to, sn, u[0], <<>>, base[0], 0 - b[0])
    BY <2>2, WritingStarts
  <2> QED
    BY <2>1, <2>2, <2>3, <1>4
<1>6. ASSUME NEW k \in 0 .. (sn - 1), k \in S
      PROVE  k + 1 \in S
  <2> DEFINE l == k + 1
             lo == k - b[k]
             len == length[l]
  <2>1. k \in 0 .. sn /\ l \in 0 .. sn /\ l \in 1 .. sn /\ l - 1 = k /\ l # 0
    OBVIOUS
  <2>2. b[k] \in 0 .. (WriteBuffer - 1) /\ b[k] <= k
    BY <1>6
  <2>3. PICK P : Writing(from, so, to, sn, u[k], P, base[k], lo)
    BY <1>6
  <2>4. IsSeq(u[k])
    BY <2>3 DEF Writing, Placed, Paired
  <2>5. /\ b[l] = (IF l \in {0, common, sn} \/ ~D(k) THEN 0 ELSE (b[k] + 1) % WriteBuffer)
        /\ len = (IF ~D(k) THEN b[k] ELSE IF b[l] = 0 THEN b[k] + 1 ELSE 0)
        /\ end[l] = to + (IF D(k) THEN l ELSE k)
        /\ base[l] = (IF len # 0 THEN end[l] ELSE base[k])
        /\ u[l] = u[k] \o (IF len # 0 THEN <<Piece(length, end, base, l)>> ELSE <<>>)
    <3> HIDE DEF l
    <3>1. b[l] = IF l \in {0, common, sn} \/ ~D(l - 1) THEN 0 ELSE (b[l - 1] + 1) % WriteBuffer
      BY <2>1, <1>3
    <3>2. length[l] = IF ~D(l - 1) THEN b[l - 1] ELSE IF b[l] = 0 THEN b[l - 1] + 1 ELSE 0
      BY <2>1, <1>3
    <3>3. end[l] = to + (IF D(l - 1) THEN l ELSE l - 1)
      BY <2>1, <1>3
    <3>4. base[l] = IF l = 0 THEN 0 ELSE IF length[l] # 0 THEN end[l] ELSE base[l - 1]
      BY <2>1, <1>3
    <3>5. u[l] = IF l = 0 THEN <<>>
           ELSE u[l - 1] \o (IF length[l] # 0 THEN <<Piece(length, end, base, l)>> ELSE <<>>)
      BY <2>1, <1>3
    <3> QED
      BY <2>1, <3>1, <3>2, <3>3, <3>4, <3>5
  <2>6. base[k] \in Nat /\ lo \in Nat /\ len \in Nat
    <3>1. base[k] \in Nat
      BY <2>1, <1>2
    <3>2. lo \in Nat
      BY <2>1, <2>2
    <3>3. length[l] \in Nat
      BY <2>1, <1>2
    <3> QED
      BY <3>1, <3>2, <3>3
  <2> HIDE DEF len, l
  <2>7. b[k] + 1 < WriteBuffer => (b[k] + 1) % WriteBuffer = b[k] + 1
    BY <2>2, <1>4
  <2>8. b[k] + 1 = WriteBuffer => (b[k] + 1) % WriteBuffer = 0
    BY <1>4
  <2>9. b[l] = 0 \/ (b[l] = b[k] + 1 /\ b[k] + 1 < WriteBuffer /\ D(k))
    BY <2>2, <2>5, <2>7, <2>8, <1>4
  <2>10. b[l] \in 0 .. (WriteBuffer - 1) /\ b[l] <= l
    BY <2>2, <2>9, <1>4 DEF l
  <2>11. CASE len = 0
    <3>1. u[l] = u[k] /\ base[l] = base[k]
      BY <2>4, <2>5, <2>11, ConcatNothing
    <3>2. CASE D(k)
      <4>1. b[l] = b[k] + 1
        BY <2>2, <2>5, <2>9, <2>11, <3>2
      <4>2. l - b[l] = lo
        BY <4>1, <2>2 DEF l
      <4> QED
        BY <2>3, <3>1, <4>2, <2>10, <2>1
    <3>3. CASE ~D(k)
      <4>1. b[k] = 0 /\ b[l] = 0 /\ lo = k /\ l - b[l] = k + 1
        BY <2>5, <2>11, <3>3 DEF l
      <4>2. Writing(from, so, to, sn, u[k], P, base[k], k + 1)
        BY <2>3, <2>6, <4>1, <3>3, WritingSkips DEF D
      <4> QED
        BY <3>1, <4>1, <4>2, <2>10, <2>1
    <3> QED
      BY <3>2, <3>3
  <2>12. CASE len # 0
    <3> DEFINE at == to + lo
               first == base[k] = 0
               c == SeekWrite(first, SeekOffset(at, base[k], first), Chunk(new.Bytes, at, len))
               Q == P \o <<at>>
    <3>1. b[l] = 0 /\ len = (IF D(k) THEN b[k] + 1 ELSE b[k])
      BY <2>5, <2>9, <2>12
    <3>2. end[l] = at + len /\ end[l] - len = at /\ lo + len = (IF D(k) THEN k + 1 ELSE k)
      <4>1. end[l] = to + (IF D(k) THEN k + 1 ELSE k)
        BY <2>5 DEF l
      <4>2. k \in Nat /\ b[k] \in Nat /\ to \in Nat
        BY <2>1, <2>2
      <4>3. CASE D(k)
        BY <3>1, <4>1, <4>2, <4>3
      <4>4. CASE ~D(k)
        BY <3>1, <4>1, <4>2, <4>4
      <4> QED
        BY <4>3, <4>4
    <3>3. Piece(length, end, base, l) = c
      BY <3>2, <2>1 DEF Piece, Chunk, len
    <3>4. u[l] = u[k] \o <<c>> /\ base[l] = at + len
      BY <2>5, <2>12, <3>2, <3>3
    <3>5. lo + len <= sn /\ len \in Nat \ {0}
      BY <3>2, <2>6, <2>12
    <3> HIDE DEF c, Q
    <3>6. Writing(from, so, to, sn, u[k] \o <<c>>, Q, at + len, lo + len)
      <4> HIDE DEF lo
      <4> QED
        BY <2>3, <2>6, <3>5, WritingGoesOn DEF c, Q
    <3>7. Writing(from, so, to, sn, u[l], Q, base[l], lo + len)
      BY <3>4, <3>6
    <3>8. CASE D(k)
      <4>1. lo + len = l - b[l]
        BY <3>1, <3>2, <3>8 DEF l
      <4> QED
        BY <3>7, <4>1, <2>10, <2>1
    <3>9. CASE ~D(k)
      <4>1. lo + len = k /\ l - b[l] = k + 1
        BY <3>1, <3>2, <3>9 DEF l
      <4>2. Writing(from, so, to, sn, u[l], Q, base[l], k)
        BY <3>7, <4>1
      <4>3. Writing(from, so, to, sn, u[l], Q, base[l], k + 1)
        BY <4>2, <3>9, WritingSkips DEF D
      <4> QED
        BY <4>1, <4>3, <2>10, <2>1
    <3> QED
      BY <3>8, <3>9
  <2> QED
    BY <2>11, <2>12 DEF l
<1> HIDE DEF S
<1>7. \A k \in 0 .. sn : k \in S
  BY <1>5, <1>6, UpTo
<1>8. b[sn] = 0
  BY <1>3
<1>9. \E P : Writing(from, so, to, sn, u[sn], P, base[sn], sn)
  BY <1>7, <1>8 DEF S
<1> QED
  BY <1>2, <1>9

\* Where nothing differs nothing is written.
LEMMA NothingWritten ==
  ASSUME NEW from \in Nat, NEW so \in Nat, NEW to \in Nat, NEW sn \in Nat,
         \A k \in 0 .. (sn - 1) : ~Differs(from, so, to, sn, k)
  PROVE  Writes(from, so, to, sn) = <<>>
<1>1. PICK b, length, end, base, u : AreWrites(from, so, to, sn, b, length, end, base, u)
  BY WritesMade
<1> DEFINE S == {k \in 0 .. sn : u[k] = <<>>}
<1>2. \A k \in 1 .. sn : ~Differs(from, so, to, sn, k - 1)
  OBVIOUS
<1>3. \A k \in 0 .. sn : b[k] = 0
  BY <1>1, <1>2 DEF AreWrites, IsBuffered
<1>4. \A k \in 1 .. sn : length[k] = 0
  BY <1>1, <1>2, <1>3 DEF AreWrites, PieceLength
<1>5. \A k \in 0 .. sn : u[k] = IF k = 0 THEN <<>> ELSE u[k - 1] \o <<>>
  <2>1. \A k \in 0 .. sn : k # 0 => k \in 1 .. sn
    OBVIOUS
  <2>2. \A k \in 0 .. sn : u[k] = IF k = 0 THEN <<>>
           ELSE u[k - 1] \o (IF length[k] # 0 THEN <<Piece(length, end, base, k)>> ELSE <<>>)
    BY <1>1 DEF AreWrites, IsUpTo
  <2> QED
    BY <2>1, <2>2, <1>4
<1>6. 0 \in S
  BY <1>5
<1>7. ASSUME NEW k \in 0 .. (sn - 1), k \in S
      PROVE  k + 1 \in S
  <2>1. u[k + 1] = u[k] \o <<>> /\ u[k] = <<>>
    BY <1>5, <1>7
  <2> QED
    BY <2>1, NoSeq, ConcatNothing
<1> HIDE DEF S
<1>8. \A k \in 0 .. sn : k \in S
  BY <1>6, <1>7, UpTo
<1>9. u[sn] = <<>>
  BY <1>8 DEF S
<1> QED
  BY <1>1, <1>9 DEF AreWrites
-----------------------------------------------------------------------------
(* What the two files have to do with each other                           *)

LEMMA Numbers ==
  /\ LastPart \in Nat \ {0} /\ Parts = 0 .. LastPart /\ 0 \in Parts /\ LastPart \in Parts
  /\ LastPartition \in Nat /\ Partitions = 0 .. LastPartition
  /\ 0 \in Partitions /\ LastPartition \in Partitions
  /\ HeaderSize = 2 /\ CardSize \in Nat
BY PatchAssumption DEF Parts, Partitions, HeaderSize

PreTidy == ShrinkingPartsStay /\ OnlyRomFsDiffers /\ NoPartitionAdded

Laid ==
  /\ kind \in Kinds
  /\ IsLaid(old, kind, old.Sizes, OldNcsd, [p \in Partitions |-> OldHeader(p)])
  /\ \E ncsd, header : IsLaid(new, kind, new.Sizes, ncsd, header)
  /\ kind = "cci" => (old.Table = new.Table <=> new.Bytes[1] = OldNcsd)

LEMMA InitLaid ==
  ASSUME Init
  PROVE  Laid
<1>1. PICK allOld, allNew, changes :
        /\ allOld \in AllSizes(kind) /\ allNew \in AllSizes(kind)
        /\ old = FileOf(kind, allOld, OldNcsd, [p \in Partitions |-> OldHeader(p)], allOld, {})
        /\ new = FileOf(kind, allNew, NcsdHeaderOf(allOld, allNew),
                        HeaderOf(allOld, allNew, changes), allOld, changes)
  <2>1. PICK allOld \in AllSizes(kind) :
          \E allNew \in {all \in AllSizes(kind) : Comparable(allOld, all)} :
          \E changes \in SUBSET InBoth(allOld, allNew) :
            /\ old = FileOf(kind, allOld, OldNcsd, [p \in Partitions |-> OldHeader(p)], allOld, {})
            /\ new = FileOf(kind, allNew, NcsdHeaderOf(allOld, allNew),
                            HeaderOf(allOld, allNew, changes), allOld, changes)
    BY DEF Init
  <2>2. PICK allNew \in {all \in AllSizes(kind) : Comparable(allOld, all)} :
          \E changes \in SUBSET InBoth(allOld, allNew) :
            /\ old = FileOf(kind, allOld, OldNcsd, [p \in Partitions |-> OldHeader(p)], allOld, {})
            /\ new = FileOf(kind, allNew, NcsdHeaderOf(allOld, allNew),
                            HeaderOf(allOld, allNew, changes), allOld, changes)
    BY <2>1
  <2> QED
    BY <2>1, <2>2
<1> DEFINE header == HeaderOf(allOld, allNew, changes)
           ncsd == NcsdHeaderOf(allOld, allNew)
           headerOld == [p \in Partitions |-> OldHeader(p)]
<1>2. /\ old = FileOf(kind, allOld, OldNcsd, headerOld, allOld, {})
      /\ new = FileOf(kind, allNew, ncsd, header, allOld, changes)
      /\ allOld \in AllSizes(kind) /\ allNew \in AllSizes(kind)
  BY <1>1
<1> HIDE DEF header, ncsd, headerOld
<1>3. IsLaid(old, kind, allOld, OldNcsd, headerOld)
  BY <1>2, LaidOut
<1>4. IsLaid(new, kind, allNew, ncsd, header)
  BY <1>2, LaidOut
<1>5. old.Sizes = allOld /\ new.Sizes = allNew
  BY <1>3, <1>4 DEF IsLaid
<1>6. old.Table = AnalyzeNcsd(kind, allOld) /\ new.Table = AnalyzeNcsd(kind, allNew)
  BY <1>2 DEF FileOf
<1>7. ASSUME kind = "cci"
      PROVE  old.Table = new.Table <=> new.Bytes[1] = OldNcsd
  <2>1. new.Bytes[1] = ncsd
    BY <1>4, <1>7 DEF IsLaid
  <2>2. OldNcsd # NewNcsd
    BY DEF OldNcsd, NewNcsd
  <2> QED
    BY <2>1, <2>2, <1>6, <1>7 DEF ncsd, NcsdHeaderOf
<1>8. kind \in Kinds
  BY DEF Init
<1> QED
  BY <1>3, <1>4, <1>5, <1>7, <1>8 DEF Laid, headerOld

\* The facts about a file that do not depend on its headers.
IsPlaced(file) ==
  /\ file.Sizes \in AllOf /\ IsTable(file.Table, kind, file.Sizes)
  /\ \A p \in Partitions : file.Parts[p] \in [Parts -> Entry]
  /\ \A p \in Partitions : IsThere(file.Sizes, p) =>
       IsPartTable(file.Parts[p], KindOf(kind, p), file.Sizes[p]) /\ file.Bytes[file.Table[p].Offset] = Magic
  /\ IsFile(file.Bytes) /\ EndOf(file.Table[LastPartition]) <= Length(file.Bytes)
  /\ kind = "cci" =>
       /\ Length(file.Bytes) = CardSize /\ file.Bytes[0] = Magic
       /\ \A x \in EndOf(file.Table[LastPartition]) .. (CardSize - 1) : file.Bytes[x] = Filling
  /\ kind # "cci" =>
       /\ \A p \in Partitions : IsThere(file.Sizes, p) => p = 0
       /\ Length(file.Bytes) = file.Table[0].Size

LEMMA LaidPlaced ==
  ASSUME Laid
  PROVE  /\ IsPlaced(old) /\ IsPlaced(new)
         /\ kind = "cci" => old.Bytes[1] = OldNcsd
         /\ \A p \in Partitions : IsThere(old.Sizes, p) => old.Bytes[old.Table[p].Offset + 1] = OldHeader(p)
BY DEF Laid, IsLaid, IsPlaced

\* What follows for a partition that is there.
LEMMA PartitionPlaced ==
  ASSUME NEW file, IsPlaced(file), NEW p \in Partitions
  PROVE  /\ file.Table[p].Offset \in Nat /\ file.Table[p].Size \in Nat
         /\ EndOf(file.Table[p]) <= Length(file.Bytes) /\ Length(file.Bytes) \in Nat
         /\ DOMAIN file.Bytes = 0 .. (Length(file.Bytes) - 1)
         /\ FirstPlace(kind) <= file.Table[p].Offset
         /\ file.Table[0].Offset = FirstPlace(kind)
         /\ IsThere(file.Sizes, p) => file.Table[p].Size = EndOfNcch(file.Sizes[p]) /\ HeaderSize <= file.Table[p].Size
         /\ ~IsThere(file.Sizes, p) => file.Table[p].Size = 0
         /\ EndOf(file.Table[p]) <= EndOfPartitions(file)
         /\ EndOfPartitions(file) = EndOf(file.Table[LastPartition]) /\ EndOfPartitions(file) \in Nat
         /\ EndOfPartitions(file) <= Length(file.Bytes)
<1>1. IsTable(file.Table, kind, file.Sizes) /\ file.Sizes \in AllOf
  BY DEF IsPlaced
<1>2. \A q \in Partitions : file.Table[q].Offset \in Nat /\ file.Table[q].Size \in Nat
  BY <1>1 DEF IsTable, Entry
<1>3. Length(file.Bytes) \in Nat /\ DOMAIN file.Bytes = 0 .. (Length(file.Bytes) - 1)
  BY FileProperties DEF IsPlaced
<1>4. EndOfPartitions(file) = EndOf(file.Table[LastPartition]) /\ EndOfPartitions(file) \in Nat
  BY <1>2, Numbers DEF EndOfPartitions, EndOf
<1>5. EndOf(file.Table[p]) <= EndOf(file.Table[LastPartition]) /\ EndOf(file.Table[LastPartition]) <= Length(file.Bytes)
  BY <1>1 DEF IsTable, IsPlaced
<1>6. EndOf(file.Table[p]) \in Nat
  BY <1>2 DEF EndOf
<1>7. file.Table[p].Size = NcchSize(file.Sizes, p)
  BY <1>1 DEF IsTable
<1> QED
  BY <1>1, <1>2, <1>3, <1>4, <1>5, <1>6, <1>7, NcchSizes DEF IsTable

\* A part of the new file is one of its table, or before all of them and like the old.
InTable(p, i) ==
  /\ new.Parts[p][i].Size = new.Sizes[p][i]
  /\ PlaceIn(new, p, i) = new.Table[p].Offset + new.Parts[p][i].Offset

InFront(p, i) ==
  LET at == PlaceOfPart(new.Sizes[p])[i] IN
  /\ at \in Nat /\ at + new.Sizes[p][i] <= new.Parts[p][0].Offset
  /\ PlaceIn(new, p, i) = new.Table[p].Offset + at
  /\ \A k \in 0 .. (new.Sizes[p][i] - 1) :
       new.Bytes[new.Table[p].Offset + at + k] = old.Bytes[old.Table[p].Offset + at + k]

\* The parts of a partition.  Where partitions move, it has one part only and that
\* stays where it is in them.
Related(p) ==
  LET T == new.Table[p].Offset
      F == old.Table[p].Offset
      o == old.Parts[p]
      n == new.Parts[p]
      lo == n[0].Offset
  IN
  /\ T \in Nat /\ F \in Nat /\ lo \in Nat /\ old.Table[p].Size \in Nat /\ new.Table[p].Size \in Nat
  /\ HeaderSize <= lo /\ lo <= old.Table[p].Size /\ lo <= new.Table[p].Size
  /\ o \in [Parts -> Entry] /\ n \in [Parts -> Entry]
  /\ Ordered(o, LastPart) /\ Ordered(n, LastPart)
  /\ \A i \in Parts :
       /\ new.Sizes[p][i] \in Nat
       /\ EndOf(o[i]) <= old.Table[p].Size /\ EndOf(n[i]) <= new.Table[p].Size
       /\ lo <= n[i].Offset
       /\ o[i].Size # 0 => lo <= o[i].Offset
       /\ n[i].Size < o[i].Size => T + n[i].Offset <= F + o[i].Offset
       /\ T # F /\ o[i].Size # 0 /\ n[i].Size # 0 => n[i].Offset = o[i].Offset
       /\ T # F /\ i # LastPart => o[i].Size = 0 /\ n[i].Size = 0
       /\ new.Sizes[p][i] # 0 => InTable(p, i) \/ InFront(p, i)

LEMMA RelatedParts ==
  ASSUME Laid, PreTidy, kind # "file", NEW p \in There
  PROVE  Related(p)
<1> DEFINE T == new.Table[p].Offset
           F == old.Table[p].Offset
           so == old.Table[p].Size
           sn == new.Table[p].Size
           o == old.Parts[p]
           n == new.Parts[p]
           lo == n[0].Offset
           k == KindOf(kind, p)
           a == old.Sizes[p]
           b == new.Sizes[p]
           at == PlaceOfPart(a)
           bt == PlaceOfPart(b)
<1>1. p \in Partitions /\ IsThere(new.Sizes, p) /\ IsThere(old.Sizes, p)
  BY DEF There, PreTidy, NoPartitionAdded
<1>2. IsPlaced(old) /\ IsPlaced(new)
  BY LaidPlaced
<1>3. /\ T \in Nat /\ F \in Nat /\ so \in Nat /\ sn \in Nat
      /\ old.Table[0].Offset = FirstPlace(kind) /\ new.Table[0].Offset = FirstPlace(kind)
      /\ so = EndOfNcch(a) /\ sn = EndOfNcch(b) /\ HeaderSize <= so /\ HeaderSize <= sn
  BY <1>1, <1>2, PartitionPlaced
<1>4. IsPartTable(o, k, a) /\ IsPartTable(n, k, b)
  BY <1>1, <1>2 DEF IsPlaced
<1>5. a \in [Parts -> Nat] /\ b \in [Parts -> Nat]
  BY <1>1, <1>2 DEF IsPlaced, AllOf
<1>6. /\ at \in [Parts -> Nat]
      /\ \A i \in Parts : HeaderSize <= at[i] /\ at[i] + a[i] <= so
      /\ \A i, j \in Parts : i < j => at[i] + a[i] <= at[j]
  BY <1>3, <1>5, PartsInOrder
<1>7. /\ bt \in [Parts -> Nat]
      /\ \A i \in Parts : HeaderSize <= bt[i] /\ bt[i] + b[i] <= sn
      /\ \A i, j \in Parts : i < j => bt[i] + b[i] <= bt[j]
  BY <1>3, <1>5, PartsInOrder
<1>8. \A i \in Parts : PlaceIn(new, p, i) = T + bt[i] /\ PlaceIn(old, p, i) = F + at[i]
  BY DEF PlaceIn, Place
<1>9. \A i \in Parts : n[i].Size < o[i].Size => T + n[i].Offset <= F + o[i].Offset
  BY DEF PreTidy, ShrinkingPartsStay
<1>10. /\ o \in [Parts -> Entry] /\ n \in [Parts -> Entry]
       /\ Ordered(o, LastPart) /\ Ordered(n, LastPart)
       /\ \A i \in Parts : EndOf(o[i]) <= so /\ EndOf(n[i]) <= sn
       /\ \A i \in Parts : o[i].Offset \in Nat /\ o[i].Size \in Nat /\ n[i].Offset \in Nat /\ n[i].Size \in Nat
  BY <1>3, <1>4 DEF IsPartTable, Entry
<1> HIDE DEF T, F, so, sn, at, bt, o, n, a, b, k
<1>11. ASSUME NEW i \in Parts
       PROVE  lo <= n[i].Offset
  <2>1. i # 0 => EndOf(n[0]) <= n[i].Offset
    BY <1>10, Numbers DEF Ordered
  <2>2. n[0].Offset \in Nat /\ n[0].Size \in Nat /\ n[i].Offset \in Nat
    BY <1>10, Numbers
  <2> QED
    BY <2>1, <2>2 DEF EndOf
<1>12. CASE k # "cfa"
  <2>1. p = 0
    <3>1. kind = "cci" => p = 0
      BY <1>12 DEF KindOf, k
    <3>2. kind # "cci" => p = 0
      BY <1>1, <1>2 DEF IsPlaced
    <3> QED
      BY <3>1, <3>2
  <2>2. T = F
    BY <2>1, <1>3 DEF T, F
  <2>3. lo = HeaderSize /\ \A i \in Parts : HeaderSize <= o[i].Offset
    BY <1>4, <1>12 DEF IsPartTable
  <2>4. ASSUME NEW i \in Parts, b[i] # 0
        PROVE  n[i].Size = b[i] /\ n[i].Offset = bt[i]
    BY <1>4, <1>12, <2>4 DEF IsPartTable, bt
  <2>5. \A i \in Parts : b[i] # 0 => InTable(p, i)
    BY <2>4, <1>8 DEF InTable, n, b, T
  <2> QED
    BY <1>3, <1>5, <1>9, <1>10, <1>11, <2>2, <2>3, <2>5, Numbers DEF Related, T, F, so, sn, o, n, b
<1>13. CASE k = "cfa"
  <2>1. b[LastPart] # 0 /\ \A i \in Parts \ {LastPart} : SamePart(p, i)
    BY <1>13 DEF PreTidy, OnlyRomFsDiffers, b, k
  <2>2. \A i \in Parts \ {LastPart} :
          /\ a[i] = b[i]
          /\ \A m \in 0 .. (b[i] - 1) : old.Bytes[F + at[i] + m] = new.Bytes[T + bt[i] + m]
    BY <2>1, <1>8 DEF SamePart, a, b
  <2>3. \A i \in Parts : at[i] = bt[i]
    <3>1. \A i \in 0 .. (LastPart - 1) : a[i] = b[i]
      BY <2>2, Numbers
    <3>2. \A i \in 0 .. LastPart : at[i] = bt[i]
      BY <3>1, <1>5, Numbers, PlaceDepends DEF at, bt
    <3> QED
      BY <3>2, Numbers
  <2> DEFINE last == bt[LastPart]
  <2>4. /\ \A i \in Parts : n[i].Offset = last
        /\ \A i \in Parts : i # LastPart => o[i].Size = 0 /\ n[i].Size = 0
        /\ n[LastPart].Size = b[LastPart]
        /\ o[LastPart].Size # 0 => o[LastPart].Offset = last
    <3>1. \A i \in Parts : n[i].Offset = bt[LastPart]
      BY <2>1, <1>4, <1>13 DEF IsPartTable, bt
    <3>2. \A i \in Parts : i # LastPart => o[i].Size = 0 /\ n[i].Size = 0
      BY <1>4, <1>13 DEF IsPartTable
    <3>3. n[LastPart].Size = b[LastPart]
      BY <1>4, <1>13, Numbers DEF IsPartTable
    <3>4. o[LastPart].Size # 0 => o[LastPart].Offset = at[LastPart]
      BY <1>4, <1>13, Numbers DEF IsPartTable, at
    <3>5. at[LastPart] = bt[LastPart]
      BY <2>3, Numbers
    <3> QED
      BY <3>1, <3>2, <3>3, <3>4, <3>5
  <2>5. lo = last /\ HeaderSize <= lo /\ lo <= so /\ lo <= sn /\ lo \in Nat
    <3>1. at[LastPart] = last /\ lo = last
      BY <2>3, <2>4, Numbers
    <3>2. a[LastPart] \in Nat /\ b[LastPart] \in Nat /\ last \in Nat
      BY <1>5, <1>7, Numbers
    <3>3. last + a[LastPart] <= so /\ last + b[LastPart] <= sn /\ HeaderSize <= last
      BY <3>1, <1>6, <1>7, Numbers
    <3> QED
      BY <3>1, <3>2, <3>3, <1>3
  <2>6. \A i \in Parts : o[i].Size # 0 => i = LastPart /\ o[i].Offset = last
    BY <2>4
  <2>7. InTable(p, LastPart)
    BY <2>4, <1>8, Numbers DEF InTable, n, b, T
  <2>8. ASSUME NEW i \in Parts, i # LastPart
        PROVE  InFront(p, i)
    <3>1. bt[i] \in Nat /\ bt[i] + b[i] <= lo
      BY <1>7, <2>5, <2>8, Numbers
    <3>2. at[i] = bt[i]
      BY <2>3
    <3>3. \A m \in 0 .. (b[i] - 1) : new.Bytes[T + bt[i] + m] = old.Bytes[F + bt[i] + m]
      BY <2>2, <2>8, <3>2
    <3>4. PlaceIn(new, p, i) = T + bt[i]
      BY <1>8
    <3> QED
      BY <3>1, <3>3, <3>4 DEF InFront, T, F, b, bt, n
  <2> HIDE DEF last, lo
  <2>9. ASSUME NEW i \in Parts
        PROVE  /\ b[i] \in Nat
               /\ EndOf(o[i]) <= so /\ EndOf(n[i]) <= sn
               /\ lo <= n[i].Offset
               /\ o[i].Size # 0 => lo <= o[i].Offset
               /\ n[i].Size < o[i].Size => T + n[i].Offset <= F + o[i].Offset
               /\ T # F /\ o[i].Size # 0 /\ n[i].Size # 0 => n[i].Offset = o[i].Offset
               /\ T # F /\ i # LastPart => o[i].Size = 0 /\ n[i].Size = 0
               /\ b[i] # 0 => InTable(p, i) \/ InFront(p, i)
    <3>1. o[i].Size # 0 => o[i].Offset = last /\ n[i].Offset = last
      BY <2>4, <2>6
    <3> QED
      BY <3>1, <1>5, <1>9, <1>10, <1>11, <2>4, <2>5, <2>7, <2>8
  <2> QED
    BY <1>3, <1>10, <2>5, <2>9 DEF Related, T, F, so, sn, o, n, b, lo
<1> QED
  BY <1>12, <1>13

-----------------------------------------------------------------------------
(* The order                                                               *)

\* What is done does not lie over what is not, and comes before it.
Apart(from, to, done) ==
  \A i \in done : \A j \in DOMAIN to \ done : j < i => EndOf(from[j]) <= to[i].Offset

\* Neither the old nor the new place of entry i is in the way of the others.
Free(from, to, done, i) ==
  /\ \A j \in done : IF j < i THEN EndOf(to[j]) <= to[i].Offset
                     ELSE EndOf(from[i]) <= to[j].Offset /\ EndOf(to[i]) <= to[j].Offset
  /\ \A j \in DOMAIN to \ done :
       j # i => IF j < i THEN EndOf(from[j]) <= to[i].Offset
                ELSE EndOf(from[i]) <= from[j].Offset /\ EndOf(to[i]) <= from[j].Offset

LEMMA TurnIsFree ==
  ASSUME NEW last \in Nat, NEW from \in [0 .. last -> Entry], NEW to \in [0 .. last -> Entry],
         Ordered(from, last), Ordered(to, last), NEW done \in SUBSET (0 .. last),
         Apart(from, to, done), Ready(from, to, done) # {}
  PROVE  LET i == Turn(Ready(from, to, done)) IN
         /\ i \in (0 .. last) \ done
         /\ Free(from, to, done, i) /\ Apart(from, to, done \cup {i})
<1> DEFINE ready == Ready(from, to, done)
           i == Turn(ready)
<1>1. DOMAIN to = 0 .. last
  OBVIOUS
<1>2. ready = {j \in (0 .. last) \ done : ~(j # 0 /\ to[j].Offset < from[j].Offset /\ j - 1 \notin done)}
  BY <1>1 DEF Ready, Waiting
<1>3. ready \subseteq 0 .. last /\ ready # {}
  BY <1>2
<1> HIDE DEF ready
<1>4. i \in ready /\ \A j \in ready : j <= i
  <2>1. \A j \in ready : j <= last
    BY <1>3
  <2>2. ready \subseteq Nat
    BY <1>3
  <2>3. Max(ready) \in ready /\ \A j \in ready : j <= Max(ready)
    BY <1>3, <2>1, <2>2, MaxProperties
  <2> QED
    BY <2>3 DEF Turn
<1> HIDE DEF i
<1>5. \A j \in 0 .. last : /\ from[j].Offset \in Nat /\ from[j].Size \in Nat
                           /\ to[j].Offset \in Nat /\ to[j].Size \in Nat
  BY DEF Entry
<1>6. i \in (0 .. last) \ done /\ i \in Nat /\ (i # 0 /\ to[i].Offset < from[i].Offset => i - 1 \in done)
  BY <1>2, <1>4
<1>7. ASSUME NEW j \in (0 .. last) \ done, i < j
      PROVE  to[j].Offset < from[j].Offset
  <2>1. j \notin ready
    BY <1>4, <1>6, <1>7
  <2> QED
    BY <2>1, <1>2
<1>8. \A j, k \in 0 .. last : j < k => /\ from[j].Offset + from[j].Size <= from[k].Offset
                                       /\ to[j].Offset + to[j].Size <= to[k].Offset
  BY DEF Ordered, EndOf
<1>9. \A j \in done : \A k \in (0 .. last) \ done : k < j => from[k].Offset + from[k].Size <= to[j].Offset
  BY <1>1 DEF Apart, EndOf
<1>10. ASSUME NEW j \in (0 .. last) \ done, j < i
       PROVE  from[j].Offset + from[j].Size <= to[i].Offset
  <2>1. CASE to[i].Offset < from[i].Offset
    <3>1. i - 1 \in done /\ j # i - 1 /\ j < i - 1
      BY <1>6, <1>10, <2>1
    <3>2. i - 1 \in 0 .. last /\ i - 1 < i
      BY <1>6, <3>1
    <3>3. from[j].Offset + from[j].Size <= to[i - 1].Offset
      BY <3>1, <1>9
    <3>4. to[i - 1].Offset + to[i - 1].Size <= to[i].Offset
      BY <3>2, <1>6, <1>8
    <3> QED
      BY <3>2, <3>3, <3>4, <1>5, <1>6
  <2>2. CASE ~(to[i].Offset < from[i].Offset)
    BY <2>2, <1>5, <1>6, <1>8, <1>10
  <2> QED
    BY <2>1, <2>2
<1>11. Apart(from, to, done \cup {i})
  <2> SUFFICES ASSUME NEW k \in done \cup {i}, NEW j \in (0 .. last) \ (done \cup {i}), j < k
               PROVE  from[j].Offset + from[j].Size <= to[k].Offset
    BY <1>1 DEF Apart, EndOf
  <2> QED
    BY <1>9, <1>10
<1>12. Free(from, to, done, i)
  <2>1. ASSUME NEW j \in done
        PROVE  IF j < i THEN to[j].Offset + to[j].Size <= to[i].Offset
               ELSE /\ from[i].Offset + from[i].Size <= to[j].Offset
                    /\ to[i].Offset + to[i].Size <= to[j].Offset
    <3>1. j \in 0 .. last /\ j # i /\ (~(j < i) => i < j)
      BY <1>6
    <3> QED
      BY <3>1, <1>6, <1>8, <1>9
  <2>2. ASSUME NEW j \in (0 .. last) \ done, j # i
        PROVE  IF j < i THEN from[j].Offset + from[j].Size <= to[i].Offset
               ELSE /\ from[i].Offset + from[i].Size <= from[j].Offset
                    /\ to[i].Offset + to[i].Size <= from[j].Offset
    <3>1. j < i \/ i < j
      BY <1>6, <2>2
    <3>2. i < j => to[i].Offset + to[i].Size <= to[j].Offset /\ to[j].Offset < from[j].Offset
      BY <1>6, <1>7, <1>8
    <3>3. i < j => from[i].Offset + from[i].Size <= from[j].Offset
      BY <1>6, <1>8
    <3> QED
      BY <3>1, <3>2, <3>3, <1>5, <1>6, <1>10
  <2> QED
    BY <1>1, <2>1, <2>2 DEF Free, EndOf
<1> QED
  BY <1>6, <1>11, <1>12 DEF i, ready

-----------------------------------------------------------------------------
(* What the commands for a part do                                         *)

Larger(a, b) == IF a > b THEN a ELSE b

\* Commands that write.
Work(commands, places) ==
  /\ Placed(commands, places)
  /\ \A m \in 1 .. Len(commands) : commands[m].Command \notin {"Over", "Check"}

LEMMA WorkNothing == Work(<<>>, <<>>)
BY PlacedNothing, NoSeq DEF Work

LEMMA WorkOne ==
  ASSUME NEW c, IsCommand(c), c.Command \notin {"SeekWrite", "Over", "Check"}
  PROVE  Work(<<c>>, <<0>>)
<1>1. Placed(<<c>>, <<0>>)
  BY PlacedOne
<1> QED
  BY <1>1, OneSeq DEF Work

LEMMA WorkConcat ==
  ASSUME NEW a, NEW b, NEW P, NEW Q, Work(a, P), Work(b, Q)
  PROVE  Work(a \o b, P \o Q)
<1> DEFINE s == a \o b
           R == P \o Q
<1>1. IsSeq(a) /\ IsSeq(b) /\ Placed(s, R)
  BY PlacedConcat DEF Work, Placed, Paired
<1>2. /\ Len(s) = Len(a) + Len(b)
      /\ \A i \in 1 .. Len(a) : s[i] = a[i]
      /\ \A i \in 1 .. Len(b) : s[Len(a) + i] = b[i]
  BY <1>1, ConcatSeq
<1>3. Len(a) \in Nat /\ Len(b) \in Nat
  BY <1>1, SeqProperties
<1> HIDE DEF s, R
<1>4. ASSUME NEW m \in 1 .. Len(s)
      PROVE  s[m].Command \notin {"Over", "Check"}
  <2>1. CASE m <= Len(a)
    <3>1. m \in 1 .. Len(a)
      BY <1>3, <2>1
    <3> QED
      BY <3>1, <1>2 DEF Work
  <2>2. CASE m > Len(a)
    <3>1. m - Len(a) \in 1 .. Len(b) /\ m = Len(a) + (m - Len(a))
      BY <1>2, <1>3, <2>2
    <3>2. s[m] = b[m - Len(a)]
      BY <3>1, <1>2
    <3> QED
      BY <3>1, <3>2 DEF Work
  <2> QED
    BY <1>3, <2>1, <2>2
<1> QED
  BY <1>1, <1>4 DEF Work, s, R

\* The commands turn f into a file that differs from lo to hi - 1 only.
Turns(commands, P, f, g, lo, hi) ==
  Leads(commands, P, f, g) /\ IsFile(g) /\ Same(f, g, lo, hi) /\ Safe(g, lo, hi)

LEMMA SafeAfter ==
  ASSUME NEW f, NEW g, NEW lo \in Nat, NEW hi \in Nat, IsFile(f), IsFile(g), Safe(f, lo, hi), Same(f, g, lo, hi)
  PROVE  Safe(g, lo, hi) /\ Good(g)
<1>1. ASSUME NEW h, IsFile(h), Same(g, h, lo, hi)
      PROVE  Good(h)
  <2>1. Same(f, h, lo, hi)
    BY <1>1, SameTwice
  <2> QED
    BY <2>1, <1>1 DEF Safe
<1>2. Safe(g, lo, hi)
  BY <1>1 DEF Safe
<1> QED
  BY <1>2 DEF Safe

LEMMA SafeNarrower ==
  ASSUME NEW f, NEW lo \in Nat, NEW hi \in Nat, NEW low \in Nat, NEW high \in Nat,
         IsFile(f), Safe(f, lo, hi), lo <= low, high <= hi
  PROVE  Safe(f, low, high) /\ Good(f)
<1>1. ASSUME NEW h, IsFile(h), Same(f, h, low, high)
      PROVE  Good(h)
  <2>1. Same(f, h, lo, hi)
    BY <1>1, SameWider
  <2> QED
    BY <2>1, <1>1 DEF Safe
<1>2. Same(f, f, lo, hi)
  BY SameAsItself
<1> QED
  BY <1>1, <1>2 DEF Safe

LEMMA TurnsNothing ==
  ASSUME NEW f, NEW lo \in Nat, NEW hi \in Nat, IsFile(f), Safe(f, lo, hi)
  PROVE  Turns(<<>>, <<>>, f, f, lo, hi)
<1>1. Same(f, f, lo, hi) /\ Good(f)
  BY SameAsItself, SafeNarrower
<1> QED
  BY <1>1, LeadsNothing DEF Turns

LEMMA TurnsTwice ==
  ASSUME NEW a, NEW b, NEW P, NEW Q, Placed(a, P), Placed(b, Q),
         NEW f, NEW g, NEW h, NEW lo \in Nat, NEW hi \in Nat, IsFile(f),
         Turns(a, P, f, g, lo, hi), Turns(b, Q, g, h, lo, hi)
  PROVE  Turns(a \o b, P \o Q, f, h, lo, hi)
<1>1. Paired(a, P) /\ Paired(b, Q)
  BY DEF Placed
<1>2. Leads(a \o b, P \o Q, f, h)
  BY <1>1, LeadsConcat DEF Turns
<1>3. Same(f, h, lo, hi)
  BY SameTwice DEF Turns
<1> QED
  BY <1>2, <1>3 DEF Turns

\* A single command that writes from low to high - 1.
LEMMA TurnsOne ==
  ASSUME NEW c, NEW at, NEW f, NEW lo \in Nat, NEW hi \in Nat, NEW low \in Nat, NEW high \in Nat,
         lo <= low, high <= hi, IsFile(f), Safe(f, lo, hi),
         c.Command = "Move" => Finds(f, c) /\ low = c.To /\ high = c.To + c.Size,
         IsFile(Step(c, at, f)), Same(f, Step(c, at, f), low, high)
  PROVE  Turns(<<c>>, <<at>>, f, Step(c, at, f), lo, hi)
<1> DEFINE g == Step(c, at, f)
<1>1. Same(f, g, lo, hi)
  BY SameWider
<1>2. Safe(g, lo, hi) /\ Good(g)
  BY <1>1, SafeAfter
<1>3. Safe(f, low, high) /\ Good(f)
  BY SafeNarrower
<1>4. Fine(c, f)
  BY <1>3 DEF Fine
<1>5. Leads(<<c>>, <<at>>, f, g)
  BY <1>2, <1>4, LeadsOne
<1> QED
  BY <1>1, <1>2, <1>5 DEF Turns

\* Before a move the bytes are where it takes them from, if there is anything to move.
MoveStart(from, o, to, n, f) ==
  \A k \in 0 .. (Common(o.Size, n.Size) - 1) :
    LET x == IF n.Offset # o.Offset THEN from + o.Offset + k ELSE to + n.Offset + k
    IN x \in DOMAIN f /\ f[x] = old.Bytes[from + o.Offset + k]

MoveDone(from, o, to, n, f) ==
  \A k \in 0 .. (Common(o.Size, n.Size) - 1) :
    to + n.Offset + k \in DOMAIN f /\ f[to + n.Offset + k] = old.Bytes[from + o.Offset + k]

LEMMA MoveLeads ==
  ASSUME NEW from \in Nat, NEW o \in Entry, NEW to \in Nat, NEW n \in Entry
  PROVE  \E P : /\ Work(MoveTo(from, o, to, n), P)
                /\ \A f : \A lo, hi \in Nat :
                     /\ IsFile(f) /\ Safe(f, lo, hi) /\ MoveStart(from, o, to, n, f)
                     /\ lo <= to + n.Offset /\ to + n.Offset + Common(o.Size, n.Size) <= hi
                     => \E g : Turns(MoveTo(from, o, to, n), P, f, g, lo, hi) /\ MoveDone(from, o, to, n, g)
<1> DEFINE common == Common(o.Size, n.Size)
           c == Move(from + o.Offset, to + n.Offset, common)
<1>1. o.Offset \in Nat /\ o.Size \in Nat /\ n.Offset \in Nat /\ n.Size \in Nat
  BY DEF Entry
<1>2. common \in Nat
  BY <1>1 DEF Common
<1>3. MoveTo(from, o, to, n) = IF n.Offset # o.Offset /\ common # 0 THEN <<c>> ELSE <<>>
  BY DEF MoveTo, Common
<1> HIDE DEF common
<1>4. CASE n.Offset # o.Offset /\ common # 0
  <2> DEFINE a == from + o.Offset
             b == to + n.Offset
  <2>1. a \in Nat /\ b \in Nat
    BY <1>1
  <2>2. c.Command = "Move" /\ c.From = a /\ c.To = b /\ c.Size = common
    BY DEF Move
  <2>3. IsCommand(c)
    BY <1>2, <1>4, <2>1, <2>2 DEF IsCommand, IsMove
  <2>4. MoveTo(from, o, to, n) = <<c>>
    BY <1>3, <1>4
  <2> HIDE DEF c
  <2>5. Work(<<c>>, <<0>>)
    BY <2>2, <2>3, WorkOne
  <2>6. ASSUME NEW f, NEW lo \in Nat, NEW hi \in Nat, IsFile(f), Safe(f, lo, hi),
               MoveStart(from, o, to, n, f), lo <= b, b + common <= hi
        PROVE  \E g : Turns(<<c>>, <<0>>, f, g, lo, hi) /\ MoveDone(from, o, to, n, g)
    <3> DEFINE g == Step(c, 0, f)
    <3>1. \A k \in 0 .. (common - 1) : a + k \in DOMAIN f /\ f[a + k] = old.Bytes[a + k]
      BY <2>6, <1>4 DEF MoveStart, common
    <3> HIDE DEF a, b
    <3>2. Finds(f, c)
      <4> SUFFICES ASSUME NEW x \in a .. (a + common - 1)
                   PROVE  x \in DOMAIN f /\ f[x] = old.Bytes[x]
        BY <2>2 DEF Finds
      <4>1. x - a \in 0 .. (common - 1) /\ a + (x - a) = x
        BY <1>2, <2>1
      <4> QED
        BY <3>1, <4>1
    <3>3. g = Written(f, b, Chunk(f, a, common))
      BY <2>2 DEF Step
    <3>4. IsCopy(g, f, f, b, a, common)
      BY <3>3, <2>1, <1>2, <2>6, CopiedFile
    <3> HIDE DEF g
    <3>5. /\ IsFile(g) /\ Length(g) = (IF b + common > Length(f) THEN b + common ELSE Length(f))
          /\ \A x \in b .. (b + common - 1) : g[x] = f[a + x - b]
      BY <3>4 DEF IsCopy
    <3>6. Same(f, g, b, b + common)
      <4>1. IsSeq(Chunk(f, a, common)) /\ Len(Chunk(f, a, common)) = common
        BY <1>2, <2>1, ChunkSeq
      <4> QED
        BY <3>3, <4>1, <2>1, <2>6, WrittenSame
    <3>7. Turns(<<c>>, <<0>>, f, g, lo, hi)
      <4>1. b + common \in Nat
        BY <1>2, <2>1
      <4> QED
        BY <3>2, <3>5, <3>6, <2>1, <2>2, <2>6, <4>1, TurnsOne DEF g
    <3>8. ASSUME NEW k \in 0 .. (common - 1)
          PROVE  b + k \in DOMAIN g /\ g[b + k] = old.Bytes[a + k]
      <4>1. b + k \in b .. (b + common - 1) /\ a + (b + k) - b = a + k
        BY <1>2, <2>1
      <4>2. g[b + k] = f[a + k]
        BY <3>5, <4>1
      <4>3. Length(g) \in Nat /\ DOMAIN g = 0 .. (Length(g) - 1) /\ Length(f) \in Nat
        BY <3>5, <2>6, FileProperties
      <4>4. b + k \in DOMAIN g
        BY <3>5, <4>3, <1>2, <2>1
      <4> QED
        BY <4>2, <4>4, <3>1
    <3>9. MoveDone(from, o, to, n, g)
      BY <3>8 DEF MoveDone, a, b, common
    <3> QED
      BY <3>7, <3>9
  <2> QED
    BY <2>4, <2>5, <2>6 DEF common
<1>5. CASE ~(n.Offset # o.Offset /\ common # 0)
  <2>1. MoveTo(from, o, to, n) = <<>>
    BY <1>3, <1>5
  <2>2. ASSUME NEW f, NEW lo \in Nat, NEW hi \in Nat, IsFile(f), Safe(f, lo, hi),
               MoveStart(from, o, to, n, f)
        PROVE  Turns(<<>>, <<>>, f, f, lo, hi) /\ MoveDone(from, o, to, n, f)
    <3>1. Turns(<<>>, <<>>, f, f, lo, hi)
      BY <2>2, TurnsNothing
    <3>2. MoveDone(from, o, to, n, f)
      <4>1. CASE n.Offset = o.Offset
        BY <4>1, <2>2 DEF MoveStart, MoveDone
      <4>2. CASE common = 0
        <5>1. 0 .. (common - 1) = {}
          BY <4>2
        <5> QED
          BY <5>1 DEF MoveDone, common
      <4> QED
        BY <4>1, <4>2, <1>5
    <3> QED
      BY <3>1, <3>2
  <2> QED
    BY <2>1, <2>2, WorkNothing
<1> QED
  BY <1>4, <1>5

LEMMA SetLeads ==
  ASSUME NEW at \in Nat, NEW size \in Nat, NEW byte
  PROVE  /\ Work(<<Set(at, size, byte)>>, <<0>>)
         /\ \A f : \A lo, hi \in Nat :
              IsFile(f) /\ Safe(f, lo, hi) /\ lo <= at /\ at + size <= hi =>
                \E g : /\ Turns(<<Set(at, size, byte)>>, <<0>>, f, g, lo, hi)
                       /\ Same(f, g, at, at + size)
                       /\ \A x \in at .. (at + size - 1) : x \in DOMAIN g /\ g[x] = byte
<1> DEFINE c == Set(at, size, byte)
           data == [k \in 1 .. size |-> byte]
<1>1. c.Command = "Set" /\ c.Offset = at /\ c.Size = size /\ c.Byte = byte
  BY DEF Set
<1>2. IsSeq(data) /\ Len(data) = size /\ \A k \in 1 .. size : data[k] = byte
  <2>1. data = [k \in 1 .. size |-> data[k]]
    OBVIOUS
  <2>2. \A k \in 1 .. size : data[k] = byte
    OBVIOUS
  <2> HIDE DEF data
  <2> QED
    BY <2>1, <2>2, TupleSeq
<1>3. IsCommand(c)
  BY <1>1 DEF IsCommand
<1>4. \A f : Step(c, 0, f) = Written(f, at, data)
  BY <1>1 DEF Step
<1> HIDE DEF c, data
<1>5. Work(<<c>>, <<0>>)
  BY <1>1, <1>3, WorkOne
<1>6. ASSUME NEW f, NEW lo \in Nat, NEW hi \in Nat, IsFile(f), Safe(f, lo, hi), lo <= at, at + size <= hi
      PROVE  \E g : /\ Turns(<<c>>, <<0>>, f, g, lo, hi)
                    /\ Same(f, g, at, at + size)
                    /\ \A x \in at .. (at + size - 1) : x \in DOMAIN g /\ g[x] = byte
  <2> DEFINE g == Step(c, 0, f)
  <2>1. g = Written(f, at, data)
    BY <1>4
  <2>2. IsWritten(g, f, at, data)
    BY <2>1, <1>2, <1>6, WrittenFile
  <2>3. Same(f, g, at, at + size)
    BY <2>1, <1>2, <1>6, WrittenSame
  <2>4. IsFile(g) /\ \A x \in at .. (at + size - 1) : x \in DOMAIN g /\ g[x] = data[x - at + 1]
    BY <2>2, <1>2 DEF IsWritten
  <2> HIDE DEF g
  <2>5. Turns(<<c>>, <<0>>, f, g, lo, hi)
    <3>1. at + size \in Nat
      OBVIOUS
    <3> QED
      BY <3>1, <2>3, <2>4, <1>1, <1>6, TurnsOne DEF g
  <2>6. ASSUME NEW x \in at .. (at + size - 1)
        PROVE  x \in DOMAIN g /\ g[x] = byte
    <3>1. x - at + 1 \in 1 .. size
      OBVIOUS
    <3> QED
      BY <3>1, <2>4, <1>2
  <2> QED
    BY <2>3, <2>5, <2>6
<1> QED
  BY <1>5, <1>6 DEF c

AreOld(f, at, from, size) ==
  \A k \in 0 .. (size - 1) : at + k \in DOMAIN f /\ f[at + k] = old.Bytes[from + k]

AreNew(f, at, size) ==
  \A k \in 0 .. (size - 1) : at + k \in DOMAIN f /\ f[at + k] = new.Bytes[at + k]

LEMMA WritesTurn ==
  ASSUME NEW from \in Nat, NEW so \in Nat, NEW to \in Nat, NEW sn \in Nat
  PROVE  \E P : /\ Work(Writes(from, so, to, sn), P)
                /\ \A f : \A lo, hi \in Nat :
                     /\ IsFile(f) /\ Safe(f, lo, hi) /\ lo <= to /\ to + sn <= hi
                     /\ AreOld(f, to, from, Common(so, sn))
                     => \E g : Turns(Writes(from, so, to, sn), P, f, g, lo, hi)
                               /\ Same(f, g, to, to + sn) /\ AreNew(g, to, sn)
<1>1. PICK P, base : Writing(from, so, to, sn, Writes(from, so, to, sn), P, base, sn)
  BY WritesLead
<1> DEFINE w == Writes(from, so, to, sn)
<1> HIDE DEF w
<1>2. /\ Placed(w, P) /\ \A m \in 1 .. Len(w) : w[m].Command = "SeekWrite"
      /\ \A f : WriteStart(from, so, to, sn, f) =>
           \E g : Leads(w, P, f, g) /\ WrittenUpTo(from, so, to, sn, f, g, sn)
  BY <1>1 DEF Writing, w
<1>3. Work(w, P)
  BY <1>2 DEF Work
<1>4. ASSUME NEW f, NEW lo \in Nat, NEW hi \in Nat, IsFile(f), Safe(f, lo, hi), lo <= to, to + sn <= hi,
             AreOld(f, to, from, Common(so, sn))
      PROVE  \E g : Turns(w, P, f, g, lo, hi) /\ Same(f, g, to, to + sn) /\ AreNew(g, to, sn)
  <2>1. Safe(f, to, to + sn)
    <3>1. to + sn \in Nat
      OBVIOUS
    <3> QED
      BY <3>1, <1>4, SafeNarrower
  <2>2. WriteStart(from, so, to, sn, f)
    BY <2>1, <1>4 DEF WriteStart, AreOld
  <2>3. PICK g : Leads(w, P, f, g) /\ WrittenUpTo(from, so, to, sn, f, g, sn)
    BY <1>2, <2>2
  <2>4. IsFile(g) /\ Same(f, g, to, to + sn) /\ AreNew(g, to, sn)
    BY <2>3 DEF WrittenUpTo, AreNew
  <2>5. Same(f, g, lo, hi)
    <3>1. to + sn \in Nat
      OBVIOUS
    <3> QED
      BY <3>1, <2>4, <1>4, SameWider
  <2>6. Turns(w, P, f, g, lo, hi)
    BY <2>3, <2>4, <2>5, <1>4, SafeAfter DEF Turns
  <2> QED
    BY <2>4, <2>6
<1> QED
  BY <1>3, <1>4 DEF w

\* Bytes outside of what changed are the same.
LEMMA AreNewKept ==
  ASSUME NEW f, NEW g, NEW lo \in Nat, NEW hi \in Nat, NEW at \in Nat, NEW size \in Nat,
         Same(f, g, lo, hi), AreNew(f, at, size), size # 0 => at + size <= lo \/ hi <= at
  PROVE  AreNew(g, at, size)
<1> SUFFICES ASSUME NEW k \in 0 .. (size - 1)
             PROVE  at + k \in DOMAIN g /\ g[at + k] = new.Bytes[at + k]
  BY DEF AreNew
<1>1. at + k \in DOMAIN f /\ f[at + k] = new.Bytes[at + k]
  BY DEF AreNew
<1>2. at + k < lo \/ hi <= at + k
  OBVIOUS
<1> QED
  BY <1>1, <1>2 DEF Same

LEMMA AreOldKept ==
  ASSUME NEW f, NEW g, NEW lo \in Nat, NEW hi \in Nat, NEW at \in Nat, NEW from \in Nat, NEW size \in Nat,
         Same(f, g, lo, hi), AreOld(f, at, from, size), size # 0 => at + size <= lo \/ hi <= at
  PROVE  AreOld(g, at, from, size)
<1> SUFFICES ASSUME NEW k \in 0 .. (size - 1)
             PROVE  at + k \in DOMAIN g /\ g[at + k] = old.Bytes[from + k]
  BY DEF AreOld
<1>1. at + k \in DOMAIN f /\ f[at + k] = old.Bytes[from + k]
  BY DEF AreOld
<1>2. at + k < lo \/ hi <= at + k
  OBVIOUS
<1> QED
  BY <1>1, <1>2 DEF Same

\* The commands for a part turn its old bytes, wherever they are, into the new ones.
PartLeads(from, o, to, n, P) ==
  LET commands == PartCommands(from, o, to, n)
      lo == to + n.Offset
      hi == to + n.Offset + Larger(o.Size, n.Size)
  IN \A f :
       /\ IsFile(f) /\ Safe(f, lo, hi)
       /\ AreOld(f, to + o.Offset, from + o.Offset, Common(o.Size, n.Size))
       => \E g : Turns(commands, P, f, g, lo, hi) /\ AreNew(g, lo, n.Size)

LEMMA PartCommandsLead ==
  ASSUME NEW from \in Nat, NEW o \in Entry, NEW to \in Nat, NEW n \in Entry
  PROVE  \E P : /\ Work(PartCommands(from, o, to, n), P)
                /\ (from # to /\ o.Size # 0 /\ n.Size # 0 => n.Offset = o.Offset) =>
                     PartLeads(from, o, to, n, P)
<1> DEFINE common == Common(o.Size, n.Size)
           lo == to + n.Offset
           hi == to + n.Offset + Larger(o.Size, n.Size)
           a == MoveTo(from, o, to, n)
           b == IF n.Size # 0 THEN Writes(from + o.Offset, o.Size, lo, n.Size) ELSE <<>>
           c == IF n.Size < o.Size THEN <<Set(lo + n.Size, o.Size - n.Size, Filler)>> ELSE <<>>
           commands == (a \o b) \o c
<1>1. o.Offset \in Nat /\ o.Size \in Nat /\ n.Offset \in Nat /\ n.Size \in Nat
  BY DEF Entry
<1>2. /\ common \in Nat /\ lo \in Nat /\ hi \in Nat /\ from + o.Offset \in Nat /\ lo <= hi
      /\ lo + common <= hi /\ lo + n.Size <= hi /\ lo + o.Size <= hi /\ common <= o.Size /\ common <= n.Size
  BY <1>1 DEF Common, Larger
<1>3. PICK P : /\ Work(a, P)
               /\ \A f : \A low, high \in Nat :
                    /\ IsFile(f) /\ Safe(f, low, high) /\ MoveStart(from, o, to, n, f)
                    /\ low <= to + n.Offset /\ to + n.Offset + Common(o.Size, n.Size) <= high
                    => \E g : Turns(a, P, f, g, low, high) /\ MoveDone(from, o, to, n, g)
  BY MoveLeads
<1>4. \E Q : /\ Work(b, Q)
             /\ \A f : IsFile(f) /\ Safe(f, lo, hi) /\ AreOld(f, lo, from + o.Offset, common) =>
                  \E g : Turns(b, Q, f, g, lo, hi) /\ AreNew(g, lo, n.Size)
  <2> HIDE DEF lo, hi, common, a, c
  <2>1. CASE n.Size # 0
    <3> DEFINE w == Writes(from + o.Offset, o.Size, lo, n.Size)
    <3>1. PICK Q : /\ Work(w, Q)
                   /\ \A f : \A low, high \in Nat :
                        /\ IsFile(f) /\ Safe(f, low, high) /\ low <= lo /\ lo + n.Size <= high
                        /\ AreOld(f, lo, from + o.Offset, Common(o.Size, n.Size))
                        => \E g : Turns(w, Q, f, g, low, high)
                                  /\ Same(f, g, lo, lo + n.Size) /\ AreNew(g, lo, n.Size)
      BY <1>1, <1>2, WritesTurn
    <3>2. b = w
      BY <2>1
    <3> HIDE DEF b, w
    <3> QED
      BY <3>1, <3>2, <1>2 DEF common
  <2>2. CASE n.Size = 0
    <3>1. b = <<>>
      BY <2>2
    <3>2. \A f : AreNew(f, lo, n.Size)
      <4>1. 0 .. (n.Size - 1) = {}
        BY <2>2
      <4> QED
        BY <4>1 DEF AreNew
    <3> HIDE DEF b
    <3>3. \A f : IsFile(f) /\ Safe(f, lo, hi) => Turns(<<>>, <<>>, f, f, lo, hi)
      BY <1>2, TurnsNothing
    <3> QED
      BY <3>1, <3>2, <3>3, WorkNothing
  <2> QED
    BY <2>1, <2>2
<1>5. PICK Q : /\ Work(b, Q)
               /\ \A f : IsFile(f) /\ Safe(f, lo, hi) /\ AreOld(f, lo, from + o.Offset, common) =>
                    \E g : Turns(b, Q, f, g, lo, hi) /\ AreNew(g, lo, n.Size)
  BY <1>4
<1>6. \E R : /\ Work(c, R)
             /\ \A f : IsFile(f) /\ Safe(f, lo, hi) /\ AreNew(f, lo, n.Size) =>
                  \E g : Turns(c, R, f, g, lo, hi) /\ AreNew(g, lo, n.Size)
  <2> HIDE DEF lo, hi, common, a, b
  <2>1. CASE n.Size < o.Size
    <3> DEFINE at == lo + n.Size
               size == o.Size - n.Size
               s == <<Set(at, size, Filler)>>
    <3>1. at \in Nat /\ size \in Nat /\ lo <= at /\ at + size <= hi
      BY <1>1, <1>2, <2>1
    <3>2. c = s
      BY <2>1
    <3> HIDE DEF at, size, c
    <3>3. /\ Work(s, <<0>>)
          /\ \A f : \A low, high \in Nat :
               IsFile(f) /\ Safe(f, low, high) /\ low <= at /\ at + size <= high =>
                 \E g : /\ Turns(s, <<0>>, f, g, low, high)
                        /\ Same(f, g, at, at + size)
                        /\ \A x \in at .. (at + size - 1) : x \in DOMAIN g /\ g[x] = Filler
      BY <3>1, SetLeads
    <3> HIDE DEF s
    <3>4. ASSUME NEW f, IsFile(f), Safe(f, lo, hi), AreNew(f, lo, n.Size)
          PROVE  \E g : Turns(s, <<0>>, f, g, lo, hi) /\ AreNew(g, lo, n.Size)
      <4>1. PICK g : Turns(s, <<0>>, f, g, lo, hi) /\ Same(f, g, at, at + size)
        BY <3>1, <3>3, <3>4, <1>2
      <4>2. AreNew(g, lo, n.Size)
        <5>1. lo + n.Size <= at /\ at + size \in Nat
          BY <1>1, <1>2, <3>1 DEF at
        <5> QED
          BY <4>1, <5>1, <3>1, <3>4, <1>1, <1>2, AreNewKept
      <4> QED
        BY <4>1, <4>2
    <3> QED
      BY <3>2, <3>3, <3>4
  <2>2. CASE ~(n.Size < o.Size)
    <3>1. c = <<>>
      BY <2>2
    <3> HIDE DEF c
    <3>2. \A f : IsFile(f) /\ Safe(f, lo, hi) => Turns(<<>>, <<>>, f, f, lo, hi)
      BY <1>2, TurnsNothing
    <3> QED
      BY <3>1, <3>2, WorkNothing
  <2> QED
    BY <2>1, <2>2
<1>7. PICK R : /\ Work(c, R)
               /\ \A f : IsFile(f) /\ Safe(f, lo, hi) /\ AreNew(f, lo, n.Size) =>
                    \E g : Turns(c, R, f, g, lo, hi) /\ AreNew(g, lo, n.Size)
  BY <1>6
<1>8. PartCommands(from, o, to, n) = commands
  <2>1. PartCommands(from, o, to, n) = a \o b \o c
    BY DEF PartCommands
  <2> HIDE DEF a, b, c
  <2> QED
    BY <2>1
<1> HIDE DEF a, b, c, lo, hi, common
<1>9. Work(commands, (P \o Q) \o R)
  <2>1. Work(a \o b, P \o Q)
    BY <1>3, <1>5, WorkConcat
  <2> QED
    BY <2>1, <1>7, WorkConcat
<1>10. ASSUME from # to /\ o.Size # 0 /\ n.Size # 0 => n.Offset = o.Offset,
              NEW f, IsFile(f), Safe(f, lo, hi), AreOld(f, to + o.Offset, from + o.Offset, common)
       PROVE  \E g : Turns(commands, (P \o Q) \o R, f, g, lo, hi) /\ AreNew(g, lo, n.Size)
  <2>1. MoveStart(from, o, to, n, f)
    <3> SUFFICES ASSUME NEW k \in 0 .. (common - 1)
                 PROVE  LET x == IF n.Offset # o.Offset THEN from + o.Offset + k ELSE to + n.Offset + k
                        IN x \in DOMAIN f /\ f[x] = old.Bytes[from + o.Offset + k]
      BY DEF MoveStart, common
    <3>1. to + o.Offset + k \in DOMAIN f /\ f[to + o.Offset + k] = old.Bytes[from + o.Offset + k]
      BY <1>10 DEF AreOld
    <3>2. o.Size # 0 /\ n.Size # 0
      BY <1>1, <1>2
    <3>3. n.Offset # o.Offset => from = to
      BY <1>10, <3>2
    <3> QED
      BY <3>1, <3>3
  <2>2. to + n.Offset = lo
    BY DEF lo
  <2>3. PICK g : Turns(a, P, f, g, lo, hi) /\ MoveDone(from, o, to, n, g)
    BY <1>2, <1>3, <1>10, <2>1, <2>2 DEF common
  <2>4. AreOld(g, lo, from + o.Offset, common)
    BY <2>3 DEF MoveDone, AreOld, lo, common
  <2>5. IsFile(g) /\ Safe(g, lo, hi)
    BY <2>3 DEF Turns
  <2>6. PICK h : Turns(b, Q, g, h, lo, hi) /\ AreNew(h, lo, n.Size)
    BY <1>5, <2>4, <2>5
  <2>7. IsFile(h) /\ Safe(h, lo, hi)
    BY <2>6 DEF Turns
  <2>8. PICK l : Turns(c, R, h, l, lo, hi) /\ AreNew(l, lo, n.Size)
    BY <1>7, <2>6, <2>7
  <2>9. Placed(a, P) /\ Placed(b, Q) /\ Placed(c, R) /\ Placed(a \o b, P \o Q)
    BY <1>3, <1>5, <1>7, PlacedConcat DEF Work
  <2>10. Turns(a \o b, P \o Q, f, h, lo, hi)
    BY <1>2, <1>10, <2>3, <2>6, <2>9, TurnsTwice
  <2>11. Turns(commands, (P \o Q) \o R, f, l, lo, hi)
    BY <1>2, <1>10, <2>8, <2>9, <2>10, TurnsTwice
  <2> QED
    BY <2>8, <2>11
<1>11. ASSUME from # to /\ o.Size # 0 /\ n.Size # 0 => n.Offset = o.Offset
       PROVE  PartLeads(from, o, to, n, (P \o Q) \o R)
  BY <1>8, <1>10, <1>11 DEF PartLeads, lo, hi, common
<1> QED
  BY <1>8, <1>9, <1>11

\* Nothing is done about a part that is the same.
LEMMA PartCommandsNothing ==
  ASSUME NEW from \in Nat, NEW o \in Entry, NEW to \in Nat, NEW n \in Entry, n.Size = o.Size,
         n.Size # 0 => n.Offset = o.Offset,
         \A k \in 0 .. (n.Size - 1) : new.Bytes[to + n.Offset + k] = old.Bytes[from + o.Offset + k]
  PROVE  PartCommands(from, o, to, n) = <<>>
<1>1. o.Offset \in Nat /\ o.Size \in Nat /\ n.Offset \in Nat /\ n.Size \in Nat
  BY DEF Entry
<1> DEFINE a == from + o.Offset
           b == to + n.Offset
           w == IF n.Size # 0 THEN Writes(a, o.Size, b, n.Size) ELSE <<>>
<1>2. a \in Nat /\ b \in Nat
  BY <1>1
<1>3. \A k \in 0 .. (n.Size - 1) : ~Differs(a, o.Size, b, n.Size, k)
  BY <1>1 DEF Differs, Common
<1>4. Writes(a, o.Size, b, n.Size) = <<>>
  <2> HIDE DEF a, b
  <2> QED
    BY <1>1, <1>2, <1>3, NothingWritten
<1>5. w = <<>>
  BY <1>4
<1>6. MoveTo(from, o, to, n) = <<>>
  BY DEF MoveTo
<1>7. PartCommands(from, o, to, n) = MoveTo(from, o, to, n) \o w \o <<>>
  <2>1. ~(n.Size < o.Size)
    BY <1>1
  <2> QED
    BY <2>1 DEF PartCommands
<1> HIDE DEF w
<1>8. <<>> \o <<>> = <<>>
  BY NoSeq, ConcatNothing
<1> QED
  BY <1>5, <1>6, <1>7, <1>8

-----------------------------------------------------------------------------
(* What the headers tell                                                   *)

PartsNew(f, p) == \A i \in Parts : new.Sizes[p][i] # 0 => HasPart(f, p, i)

LEMMA HasPartNew ==
  ASSUME NEW f, NEW p, NEW i, PlaceIn(new, p, i) \in Nat, new.Sizes[p][i] \in Nat
  PROVE  HasPart(f, p, i) <=> AreNew(f, PlaceIn(new, p, i), new.Sizes[p][i])
<1> DEFINE at == PlaceIn(new, p, i)
           size == new.Sizes[p][i]
<1>1. HasPart(f, p, i) <=> \A x \in at .. (at + size - 1) : x \in DOMAIN f /\ f[x] = new.Bytes[x]
  BY DEF HasPart
<1>2. AreNew(f, at, size) <=> \A k \in 0 .. (size - 1) : at + k \in DOMAIN f /\ f[at + k] = new.Bytes[at + k]
  BY DEF AreNew
<1>3. at \in Nat /\ size \in Nat
  OBVIOUS
<1> HIDE DEF at, size
<1>4. ASSUME \A x \in at .. (at + size - 1) : x \in DOMAIN f /\ f[x] = new.Bytes[x], NEW k \in 0 .. (size - 1)
      PROVE  at + k \in DOMAIN f /\ f[at + k] = new.Bytes[at + k]
  BY <1>3, <1>4
<1>5. ASSUME \A k \in 0 .. (size - 1) : at + k \in DOMAIN f /\ f[at + k] = new.Bytes[at + k],
             NEW x \in at .. (at + size - 1)
      PROVE  x \in DOMAIN f /\ f[x] = new.Bytes[x]
  <2>1. x - at \in 0 .. (size - 1) /\ at + (x - at) = x
    BY <1>3
  <2> QED
    BY <1>5, <2>1
<1>6. AreNew(f, at, size) <=> HasPart(f, p, i)
  BY <1>1, <1>2, <1>4, <1>5
<1> QED
  BY <1>6 DEF at, size

LEMMA AllPartsGood ==
  ASSUME NEW f, \A p \in There : PartsNew(f, p)
  PROVE  Good(f) /\ \A c \in Content(new) : HasPart(f, c[1], c[2])
<1>1. ASSUME NEW c \in Content(new)
      PROVE  HasPart(f, c[1], c[2])
  <2>1. c[1] \in Partitions /\ c[2] \in Parts /\ new.Sizes[c[1]][c[2]] # 0
    BY DEF Content
  <2>2. c[1] \in There
    BY <2>1 DEF There, IsThere
  <2> QED
    BY <2>1, <2>2 DEF PartsNew
<1> QED
  BY <1>1 DEF Good

\* Where the parts of a partition are.
LEMMA PlacesInPartition ==
  ASSUME NEW file, IsPlaced(file), NEW p \in Partitions, IsThere(file.Sizes, p), NEW i \in Parts
  PROVE  /\ PlaceIn(file, p, i) = file.Table[p].Offset + PlaceOfPart(file.Sizes[p])[i]
         /\ PlaceOfPart(file.Sizes[p])[i] \in Nat /\ HeaderSize <= PlaceOfPart(file.Sizes[p])[i]
         /\ file.Sizes[p][i] \in Nat /\ PlaceIn(file, p, i) \in Nat
         /\ file.Table[p].Offset + HeaderSize <= PlaceIn(file, p, i)
         /\ PlaceIn(file, p, i) + file.Sizes[p][i] <= EndOf(file.Table[p])
<1> DEFINE s == file.Sizes[p]
           place == PlaceOfPart(s)
<1>1. s \in [Parts -> Nat]
  BY DEF IsPlaced, AllOf
<1>2. file.Table[p].Offset \in Nat /\ file.Table[p].Size = EndOfNcch(s)
  BY PartitionPlaced
<1>3. place \in [Parts -> Nat] /\ HeaderSize <= place[i] /\ place[i] + s[i] <= EndOfNcch(s) /\ EndOfNcch(s) \in Nat
  BY <1>1, PartsInOrder
<1>4. PlaceIn(file, p, i) = file.Table[p].Offset + place[i]
  BY DEF PlaceIn, Place
<1> HIDE DEF s, place
<1>5. s[i] \in Nat /\ place[i] \in Nat
  BY <1>1, <1>3
<1> DEFINE T == file.Table[p].Offset
           at == PlaceIn(file, p, i)
           size == s[i]
           start == place[i]
           end == EndOfNcch(s)
<1>6. T \in Nat /\ size \in Nat /\ start \in Nat /\ end \in Nat /\ HeaderSize = 2
  BY <1>2, <1>3, <1>5, Numbers
<1>7. at = T + start /\ HeaderSize <= start /\ start + size <= end
  BY <1>3, <1>4
<1>8. EndOf(file.Table[p]) = T + end
  BY <1>2 DEF EndOf
<1> HIDE DEF T, at, size, start, end
<1>9. at \in Nat /\ T + HeaderSize <= at /\ at + size <= T + end
  BY <1>6, <1>7
<1> QED
  BY <1>6, <1>7, <1>8, <1>9 DEF s, place, T, at, size, start, end

\* An old partition that has the header of the new one has its parts.
LEMMA OldIsNew ==
  ASSUME Laid, PreTidy, HeaderTells, kind # "file", NEW p \in There, Place(old, p) = Place(new, p),
         NEW f, AreOld(f, Place(old, p), Place(old, p), old.Table[p].Size),
         f[Place(new, p) + 1] = new.Bytes[Place(new, p) + 1]
  PROVE  PartsNew(f, p) /\ \A i \in Parts : SamePart(p, i)
<1> DEFINE T == new.Table[p].Offset
           so == old.Table[p].Size
<1>1. p \in Partitions /\ IsThere(new.Sizes, p) /\ IsThere(old.Sizes, p)
  BY DEF There, PreTidy, NoPartitionAdded
<1>2. IsPlaced(old) /\ IsPlaced(new)
  BY LaidPlaced
<1>3. T \in Nat /\ so \in Nat /\ HeaderSize <= so /\ old.Table[p].Offset = T
  BY <1>1, <1>2, PartitionPlaced DEF Place
<1> HIDE DEF T, so
<1>4. \A k \in 0 .. (so - 1) : T + k \in DOMAIN f /\ f[T + k] = old.Bytes[T + k]
  BY <1>3 DEF AreOld, Place, so
<1>5. f[T + 1] = OldHeader(p)
  <2>1. 1 \in 0 .. (so - 1)
    BY <1>3, Numbers
  <2>2. f[T + 1] = old.Bytes[T + 1]
    BY <1>4, <2>1
  <2>3. old.Bytes[old.Table[p].Offset + 1] = OldHeader(p)
    BY <1>1, LaidPlaced
  <2> QED
    BY <2>2, <2>3, <1>3
<1>6. \A i \in Parts : SamePart(p, i)
  <2>1. new.Bytes[Place(new, p) + 1] = OldHeader(p)
    BY <1>5 DEF T, Place
  <2> QED
    BY <2>1 DEF HeaderTells
<1>7. old.Sizes[p] = new.Sizes[p]
  <2>1. old.Sizes[p] \in [Parts -> Nat] /\ new.Sizes[p] \in [Parts -> Nat]
    BY <1>1, <1>2 DEF IsPlaced, AllOf
  <2>2. \A i \in Parts : old.Sizes[p][i] = new.Sizes[p][i]
    BY <1>6 DEF SamePart
  <2> QED
    BY <2>1, <2>2
<1>8. ASSUME NEW i \in Parts
      PROVE  HasPart(f, p, i)
  <2> DEFINE at == PlaceOfPart(new.Sizes[p])[i]
             size == new.Sizes[p][i]
             x == T + at
  <2>1. /\ PlaceIn(new, p, i) = x /\ at \in Nat /\ size \in Nat /\ x \in Nat
    BY <1>1, <1>2, PlacesInPartition DEF T
  <2>2. /\ PlaceIn(old, p, i) = x /\ x + size <= T + so
    BY <1>1, <1>2, <1>3, <1>7, PlacesInPartition DEF EndOf, so
  <2> HIDE DEF at, size
  <2>3. \A k \in 0 .. (size - 1) : old.Bytes[x + k] = new.Bytes[x + k]
    BY <1>6, <2>1, <2>2 DEF SamePart, size
  <2>4. ASSUME NEW k \in 0 .. (size - 1)
        PROVE  x + k \in DOMAIN f /\ f[x + k] = new.Bytes[x + k]
    <3>1. at + k \in 0 .. (so - 1) /\ T + (at + k) = x + k
      BY <1>3, <2>1, <2>2
    <3>2. T + (at + k) \in DOMAIN f /\ f[T + (at + k)] = old.Bytes[T + (at + k)]
      BY <3>1, <1>4
    <3> QED
      BY <3>1, <3>2, <2>3
  <2>5. AreNew(f, x, size)
    BY <2>4 DEF AreNew
  <2> QED
    BY <2>1, <2>5, HasPartNew DEF size
<1> QED
  BY <1>6, <1>8 DEF PartsNew

\* Partitions that lie where they did, unless the table of the NCSD is another one.
LEMMA PlacesSame ==
  ASSUME Laid, kind # "cci" \/ new.Bytes[1] = OldNcsd, NEW p \in There
  PROVE  Place(old, p) = Place(new, p)
<1>1. p \in Partitions /\ IsThere(new.Sizes, p)
  BY DEF There
<1>2. CASE kind = "cci"
  BY <1>2 DEF Laid, Place
<1>3. CASE kind # "cci"
  <2>1. IsPlaced(old) /\ IsPlaced(new)
    BY LaidPlaced
  <2>2. p = 0
    BY <1>1, <1>3, <2>1 DEF IsPlaced
  <2> QED
    BY <2>1, <2>2, <1>1, PartitionPlaced DEF Place
<1> QED
  BY <1>2, <1>3

Untouched(f, p) == AreOld(f, old.Table[p].Offset, old.Table[p].Offset, old.Table[p].Size)

LEMMA NewOrOldIsGood ==
  ASSUME Laid, PreTidy, kind # "file", NEW f, kind = "cci" => f[1] = OldNcsd,
         \A p \in There : PartsNew(f, p) \/ Untouched(f, p)
  PROVE  Good(f)
<1> SUFFICES ASSUME HeaderTells, Claims(f) PROVE \A p \in There : PartsNew(f, p)
  BY AllPartsGood DEF Good
<1>1. kind # "cci" \/ new.Bytes[1] = OldNcsd
  BY DEF Claims
<1> TAKE p \in There
<1>2. Place(old, p) = Place(new, p)
  BY <1>1, PlacesSame
<1>3. f[Place(new, p) + 1] = new.Bytes[Place(new, p) + 1]
  BY DEF Claims
<1>4. Untouched(f, p) => AreOld(f, Place(old, p), Place(old, p), old.Table[p].Size)
  BY DEF Untouched, Place
<1> QED
  BY <1>2, <1>3, <1>4, OldIsNew

\* The parts of a partition under which nothing can be seen to differ.
Quiet(p) ==
  /\ HeaderTells /\ (kind = "cci" => new.Bytes[1] = OldNcsd)
  /\ new.Bytes[new.Table[p].Offset + 1] = OldHeader(p)

\* While the parts of any other are written the header does not hold.
LEMMA HeaderProtects ==
  ASSUME NEW p \in There, ~Quiet(p), kind # "file", NEW f, NEW lo \in Nat, NEW hi \in Nat,
         new.Table[p].Offset \in Nat, new.Table[p].Offset + HeaderSize <= lo,
         kind = "cci" => 1 \in DOMAIN f /\ f[1] = OldNcsd,
         new.Table[p].Offset + 1 \in DOMAIN f, f[new.Table[p].Offset + 1] = OldHeader(p)
  PROVE  Safe(f, lo, hi)
<1> SUFFICES ASSUME NEW h, IsFile(h), Same(f, h, lo, hi), HeaderTells, Claims(h) PROVE FALSE
  BY DEF Safe, Good
<1>1. 1 < lo /\ new.Table[p].Offset + 1 < lo
  BY Numbers
<1>2. kind = "cci" => h[1] = OldNcsd
  BY <1>1 DEF Same
<1>3. h[new.Table[p].Offset + 1] = OldHeader(p)
  BY <1>1 DEF Same
<1> QED
  BY <1>2, <1>3 DEF Quiet, Claims, Place

\* So does the header of the NCSD while a partition is moved.
LEMMA NcsdProtects ==
  ASSUME kind = "cci", new.Bytes[1] # OldNcsd, NEW f, NEW lo \in Nat, NEW hi \in Nat,
         HeaderSize <= lo, 1 \in DOMAIN f, f[1] = OldNcsd
  PROVE  Safe(f, lo, hi)
<1> SUFFICES ASSUME NEW h, IsFile(h), Same(f, h, lo, hi), Claims(h) PROVE FALSE
  BY DEF Safe, Good
<1>1. 1 < lo
  BY Numbers
<1>2. h[1] = OldNcsd
  BY <1>1 DEF Same
<1> QED
  BY <1>2 DEF Claims

-----------------------------------------------------------------------------
(* The parts of a partition                                                *)

\* The file f when the parts in done are, each partition having been moved already.
PartsProgress(f, p, done) ==
  LET T == new.Table[p].Offset
      F == old.Table[p].Offset
      o == old.Parts[p]
      n == new.Parts[p]
  IN
  /\ \A i \in done : AreNew(f, T + n[i].Offset, n[i].Size)
  /\ \A i \in Parts \ done : AreOld(f, T + o[i].Offset, F + o[i].Offset, Common(o[i].Size, n[i].Size))
  /\ AreOld(f, T, F, n[0].Offset)

\* Where the old and the new partition end.
HighEnd(p) == Larger(EndOf(new.Table[p]), EndOf(old.Table[p]))

LEMMA QuietSame ==
  ASSUME Laid, PreTidy, kind # "file", NEW p \in There, Quiet(p), NEW i \in Parts
  PROVE  LET o == old.Parts[p][i]
             n == new.Parts[p][i]
         IN /\ n.Size = o.Size /\ (n.Size # 0 => n.Offset = o.Offset)
            /\ \A k \in 0 .. (n.Size - 1) : new.Bytes[new.Table[p].Offset + n.Offset + k] =
                                            old.Bytes[old.Table[p].Offset + o.Offset + k]
<1> DEFINE T == new.Table[p].Offset
           F == old.Table[p].Offset
           o == old.Parts[p]
           n == new.Parts[p]
           a == new.Sizes[p]
           place == PlaceOfPart(a)
           k == KindOf(kind, p)
<1>1. p \in Partitions /\ IsThere(new.Sizes, p) /\ IsThere(old.Sizes, p)
  BY DEF There, PreTidy, NoPartitionAdded
<1>2. IsPlaced(old) /\ IsPlaced(new)
  BY LaidPlaced
<1>3. \A j \in Parts : SamePart(p, j)
  BY DEF Quiet, HeaderTells, Place
<1>4. old.Sizes[p] = a
  <2>1. old.Sizes[p] \in [Parts -> Nat] /\ new.Sizes[p] \in [Parts -> Nat]
    BY <1>1, <1>2 DEF IsPlaced, AllOf
  <2>2. \A j \in Parts : old.Sizes[p][j] = new.Sizes[p][j]
    BY <1>3 DEF SamePart
  <2> QED
    BY <2>1, <2>2
<1>5. IsPartTable(o, k, a) /\ IsPartTable(n, k, a)
  BY <1>1, <1>2, <1>4 DEF IsPlaced
<1> HIDE DEF T, F, o, n, a, place, k
<1>6. /\ n[i].Size = o[i].Size
      /\ n[i].Size # 0 => n[i].Offset = place[i] /\ o[i].Offset = place[i] /\ n[i].Size = a[i]
  BY <1>5 DEF IsPartTable, place
<1>7. PlaceIn(new, p, i) = T + place[i] /\ PlaceIn(old, p, i) = F + place[i]
  BY <1>4 DEF PlaceIn, Place, T, F, place, a
<1>8. \A m \in 0 .. (a[i] - 1) : old.Bytes[F + place[i] + m] = new.Bytes[T + place[i] + m]
  BY <1>3, <1>7 DEF SamePart, a
<1>9. n[i].Size \in Nat
  BY <1>5 DEF IsPartTable, Entry
<1>10. ASSUME NEW m \in 0 .. (n[i].Size - 1)
       PROVE  new.Bytes[T + n[i].Offset + m] = old.Bytes[F + o[i].Offset + m]
  <2>1. n[i].Size # 0
    BY <1>9
  <2> QED
    BY <2>1, <1>6, <1>8
<1> QED
  BY <1>6, <1>10 DEF T, F, o, n

\* What lies in front of where a part goes, or behind where it comes from and goes, is apart from the bytes
\* its commands write.
LEMMA Beside ==
  ASSUME NEW T \in Nat, NEW o \in Entry, NEW n \in Entry, NEW at \in Nat, NEW size \in Nat,
         \/ at + size <= n.Offset
         \/ EndOf(o) <= at /\ EndOf(n) <= at /\ (n.Size < o.Size => n.Offset <= o.Offset)
  PROVE  T + at + size <= T + n.Offset \/ T + n.Offset + Larger(o.Size, n.Size) <= T + at
<1>1. o.Offset \in Nat /\ o.Size \in Nat /\ n.Offset \in Nat /\ n.Size \in Nat
  BY DEF Entry
<1>2. CASE at + size <= n.Offset
  BY <1>1, <1>2
<1>3. CASE EndOf(o) <= at /\ EndOf(n) <= at /\ (n.Size < o.Size => n.Offset <= o.Offset)
  BY <1>1, <1>3 DEF EndOf, Larger
<1> QED
  BY <1>2, <1>3

\* Where those bytes are.
LEMMA WhereWritten ==
  ASSUME NEW T \in Nat, NEW F \in Nat, NEW so \in Nat, NEW sn \in Nat, NEW start \in Nat,
         NEW o \in Entry, NEW n \in Entry, EndOf(o) <= so, EndOf(n) <= sn,
         HeaderSize <= start, start <= n.Offset, n.Size < o.Size => T + n.Offset <= F + o.Offset
  PROVE  LET lo == T + n.Offset
             hi == T + n.Offset + Larger(o.Size, n.Size)
         IN /\ lo \in Nat /\ hi \in Nat /\ lo <= hi /\ T + start <= lo /\ T + HeaderSize <= lo
            /\ hi <= Larger(T + sn, F + so) /\ Larger(T + sn, F + so) \in Nat
<1> DEFINE a == o.Offset
           b == n.Offset
           c == o.Size
           d == n.Size
           m == Larger(c, d)
           end == Larger(T + sn, F + so)
<1>1. a \in Nat /\ b \in Nat /\ c \in Nat /\ d \in Nat /\ HeaderSize = 2
  BY Numbers DEF Entry
<1>2. a + c <= so /\ b + d <= sn /\ start <= b /\ (d < c => T + b <= F + a)
  BY DEF EndOf
<1>3. m \in Nat /\ m = IF c > d THEN c ELSE d
  BY <1>1 DEF Larger
<1>4. end \in Nat /\ T + sn <= end /\ F + so <= end
  BY DEF Larger
<1> HIDE DEF a, b, c, d, m, end
<1>5. T + b + d <= T + sn
  BY <1>1, <1>2
<1>6. d < c => T + b + c <= F + so
  BY <1>1, <1>2
<1>7. T + b + m <= end
  <2>1. CASE c > d
    BY <2>1, <1>1, <1>3, <1>4, <1>6
  <2>2. CASE ~(c > d)
    BY <2>2, <1>1, <1>3, <1>4, <1>5
  <2> QED
    BY <2>1, <2>2
<1>8. T + b \in Nat /\ T + b + m \in Nat /\ T + b <= T + b + m /\ T + start <= T + b /\ T + HeaderSize <= T + b
  BY <1>1, <1>2, <1>3
<1> QED
  BY <1>4, <1>7, <1>8 DEF b, m, c, d, end

\* Where a turn of the loop over the parts begins.
AtTurn(p, done, i, commands, P, f) ==
  /\ Laid /\ PreTidy /\ kind # "file" /\ Apart(old.Parts[p], new.Parts[p], done)
  /\ Ready(old.Parts[p], new.Parts[p], done) # {} /\ i = Turn(Ready(old.Parts[p], new.Parts[p], done))
  /\ commands = PartCommands(old.Table[p].Offset, old.Parts[p][i], new.Table[p].Offset, new.Parts[p][i])
  /\ Work(commands, P)
  /\ PartLeads(old.Table[p].Offset, old.Parts[p][i], new.Table[p].Offset, new.Parts[p][i], P)
  /\ IsFile(f) /\ Good(f) /\ PartsProgress(f, p, done) /\ (kind = "cci" => 1 \in DOMAIN f /\ f[1] = OldNcsd)

\* A turn of the loop over the parts.
LEMMA PartTurn ==
  ASSUME NEW p \in There, NEW done \in SUBSET Parts, NEW i, NEW commands, NEW P, NEW f,
         AtTurn(p, done, i, commands, P, f)
  PROVE  \E g : /\ Leads(commands, P, f, g) /\ IsFile(g) /\ Good(g)
                /\ Same(f, g, new.Table[p].Offset + new.Parts[p][0].Offset, HighEnd(p))
                /\ PartsProgress(g, p, done \cup {i})
<1> DEFINE T == new.Table[p].Offset
           F == old.Table[p].Offset
           so == old.Table[p].Size
           sn == new.Table[p].Size
           o == old.Parts[p]
           n == new.Parts[p]
           start == n[0].Offset
           lo == T + n[i].Offset
           hi == T + n[i].Offset + Larger(o[i].Size, n[i].Size)
           common(j) == Common(o[j].Size, n[j].Size)
<1>h. Laid /\ PreTidy /\ kind # "file" /\ IsFile(f) /\ Good(f)
  BY DEF AtTurn
<1>1. p \in Partitions /\ IsThere(new.Sizes, p) /\ IsThere(old.Sizes, p)
  BY <1>h DEF There, PreTidy, NoPartitionAdded
<1>2. Related(p)
  BY <1>h, RelatedParts
<1>3. /\ T \in Nat /\ F \in Nat /\ start \in Nat /\ so \in Nat /\ sn \in Nat /\ HeaderSize <= start
      /\ start <= so /\ start <= sn
      /\ o \in [Parts -> Entry] /\ n \in [Parts -> Entry] /\ Ordered(o, LastPart) /\ Ordered(n, LastPart)
  BY <1>2 DEF Related
<1>4. \A j \in Parts :
        /\ EndOf(o[j]) <= so /\ EndOf(n[j]) <= sn /\ start <= n[j].Offset
        /\ n[j].Size < o[j].Size => T + n[j].Offset <= F + o[j].Offset
        /\ T # F /\ j # LastPart => o[j].Size = 0 /\ n[j].Size = 0
  BY <1>2 DEF Related
<1>5. \A j \in Parts : /\ o[j] \in Entry /\ n[j] \in Entry
                       /\ o[j].Offset \in Nat /\ o[j].Size \in Nat /\ n[j].Offset \in Nat /\ n[j].Size \in Nat
                       /\ EndOf(o[j]) = o[j].Offset + o[j].Size /\ EndOf(n[j]) = n[j].Offset + n[j].Size
  BY <1>3 DEF Entry, EndOf
<1>7. /\ \A j \in done : AreNew(f, T + n[j].Offset, n[j].Size)
      /\ \A j \in Parts \ done : AreOld(f, T + o[j].Offset, F + o[j].Offset, common(j))
      /\ AreOld(f, T, F, start)
  <2>1. PartsProgress(f, p, done)
    BY DEF AtTurn
  <2> QED
    BY <2>1 DEF PartsProgress
<1>6. i \in Parts \ done /\ Free(o, n, done, i)
  <2>3. Apart(o, n, done) /\ Ready(o, n, done) # {} /\ i = Turn(Ready(o, n, done))
    BY DEF AtTurn, o, n
  <2> HIDE DEF T, F, so, sn, o, n, start, lo, hi, common
  <2>1. o \in [0 .. LastPart -> Entry] /\ n \in [0 .. LastPart -> Entry] /\ done \in SUBSET (0 .. LastPart)
    BY <1>3, Numbers
  <2>2. LastPart \in Nat
    BY Numbers
  <2>4. /\ Turn(Ready(o, n, done)) \in (0 .. LastPart) \ done
        /\ Free(o, n, done, Turn(Ready(o, n, done)))
    BY <1>3, <2>1, <2>2, <2>3, TurnIsFree
  <2> QED
    BY <2>3, <2>4, Numbers
<1>8. DOMAIN n = Parts
  BY <1>3
<1>a. commands = PartCommands(F, o[i], T, n[i]) /\ PartLeads(F, o[i], T, n[i], P) /\ Work(commands, P)
  BY DEF AtTurn, T, F, o, n
<1>b. /\ i \in Parts /\ i \notin done /\ o[i] \in Entry /\ n[i] \in Entry /\ o[i].Offset \in Nat /\ o[i].Size \in Nat
      /\ n[i].Offset \in Nat /\ n[i].Size \in Nat
  BY <1>6, <1>5
<1>c. /\ EndOf(o[i]) = o[i].Offset + o[i].Size /\ EndOf(n[i]) = n[i].Offset + n[i].Size
      /\ EndOf(o[i]) <= so /\ EndOf(n[i]) <= sn /\ start <= n[i].Offset
      /\ n[i].Size < o[i].Size => T + n[i].Offset <= F + o[i].Offset
  BY <1>b, <1>5, <1>4
<1>d. /\ lo \in Nat /\ hi \in Nat /\ lo <= hi /\ T + start <= lo /\ T + HeaderSize <= lo
      /\ hi <= HighEnd(p) /\ HighEnd(p) \in Nat
  <2>1. HighEnd(p) = Larger(T + sn, F + so)
    BY DEF HighEnd, EndOf
  <2> HIDE DEF T, F, so, sn, o, n, start
  <2> DEFINE x == o[i]
             y == n[i]
  <2>2. /\ x \in Entry /\ y \in Entry /\ EndOf(x) <= so /\ EndOf(y) <= sn /\ start <= y.Offset
        /\ y.Size < x.Size => T + y.Offset <= F + x.Offset
    BY <1>b, <1>c
  <2>3. T \in Nat /\ F \in Nat /\ so \in Nat /\ sn \in Nat /\ start \in Nat /\ HeaderSize <= start
    BY <1>3
  <2> HIDE DEF x, y
  <2>4. /\ T + y.Offset \in Nat /\ T + y.Offset + Larger(x.Size, y.Size) \in Nat
        /\ T + y.Offset <= T + y.Offset + Larger(x.Size, y.Size)
        /\ T + start <= T + y.Offset /\ T + HeaderSize <= T + y.Offset
        /\ T + y.Offset + Larger(x.Size, y.Size) <= Larger(T + sn, F + so) /\ Larger(T + sn, F + so) \in Nat
    <3>1. x \in Entry /\ y \in Entry
      BY <2>2
    <3> QED
      BY <2>2, <2>3, <3>1, WhereWritten, Zenon
  <2> QED
    BY <2>1, <2>4 DEF x, y, lo, hi
<1> HIDE DEF T, F, so, sn, o, n, start, lo, hi, common
<1>9. CASE Quiet(p)
  <2>1. /\ n[i].Size = o[i].Size /\ (n[i].Size # 0 => n[i].Offset = o[i].Offset)
        /\ \A k \in 0 .. (n[i].Size - 1) : new.Bytes[T + n[i].Offset + k] = old.Bytes[F + o[i].Offset + k]
    BY <1>h, <1>b, <1>9, QuietSame DEF T, F, o, n
  <2>2. commands = <<>>
    <3> DEFINE x == o[i]
               y == n[i]
    <3>1. x \in Entry /\ y \in Entry /\ y.Size = x.Size /\ (y.Size # 0 => y.Offset = x.Offset)
      BY <2>1, <1>b
    <3>2. \A k \in 0 .. (y.Size - 1) : new.Bytes[T + y.Offset + k] = old.Bytes[F + x.Offset + k]
      BY <2>1
    <3> HIDE DEF x, y
    <3>3. PartCommands(F, x, T, y) = <<>>
      BY <3>1, <3>2, <1>3, PartCommandsNothing
    <3> QED
      BY <3>3, <1>a DEF x, y
  <2>3. P = <<>>
    <3>1. IsSeq(P) /\ Len(P) = 0
      BY <1>a, <2>2, NoSeq DEF Work, Placed, Paired
    <3> QED
      BY <3>1, EmptySeq DEF IsSeq
  <2>4. Leads(commands, P, f, f)
    BY <1>h, <2>2, <2>3, LeadsNothing
  <2>5. AreNew(f, T + n[i].Offset, n[i].Size)
    <3> SUFFICES ASSUME NEW k \in 0 .. (n[i].Size - 1)
                 PROVE  T + n[i].Offset + k \in DOMAIN f /\ f[T + n[i].Offset + k] = new.Bytes[T + n[i].Offset + k]
      BY DEF AreNew
    <3>0. n[i].Size # 0
      BY <1>b
    <3>x. n[i].Size = o[i].Size
      BY <2>1
    <3>y. common(i) = Common(o[i].Size, n[i].Size)
      BY DEF common
    <3>1. n[i].Size # 0 /\ common(i) = n[i].Size
      BY <3>0, <3>x, <3>y, <1>b DEF Common
    <3>2. AreOld(f, T + o[i].Offset, F + o[i].Offset, n[i].Size)
      BY <3>1, <1>6, <1>7
    <3>3. T + o[i].Offset + k \in DOMAIN f /\ f[T + o[i].Offset + k] = old.Bytes[F + o[i].Offset + k]
      BY <3>2 DEF AreOld
    <3> QED
      BY <3>1, <3>3, <2>1
  <2>6. PartsProgress(f, p, done \cup {i})
    <3>1. \A j \in done \cup {i} : AreNew(f, T + n[j].Offset, n[j].Size)
      BY <2>5, <1>7
    <3>2. \A j \in Parts \ (done \cup {i}) : AreOld(f, T + o[j].Offset, F + o[j].Offset, common(j))
      BY <1>7
    <3> QED
      BY <3>1, <3>2, <1>7 DEF PartsProgress, T, F, o, n, common, start
  <2>7. Same(f, f, T + start, HighEnd(p))
    <3>1. T + start \in Nat
      BY <1>3
    <3>2. HighEnd(p) \in Nat
      BY <1>d
    <3> QED
      BY <1>h, <3>1, <3>2, SameAsItself
  <2> QED
    BY <1>h, <2>4, <2>6, <2>7 DEF T, n, start
<1>10. CASE ~Quiet(p)
  <2>1. T + 1 \in DOMAIN f /\ f[T + 1] = OldHeader(p)
    <3>1. 1 \in 0 .. (start - 1)
      BY <1>3, Numbers
    <3>2. T + 1 \in DOMAIN f /\ f[T + 1] = old.Bytes[F + 1]
      BY <3>1, <1>7 DEF AreOld
    <3> QED
      BY <3>2, <1>h, <1>1, LaidPlaced DEF F
  <2>2. lo \in Nat /\ hi \in Nat /\ lo <= hi /\ T + start <= lo /\ T + HeaderSize <= lo
    BY <1>d
  <2>3. Safe(f, lo, hi)
    <3>1. new.Table[p].Offset \in Nat /\ new.Table[p].Offset + HeaderSize <= lo
          /\ new.Table[p].Offset + 1 \in DOMAIN f /\ f[new.Table[p].Offset + 1] = OldHeader(p)
      BY <1>3, <2>1, <2>2 DEF T
    <3>2. kind = "cci" => 1 \in DOMAIN f /\ f[1] = OldNcsd
      BY DEF AtTurn
    <3> QED
      BY <3>1, <3>2, <2>2, <1>h, <1>10, HeaderProtects
  <2>4. AreOld(f, T + o[i].Offset, F + o[i].Offset, common(i))
    <3>1. \A j \in Parts \ done : AreOld(f, T + o[j].Offset, F + o[j].Offset, common(j))
      BY <1>7
    <3>2. i \in Parts \ done
      BY <1>6
    <3> QED
      BY <3>1, <3>2
  <2>5. PICK g : Turns(commands, P, f, g, lo, hi) /\ AreNew(g, lo, n[i].Size)
    BY <1>h, <2>3, <2>4, <1>a DEF PartLeads, lo, hi, common
  <2>6. Leads(commands, P, f, g) /\ IsFile(g) /\ Same(f, g, lo, hi) /\ Good(g)
    BY <1>h, <2>2, <2>3, <2>5, SafeAfter DEF Turns
  <2>e. \A at \in Nat : \A size \in Nat :
          \/ at + size <= n[i].Offset
          \/ EndOf(o[i]) <= at /\ EndOf(n[i]) <= at /\ (n[i].Size < o[i].Size => n[i].Offset <= o[i].Offset)
          => T + at + size <= lo \/ hi <= T + at
    BY <1>3, <1>b, Beside DEF lo, hi
  <2>f. ASSUME NEW j \in Parts, j # i, o[j].Size # 0 \/ n[j].Size # 0, n[i].Size < o[i].Size
        PROVE  n[i].Offset <= o[i].Offset
    <3>1. o[i].Size # 0
      BY <2>f, <1>b
    <3>2. T = F
      BY <3>1, <2>f, <1>4, <1>b
    <3>3. T + n[i].Offset <= T + o[i].Offset
      BY <3>2, <2>f, <1>c
    <3> QED
      BY <3>3, <1>3, <1>b
  <2>8. ASSUME NEW j \in done
        PROVE  AreNew(g, T + n[j].Offset, n[j].Size)
    <3>1. j \in Parts /\ j # i /\ n[j].Offset \in Nat /\ n[j].Size \in Nat
          /\ EndOf(n[j]) = n[j].Offset + n[j].Size
      BY <1>b, <1>5
    <3>a. IF j < i THEN EndOf(n[j]) <= n[i].Offset
          ELSE EndOf(o[i]) <= n[j].Offset /\ EndOf(n[i]) <= n[j].Offset
      BY <1>6 DEF Free
    <3>2. n[j].Size # 0 => T + n[j].Offset + n[j].Size <= lo \/ hi <= T + n[j].Offset
      BY <3>1, <3>a, <2>e, <2>f
    <3>3. AreNew(f, T + n[j].Offset, n[j].Size) /\ T + n[j].Offset \in Nat
      BY <3>1, <1>3, <1>7
    <3> DEFINE at == T + n[j].Offset
    <3>4. at \in Nat /\ AreNew(f, at, n[j].Size) /\ (n[j].Size # 0 => at + n[j].Size <= lo \/ hi <= at)
      BY <3>2, <3>3
    <3> HIDE DEF at
    <3>5. AreNew(g, at, n[j].Size)
      BY <1>h, <3>1, <3>4, <2>2, <2>6, AreNewKept
    <3> QED
      BY <3>5 DEF at
  <2>9. ASSUME NEW j \in Parts \ (done \cup {i})
        PROVE  AreOld(g, T + o[j].Offset, F + o[j].Offset, common(j))
    <3>1. j \in Parts /\ j \notin done /\ j # i /\ o[j].Offset \in Nat /\ o[j].Size \in Nat /\ n[j].Size \in Nat
          /\ EndOf(o[j]) = o[j].Offset + o[j].Size
      BY <1>5
    <3>2. common(j) \in Nat /\ common(j) <= o[j].Size /\ (common(j) # 0 => o[j].Size # 0)
      BY <3>1 DEF Common, common
    <3>a. IF j < i THEN EndOf(o[j]) <= n[i].Offset
          ELSE EndOf(o[i]) <= o[j].Offset /\ EndOf(n[i]) <= o[j].Offset
      BY <3>1, <1>6, <1>8 DEF Free
    <3>b. o[j].Offset + common(j) <= EndOf(o[j])
      BY <3>1, <3>2
    <3>c. n[i].Offset \in Nat
      BY <1>b
    <3>d. j < i => o[j].Offset + common(j) <= n[i].Offset
      BY <3>a, <3>b, <3>1, <3>2, <3>c
    <3>e. common(j) # 0 =>
            \/ o[j].Offset + common(j) <= n[i].Offset
            \/ /\ EndOf(o[i]) <= o[j].Offset /\ EndOf(n[i]) <= o[j].Offset
               /\ n[i].Size < o[i].Size => n[i].Offset <= o[i].Offset
      BY <3>1, <3>2, <3>a, <3>d, <2>f
    <3>3. common(j) # 0 => T + o[j].Offset + common(j) <= lo \/ hi <= T + o[j].Offset
      <4> DEFINE at == o[j].Offset
                 size == common(j)
      <4>1. at \in Nat /\ size \in Nat
        BY <3>1, <3>2
      <4>2. size # 0 =>
              \/ at + size <= n[i].Offset
              \/ EndOf(o[i]) <= at /\ EndOf(n[i]) <= at /\ (n[i].Size < o[i].Size => n[i].Offset <= o[i].Offset)
        BY <3>e
      <4> HIDE DEF at, size
      <4>3. size # 0 => T + at + size <= lo \/ hi <= T + at
        BY <4>1, <4>2, <2>e
      <4> QED
        BY <4>3 DEF at, size
    <3>4. AreOld(f, T + o[j].Offset, F + o[j].Offset, common(j)) /\ T + o[j].Offset \in Nat /\ F + o[j].Offset \in Nat
      BY <3>1, <1>3, <1>7
    <3> DEFINE at == T + o[j].Offset
               from == F + o[j].Offset
               size == common(j)
    <3>5. /\ at \in Nat /\ from \in Nat /\ size \in Nat /\ AreOld(f, at, from, size)
          /\ size # 0 => at + size <= lo \/ hi <= at
      BY <3>2, <3>3, <3>4
    <3> HIDE DEF at, from, size
    <3>6. AreOld(g, at, from, size)
      BY <1>h, <3>5, <2>2, <2>6, AreOldKept
    <3> QED
      BY <3>6 DEF at, from, size
  <2>10. AreOld(g, T, F, start)
    BY <1>h, <2>2, <2>6, <1>3, <1>7, AreOldKept
  <2>11. PartsProgress(g, p, done \cup {i})
    <3>1. AreNew(g, T + n[i].Offset, n[i].Size)
      BY <2>5 DEF lo
    <3>2. \A j \in done \cup {i} : AreNew(g, T + n[j].Offset, n[j].Size)
      BY <3>1, <2>8
    <3> QED
      BY <3>2, <2>9, <2>10 DEF PartsProgress, T, F, o, n, common, start
  <2>12. Same(f, g, T + start, HighEnd(p))
    <3>1. HighEnd(p) \in Nat
      BY <1>d
    <3>2. hi <= HighEnd(p)
      BY <1>d
    <3> DEFINE low == T + start
    <3>3. low \in Nat /\ low <= lo
      BY <1>3, <2>2
    <3> HIDE DEF low
    <3>4. Same(f, g, low, HighEnd(p))
      BY <1>h, <3>1, <3>2, <3>3, <2>2, <2>6, SameWider
    <3> QED
      BY <3>4 DEF low
  <2> QED
    BY <2>6, <2>11, <2>12 DEF T, n, start
<1> QED
  BY <1>9, <1>10


-----------------------------------------------------------------------------
(* The partitions of a card                                                *)

\* What a partition has got when its turn is over.
Finished(f, p) == AreNew(f, new.Table[p].Offset, HeaderSize) /\ PartsNew(f, p)

LEMMA PartsNewKept ==
  ASSUME Laid, NEW p \in There, NEW f, NEW g, NEW lo \in Nat, NEW hi \in Nat, Same(f, g, lo, hi), PartsNew(f, p),
         EndOf(new.Table[p]) <= lo \/ hi <= new.Table[p].Offset + HeaderSize
  PROVE  PartsNew(g, p)
<1>1. p \in Partitions /\ IsThere(new.Sizes, p) /\ IsPlaced(new)
  BY LaidPlaced DEF There
<1> SUFFICES ASSUME NEW i \in Parts, new.Sizes[p][i] # 0 PROVE HasPart(g, p, i)
  BY DEF PartsNew
<1> DEFINE at == PlaceIn(new, p, i)
           size == new.Sizes[p][i]
           T == new.Table[p].Offset
           end == EndOf(new.Table[p])
<1>2. at \in Nat /\ size \in Nat /\ T + HeaderSize <= at /\ at + size <= end
  BY <1>1, PlacesInPartition
<1>3. T \in Nat /\ end \in Nat
  BY <1>1, PartitionPlaced DEF EndOf
<1>4. AreNew(f, at, size)
  BY <1>2, HasPartNew DEF PartsNew
<1>5. end <= lo \/ hi <= T + HeaderSize
  OBVIOUS
<1> HIDE DEF at, size, T, end
<1>6. at + size <= lo \/ hi <= at
  BY <1>2, <1>3, <1>5, Numbers
<1>7. AreNew(g, at, size)
  BY <1>2, <1>4, <1>6, AreNewKept
<1> QED
  BY <1>2, <1>7, HasPartNew DEF at, size

LEMMA FinishedKept ==
  ASSUME Laid, NEW p \in There, NEW f, NEW g, NEW lo \in Nat, NEW hi \in Nat, Same(f, g, lo, hi), Finished(f, p),
         EndOf(new.Table[p]) <= lo \/ hi <= new.Table[p].Offset
  PROVE  Finished(g, p)
<1>1. p \in Partitions /\ IsThere(new.Sizes, p) /\ IsPlaced(new)
  BY LaidPlaced DEF There
<1> DEFINE T == new.Table[p].Offset
           end == EndOf(new.Table[p])
<1>2. T \in Nat /\ end \in Nat /\ T + HeaderSize <= end
  <2> DEFINE s == new.Table[p].Size
  <2>1. T \in Nat /\ s \in Nat /\ HeaderSize <= s
    BY <1>1, PartitionPlaced
  <2>2. end = T + s
    BY DEF EndOf
  <2> HIDE DEF T, end, s
  <2> QED
    BY <2>1, <2>2, Numbers
<1>3. AreNew(f, T, HeaderSize) /\ PartsNew(f, p)
  BY DEF Finished
<1>4. end <= lo \/ hi <= T
  OBVIOUS
<1>5. PartsNew(g, p)
  <2>1. EndOf(new.Table[p]) <= lo \/ hi <= new.Table[p].Offset + HeaderSize
    <3> HIDE DEF T, end
    <3>1. end <= lo \/ hi <= T + HeaderSize
      BY <1>2, <1>4, Numbers
    <3> QED
      BY <3>1 DEF T, end
  <2> QED
    BY <2>1, <1>3, PartsNewKept
<1> HIDE DEF T, end
<1>6. AreNew(g, T, HeaderSize)
  BY <1>2, <1>3, <1>4, AreNewKept, Numbers
<1> QED
  BY <1>5, <1>6 DEF Finished, T

LEMMA UntouchedKept ==
  ASSUME Laid, NEW p \in Partitions, NEW f, NEW g, NEW lo \in Nat, NEW hi \in Nat, Same(f, g, lo, hi),
         Untouched(f, p), old.Table[p].Size # 0 => EndOf(old.Table[p]) <= lo \/ hi <= old.Table[p].Offset
  PROVE  Untouched(g, p)
<1> DEFINE at == old.Table[p].Offset
           size == old.Table[p].Size
<1>1. at \in Nat /\ size \in Nat
  BY LaidPlaced, PartitionPlaced
<1>2. AreOld(f, at, at, size) /\ (size # 0 => at + size <= lo \/ hi <= at)
  BY DEF Untouched, EndOf
<1> HIDE DEF at, size
<1>3. AreOld(g, at, at, size)
  BY <1>1, <1>2, AreOldKept
<1> QED
  BY <1>3 DEF Untouched, at, size

\* The file around the partitions.
Around(f) ==
  /\ kind = "cci" =>
       /\ 0 \in DOMAIN f /\ 1 \in DOMAIN f /\ f[0] = Magic /\ f[1] = OldNcsd /\ Length(f) = CardSize
       /\ \A x \in Larger(EndOfPartitions(old), EndOfPartitions(new)) .. (CardSize - 1) :
            x \in DOMAIN f /\ f[x] = Filling
  /\ kind # "cci" =>
       Length(old.Bytes) <= Length(f) /\ Length(f) <= Larger(Length(old.Bytes), Length(new.Bytes))

\* The card when the partitions in D are done and those in A are being done.
CardProgress(f, D, A) ==
  /\ \A q \in D \cap There : Finished(f, q)
  /\ \A q \in Partitions \ (D \cup A) : Untouched(f, q)
  /\ Around(f)

\* What is done and what is not lies apart from where partition p comes from and goes.
Room(D, p) ==
  LET T == new.Table[p].Offset
      hi == HighEnd(p)
  IN
  /\ \A q \in D \cap There : EndOf(new.Table[q]) <= T \/ hi <= new.Table[q].Offset
  /\ \A q \in Partitions \ (D \cup {p}) :
       old.Table[q].Size # 0 => EndOf(old.Table[q]) <= T \/ hi <= old.Table[q].Offset

LEMMA HighEndOf ==
  ASSUME Laid, NEW p \in Partitions
  PROVE  /\ HighEnd(p) \in Nat /\ EndOf(new.Table[p]) <= HighEnd(p) /\ EndOf(old.Table[p]) <= HighEnd(p)
         /\ HighEnd(p) = EndOf(new.Table[p]) \/ HighEnd(p) = EndOf(old.Table[p])
         /\ EndOf(new.Table[p]) \in Nat /\ EndOf(old.Table[p]) \in Nat
         /\ EndOfPartitions(new) \in Nat /\ EndOfPartitions(old) \in Nat
         /\ HighEnd(p) <= Larger(EndOfPartitions(old), EndOfPartitions(new))
         /\ EndOfPartitions(old) <= Length(old.Bytes) /\ EndOfPartitions(new) <= Length(new.Bytes)
         /\ Length(old.Bytes) \in Nat /\ Length(new.Bytes) \in Nat
<1>1. IsPlaced(old) /\ IsPlaced(new)
  BY LaidPlaced
<1> DEFINE a == EndOf(old.Table[p])
           b == EndOf(new.Table[p])
           c == EndOfPartitions(old)
           d == EndOfPartitions(new)
<1>2. /\ a \in Nat /\ b \in Nat /\ c \in Nat /\ d \in Nat /\ a <= c /\ b <= d
      /\ c <= Length(old.Bytes) /\ d <= Length(new.Bytes)
      /\ Length(old.Bytes) \in Nat /\ Length(new.Bytes) \in Nat
  <2>1. /\ old.Table[p].Offset \in Nat /\ old.Table[p].Size \in Nat
        /\ new.Table[p].Offset \in Nat /\ new.Table[p].Size \in Nat
    BY <1>1, PartitionPlaced
  <2>2. a \in Nat /\ b \in Nat
    BY <2>1 DEF EndOf
  <2>3. /\ c \in Nat /\ a <= c /\ c <= Length(old.Bytes) /\ Length(old.Bytes) \in Nat
    BY <1>1, PartitionPlaced
  <2>4. /\ d \in Nat /\ b <= d /\ d <= Length(new.Bytes) /\ Length(new.Bytes) \in Nat
    BY <1>1, PartitionPlaced
  <2> QED
    BY <2>2, <2>3, <2>4
<1>3. HighEnd(p) = Larger(b, a)
  BY DEF HighEnd
<1> HIDE DEF a, b, c, d
<1>4. /\ HighEnd(p) \in Nat /\ b <= HighEnd(p) /\ a <= HighEnd(p) /\ HighEnd(p) <= Larger(c, d)
      /\ HighEnd(p) = b \/ HighEnd(p) = a
  BY <1>2, <1>3 DEF Larger
<1> QED
  BY <1>2, <1>4 DEF a, b, c, d

\* A step within a partition leaves everything around it alone.
LEMMA AroundKept ==
  ASSUME Laid, kind # "file", NEW p \in There, NEW f, NEW g, IsFile(f), IsFile(g), Around(f),
         NEW hi, hi = HighEnd(p), Same(f, g, new.Table[p].Offset, hi)
  PROVE  Around(g)
<1> DEFINE T == new.Table[p].Offset
           m == Larger(EndOfPartitions(old), EndOfPartitions(new))
<1>1. p \in Partitions /\ IsThere(new.Sizes, p) /\ IsPlaced(new) /\ IsPlaced(old)
  BY LaidPlaced DEF There
<1>2. /\ hi \in Nat /\ hi <= m /\ m \in Nat
      /\ Length(old.Bytes) \in Nat /\ Length(new.Bytes) \in Nat
      /\ m <= Larger(Length(old.Bytes), Length(new.Bytes))
  <2> DEFINE c == EndOfPartitions(old)
             d == EndOfPartitions(new)
             e == Length(old.Bytes)
             h == Length(new.Bytes)
  <2>1. hi \in Nat /\ c \in Nat /\ d \in Nat /\ hi <= Larger(c, d) /\ c <= e /\ d <= h /\ e \in Nat /\ h \in Nat
    BY <1>1, HighEndOf
  <2> HIDE DEF c, d, e, h
  <2>2. Larger(c, d) \in Nat /\ Larger(c, d) <= Larger(e, h)
    BY <2>1 DEF Larger
  <2> QED
    BY <2>1, <2>2 DEF c, d, e, h
<1>3. T \in Nat /\ FirstPlace(kind) <= T
  BY <1>1, PartitionPlaced
<1>4. Same(f, g, T, hi)
  OBVIOUS
<1> HIDE DEF T, m
<1>5. /\ \A x \in DOMAIN f : x < T \/ hi <= x => x \in DOMAIN g /\ g[x] = f[x]
      /\ Length(f) <= Length(g) /\ (Length(g) <= Length(f) \/ Length(g) <= hi)
      /\ Length(f) \in Nat /\ Length(g) \in Nat
  BY <1>4, FileProperties DEF Same
<1>6. CASE kind = "cci"
  <2>1. /\ 0 \in DOMAIN f /\ 1 \in DOMAIN f /\ f[0] = Magic /\ f[1] = OldNcsd /\ Length(f) = CardSize
        /\ \A x \in m .. (CardSize - 1) : x \in DOMAIN f /\ f[x] = Filling
    BY <1>6 DEF Around, m
  <2>2. 0 < T /\ 1 < T
    BY <1>3, <1>6, Numbers DEF FirstPlace
  <2>3. Length(old.Bytes) = CardSize /\ Length(new.Bytes) = CardSize
    BY <1>1, <1>6 DEF IsPlaced
  <2>4. m <= CardSize
    BY <1>2, <2>3 DEF Larger
  <2>5. Length(g) = CardSize
    BY <1>2, <1>5, <2>1, <2>4, Numbers
  <2>6. \A x \in m .. (CardSize - 1) : x \in DOMAIN g /\ g[x] = Filling
    BY <1>2, <1>5, <2>1, Numbers
  <2>7. 0 \in DOMAIN g /\ 1 \in DOMAIN g /\ g[0] = Magic /\ g[1] = OldNcsd
    BY <1>5, <2>1, <2>2
  <2> QED
    BY <1>6, <2>5, <2>6, <2>7 DEF Around, m
<1>7. CASE kind # "cci"
  <2> DEFINE e == Larger(Length(old.Bytes), Length(new.Bytes))
  <2>1. Length(old.Bytes) <= Length(f) /\ Length(f) <= e
    BY <1>7 DEF Around
  <2>2. e \in Nat /\ m <= e
    BY <1>2 DEF Larger
  <2> HIDE DEF e
  <2>3. Length(old.Bytes) <= Length(g) /\ Length(g) <= e
    BY <1>2, <1>5, <2>1, <2>2
  <2> QED
    BY <1>7, <2>3 DEF Around, e
<1> QED
  BY <1>6, <1>7

LEMMA CardKept ==
  ASSUME Laid, kind # "file", NEW p \in There, NEW D, Room(D, p), NEW f, NEW g, IsFile(f), IsFile(g),
         Same(f, g, new.Table[p].Offset, HighEnd(p)), CardProgress(f, D, {p})
  PROVE  CardProgress(g, D, {p})
<1> DEFINE T == new.Table[p].Offset
           hi == HighEnd(p)
<1>1. p \in Partitions /\ IsPlaced(new)
  BY LaidPlaced DEF There
<1>2. T \in Nat /\ hi \in Nat /\ Same(f, g, T, hi)
  BY <1>1, PartitionPlaced, HighEndOf
<1>3. Around(g)
  BY AroundKept DEF CardProgress
<1>4. /\ \A q \in D \cap There : EndOf(new.Table[q]) <= T \/ hi <= new.Table[q].Offset
      /\ \A q \in Partitions \ (D \cup {p}) :
           old.Table[q].Size # 0 => EndOf(old.Table[q]) <= T \/ hi <= old.Table[q].Offset
  BY DEF Room
<1> HIDE DEF T, hi
<1>5. ASSUME NEW q \in D \cap There
      PROVE  Finished(g, q)
  <2>1. q \in There /\ Finished(f, q)
    BY DEF CardProgress
  <2>2. EndOf(new.Table[q]) <= T \/ hi <= new.Table[q].Offset
    BY <1>4
  <2> QED
    BY <2>1, <2>2, <1>2, FinishedKept
<1>6. ASSUME NEW q \in Partitions \ (D \cup {p})
      PROVE  Untouched(g, q)
  <2>1. Untouched(f, q) /\ q \in Partitions
    BY DEF CardProgress
  <2>2. old.Table[q].Size # 0 => EndOf(old.Table[q]) <= T \/ hi <= old.Table[q].Offset
    BY <1>4
  <2> QED
    BY <2>1, <2>2, <1>2, UntouchedKept
<1> QED
  BY <1>3, <1>5, <1>6 DEF CardProgress

\* A partition that was moved, or did not have to be, is there for its parts to be compared.
LEMMA PartsStart ==
  ASSUME Laid, PreTidy, kind # "file", NEW p \in There, NEW f,
         AreOld(f, new.Table[p].Offset, old.Table[p].Offset, Common(old.Table[p].Size, new.Table[p].Size)),
         new.Table[p].Offset = old.Table[p].Offset => Untouched(f, p)
  PROVE  PartsProgress(f, p, {})
<1> DEFINE T == new.Table[p].Offset
           F == old.Table[p].Offset
           so == old.Table[p].Size
           sn == new.Table[p].Size
           o == old.Parts[p]
           n == new.Parts[p]
           start == n[0].Offset
<1>1. Related(p)
  BY RelatedParts
<1>2. /\ T \in Nat /\ F \in Nat /\ start \in Nat /\ so \in Nat /\ sn \in Nat
      /\ start <= so /\ start <= sn
      /\ o \in [Parts -> Entry] /\ n \in [Parts -> Entry]
  BY <1>1 DEF Related
<1>3. \A j \in Parts :
        /\ EndOf(o[j]) <= so /\ EndOf(n[j]) <= sn
        /\ T # F /\ o[j].Size # 0 /\ n[j].Size # 0 => n[j].Offset = o[j].Offset
  BY <1>1 DEF Related
<1>4. /\ \A k \in 0 .. (Common(so, sn) - 1) : T + k \in DOMAIN f /\ f[T + k] = old.Bytes[F + k]
      /\ T = F => \A k \in 0 .. (so - 1) : T + k \in DOMAIN f /\ f[T + k] = old.Bytes[F + k]
  BY DEF Untouched, AreOld
<1>5. \A j \in Parts : /\ o[j].Offset \in Nat /\ o[j].Size \in Nat /\ n[j].Offset \in Nat /\ n[j].Size \in Nat
                       /\ EndOf(o[j]) = o[j].Offset + o[j].Size /\ EndOf(n[j]) = n[j].Offset + n[j].Size
  BY <1>2 DEF Entry, EndOf
<1> HIDE DEF T, F, so, sn, o, n, start
<1>6. ASSUME NEW j \in Parts
      PROVE  AreOld(f, T + o[j].Offset, F + o[j].Offset, Common(o[j].Size, n[j].Size))
  <2> SUFFICES ASSUME NEW k \in 0 .. (Common(o[j].Size, n[j].Size) - 1)
               PROVE  /\ T + o[j].Offset + k \in DOMAIN f
                      /\ f[T + o[j].Offset + k] = old.Bytes[F + o[j].Offset + k]
    BY DEF AreOld
  <2> DEFINE x == o[j].Offset
             a == o[j].Size
             y == n[j].Offset
             b == n[j].Size
  <2>1. /\ x \in Nat /\ a \in Nat /\ y \in Nat /\ b \in Nat /\ x + a <= so /\ y + b <= sn
        /\ T # F /\ a # 0 /\ b # 0 => y = x
    BY <1>3, <1>5
  <2>2. k \in 0 .. (Common(a, b) - 1)
    OBVIOUS
  <2> HIDE DEF x, a, y, b
  <2>3. k \in Nat /\ k < a /\ k < b
    BY <2>1, <2>2 DEF Common
  <2>4. T + (x + k) = T + x + k /\ F + (x + k) = F + x + k
    BY <1>2, <2>1, <2>3
  <2>5. CASE T = F
    <3>1. x + k \in 0 .. (so - 1)
      BY <1>2, <2>1, <2>3
    <3> QED
      BY <1>4, <2>4, <2>5, <3>1 DEF x
  <2>6. CASE T # F
    <3>1. y = x
      BY <2>1, <2>3, <2>6
    <3>2. x + k \in 0 .. (Common(so, sn) - 1)
      BY <1>2, <2>1, <2>3, <3>1 DEF Common
    <3> QED
      BY <1>4, <2>4, <3>2 DEF x
  <2> QED
    BY <2>5, <2>6
<1>7. AreOld(f, T, F, start)
  <2>1. \A k \in 0 .. (start - 1) : k \in 0 .. (Common(so, sn) - 1)
    BY <1>2 DEF Common
  <2> QED
    BY <1>4, <2>1 DEF AreOld
<1> QED
  BY <1>6, <1>7 DEF PartsProgress, T, F, o, n, start

\* The turn of a partition.
LEMMA TurnOfPartition ==
  ASSUME Laid, NEW D \in SUBSET Partitions, Apart(old.Table, new.Table, D),
         Ready(old.Table, new.Table, D) # {}, NEW p, p = Turn(Ready(old.Table, new.Table, D))
  PROVE  /\ p \in Partitions \ D /\ Apart(old.Table, new.Table, D \cup {p}) /\ Room(D, p)
         /\ new.Table[p].Size # 0 <=> p \in There
<1> DEFINE from == old.Table
           to == new.Table
<1>1. IsPlaced(old) /\ IsPlaced(new)
  BY LaidPlaced
<1>2. /\ from \in [0 .. LastPartition -> Entry] /\ to \in [0 .. LastPartition -> Entry]
      /\ Ordered(from, LastPartition) /\ Ordered(to, LastPartition)
      /\ D \in SUBSET (0 .. LastPartition) /\ LastPartition \in Nat /\ Partitions = 0 .. LastPartition
  BY <1>1, Numbers DEF IsPlaced, IsTable
<1>3. Apart(from, to, D) /\ Ready(from, to, D) # {} /\ p = Turn(Ready(from, to, D))
  OBVIOUS
<1> HIDE DEF from, to
<1>4. p \in Partitions \ D /\ Free(from, to, D, p) /\ Apart(from, to, D \cup {p})
  BY <1>2, <1>3, TurnIsFree
<1>5. DOMAIN to = Partitions
  BY <1>2
<1>6. HighEnd(p) = EndOf(to[p]) \/ HighEnd(p) = EndOf(from[p])
  BY <1>4, HighEndOf DEF from, to
<1>7. Room(D, p)
  <2>1. \A q \in D : EndOf(to[q]) <= to[p].Offset \/ HighEnd(p) <= to[q].Offset
    BY <1>4, <1>6 DEF Free
  <2>2. \A q \in Partitions \ (D \cup {p}) : EndOf(from[q]) <= to[p].Offset \/ HighEnd(p) <= from[q].Offset
    BY <1>4, <1>5, <1>6 DEF Free
  <2> QED
    BY <2>1, <2>2 DEF Room, from, to
<1>8. new.Table[p].Size # 0 <=> p \in There
  BY <1>1, <1>4, PartitionPlaced, Numbers DEF There
<1> QED
  BY <1>4, <1>7, <1>8 DEF from, to

\* What the commands of a turn of the loop over the partitions make of a card.
AfterPartition(g, D, p) ==
  /\ IsFile(g) /\ Good(g)
  /\ p \in There => CardProgress(g, D, {p}) /\ PartsProgress(g, p, {})
  /\ p \notin There => CardProgress(g, D \cup {p}, {})

LEMMA PartitionLeads ==
  ASSUME Laid, kind = "cci", NEW D \in SUBSET Partitions, NEW p \in Partitions \ D, Room(D, p)
  PROVE  LET commands == MoveTo(0, old.Table[p], 0, new.Table[p]) IN
         \E P : /\ Work(commands, P)
                /\ \A f : PreTidy /\ IsFile(f) /\ Good(f) /\ CardProgress(f, D, {}) =>
                     \E g : Leads(commands, P, f, g) /\ AfterPartition(g, D, p)
<1> DEFINE o == old.Table[p]
           n == new.Table[p]
           T == n.Offset
           F == o.Offset
           common == Common(o.Size, n.Size)
           commands == MoveTo(0, o, 0, n)
<1>1. IsPlaced(old) /\ IsPlaced(new)
  BY LaidPlaced
<1>2. o \in Entry /\ n \in Entry /\ T \in Nat /\ F \in Nat /\ o.Size \in Nat /\ n.Size \in Nat
      /\ HeaderSize <= T
  <2>1. o \in Entry /\ n \in Entry
    BY <1>1 DEF IsPlaced, IsTable
  <2>2. FirstPlace(kind) <= T
    BY <1>1, PartitionPlaced
  <2> QED
    BY <2>1, <2>2 DEF Entry, FirstPlace
<1>3. p \notin There => n.Size = 0
  BY <1>1, PartitionPlaced DEF There
<1>4. ASSUME NEW f, CardProgress(f, D, {})
      PROVE  /\ \A k \in 0 .. (o.Size - 1) : F + k \in DOMAIN f /\ f[F + k] = old.Bytes[F + k]
             /\ Untouched(f, p) /\ CardProgress(f, D, {p})
             /\ 1 \in DOMAIN f /\ f[1] = OldNcsd
             /\ p \notin There => CardProgress(f, D \cup {p}, {})
  <2>1. p \in Partitions \ (D \cup {})
    OBVIOUS
  <2>2. Untouched(f, p)
    BY <1>4, <2>1 DEF CardProgress
  <2>3. \A k \in 0 .. (o.Size - 1) : F + k \in DOMAIN f /\ f[F + k] = old.Bytes[F + k]
    BY <2>2 DEF Untouched, AreOld
  <2>4. 1 \in DOMAIN f /\ f[1] = OldNcsd
    BY <1>4 DEF CardProgress, Around
  <2>5. CardProgress(f, D, {p}) /\ (p \notin There => CardProgress(f, D \cup {p}, {}))
    BY <1>4 DEF CardProgress
  <2> QED
    BY <2>2, <2>3, <2>4, <2>5
<1>5. CASE T = F \/ common = 0
  <2>1. commands = <<>>
    <3>1. commands = IF T # F /\ common # 0
                     THEN <<Move(0 + F, 0 + T, common)>> ELSE <<>>
      BY DEF MoveTo, Common
    <3> QED
      BY <3>1, <1>5
  <2>2. ASSUME NEW f, PreTidy, IsFile(f), Good(f), CardProgress(f, D, {})
        PROVE  Leads(commands, <<>>, f, f) /\ AfterPartition(f, D, p)
    <3>1. Leads(commands, <<>>, f, f)
      BY <2>1, <2>2, LeadsNothing
    <3>2. AreOld(f, T, F, common)
      <4> SUFFICES ASSUME NEW k \in 0 .. (common - 1)
                   PROVE  T + k \in DOMAIN f /\ f[T + k] = old.Bytes[F + k]
        BY DEF AreOld
      <4>1. common # 0 /\ k \in 0 .. (o.Size - 1)
        BY <1>2 DEF Common
      <4> QED
        BY <4>1, <1>4, <1>5, <2>2
    <3>3. p \in There => PartsProgress(f, p, {})
      <4> SUFFICES ASSUME p \in There PROVE PartsProgress(f, p, {})
        OBVIOUS
      <4>1. kind # "file" /\ Untouched(f, p)
        BY <1>4, <2>2
      <4> QED
        BY <3>2, <4>1, <2>2, PartsStart
    <3> QED
      BY <3>1, <3>3, <2>2, <1>4 DEF AfterPartition
  <2> QED
    BY <2>1, <2>2, WorkNothing
<1>6. CASE T # F /\ common # 0
  <2>1. p \in There
    BY <1>2, <1>3, <1>6 DEF Common
  <2>2. new.Bytes[1] # OldNcsd
    BY <1>6 DEF Laid
  <2>3. PICK P : /\ Work(commands, P)
                 /\ \A f : \A lo, hi \in Nat :
                     /\ IsFile(f) /\ Safe(f, lo, hi) /\ MoveStart(0, o, 0, n, f)
                     /\ lo <= 0 + n.Offset /\ 0 + n.Offset + Common(o.Size, n.Size) <= hi
                     => \E g : Turns(commands, P, f, g, lo, hi) /\ MoveDone(0, o, 0, n, g)
    <3>1. 0 \in Nat
      OBVIOUS
    <3> HIDE DEF o, n
    <3> QED
      BY <3>1, <1>2, MoveLeads
  <2>4. ASSUME NEW f, PreTidy, IsFile(f), Good(f), CardProgress(f, D, {})
        PROVE  \E g : Leads(commands, P, f, g) /\ AfterPartition(g, D, p)
    <3> DEFINE hi == T + common
    <3>1. common \in Nat /\ common <= o.Size /\ common <= n.Size
      BY <1>2 DEF Common
    <3>2. hi \in Nat /\ T <= 0 + T /\ 0 + T + common <= hi
      BY <1>2, <3>1
    <3>3. Safe(f, T, hi)
      <4> HIDE DEF T, hi
      <4> QED
        BY <1>2, <1>4, <2>2, <2>4, <3>2, NcsdProtects
    <3>4. MoveStart(0, o, 0, n, f)
      <4> SUFFICES ASSUME NEW k \in 0 .. (common - 1)
                   PROVE  0 + F + k \in DOMAIN f /\ f[0 + F + k] = old.Bytes[0 + F + k]
        BY <1>6 DEF MoveStart
      <4>1. k \in 0 .. (o.Size - 1) /\ 0 + F + k = F + k
        BY <1>2, <3>1
      <4> QED
        BY <4>1, <1>4, <2>4
    <3>5. PICK g : Turns(commands, P, f, g, T, hi) /\ MoveDone(0, o, 0, n, g)
      BY <2>3, <2>4, <3>2, <3>3, <3>4, <1>2
    <3>6. Leads(commands, P, f, g) /\ IsFile(g) /\ Same(f, g, T, hi)
      BY <3>5 DEF Turns
    <3>7. Good(g)
      BY <1>2, <2>4, <3>2, <3>3, <3>6, SafeAfter
    <3>8. AreOld(g, T, F, common)
      <4> SUFFICES ASSUME NEW k \in 0 .. (common - 1)
                   PROVE  T + k \in DOMAIN g /\ g[T + k] = old.Bytes[F + k]
        BY DEF AreOld
      <4>1. 0 + T + k \in DOMAIN g /\ g[0 + T + k] = old.Bytes[0 + F + k]
        BY <3>5 DEF MoveDone
      <4>2. 0 + T + k = T + k /\ 0 + F + k = F + k
        BY <1>2, <3>1
      <4> QED
        BY <4>1, <4>2
    <3>9. PartsProgress(g, p, {})
      BY <3>8, <1>6, <2>1, <2>4, PartsStart
    <3>10. Same(f, g, T, HighEnd(p))
      <4> DEFINE end == HighEnd(p)
      <4>1. end \in Nat /\ EndOf(n) <= end
        BY HighEndOf
      <4>2. hi <= end
        <5>1. EndOf(n) = T + n.Size
          BY DEF EndOf
        <5> HIDE DEF n, end, common
        <5> QED
          BY <4>1, <5>1, <3>1, <1>2
      <4> HIDE DEF end, hi, T
      <4>3. Same(f, g, T, end)
        BY <4>1, <4>2, <3>2, <3>6, <2>4, <1>2, SameWider
      <4> QED
        BY <4>3 DEF end, T
    <3>11. CardProgress(g, D, {p})
      BY <3>6, <3>10, <1>4, <2>1, <2>4, CardKept
    <3> QED
      BY <3>6, <3>7, <3>9, <3>11, <2>1 DEF AfterPartition
  <2> QED
    BY <2>3, <2>4
<1> QED
  BY <1>5, <1>6

\* The card while the parts of partition p are being done.
InPart(f, D, p, done) ==
  /\ IsFile(f) /\ Good(f) /\ CardProgress(f, D, {p}) /\ PartsProgress(f, p, done)
  /\ Apart(old.Parts[p], new.Parts[p], done)

\* What the commands c of the turn of part i do.
TurnLeads(c, P, p, done, i) ==
  \A f, D : PreTidy /\ Room(D, p) /\ InPart(f, D, p, done) =>
    \E g : Leads(c, P, f, g) /\ InPart(g, D, p, done \cup {i})

\* It is the turn of part i of partition p.
IsTurn(p, done, i) ==
  LET ready == Ready(old.Parts[p], new.Parts[p], done) IN ready # {} /\ i = Turn(ready)

\* The commands c do the turn of part i.
DoesTurn(c, p, done, i) ==
  i \in Parts \ done /\ \E P : Work(c, P) /\ TurnLeads(c, P, p, done, i)

\* The turn of a part.
LEMMA PartStep ==
  ASSUME Laid, kind # "file", NEW p, p \in There, NEW done, done \in SUBSET Parts, NEW i, IsTurn(p, done, i)
  PROVE  DoesTurn(PartCommands(old.Table[p].Offset, old.Parts[p][i], new.Table[p].Offset, new.Parts[p][i]),
                  p, done, i)
<1> DEFINE T == new.Table[p].Offset
           F == old.Table[p].Offset
           o == old.Parts[p]
           n == new.Parts[p]
           commands == PartCommands(F, o[i], T, n[i])
<1>1. p \in Partitions /\ IsPlaced(old) /\ IsPlaced(new)
  BY LaidPlaced DEF There
<1>2. T \in Nat /\ F \in Nat
  BY <1>1, PartitionPlaced
<1>3. o \in [Parts -> Entry] /\ n \in [Parts -> Entry]
  BY <1>1 DEF IsPlaced
<1>4. i \in Parts \ done
  <2>1. Ready(o, n, done) # {} /\ Ready(o, n, done) \subseteq Parts \ done /\ i = Turn(Ready(o, n, done))
    BY <1>3 DEF Ready, IsTurn
  <2>2. Ready(o, n, done) \subseteq Nat /\ \A j \in Ready(o, n, done) : j <= LastPart
    BY <2>1, Numbers
  <2> DEFINE ready == Ready(o, n, done)
  <2> HIDE DEF o, n, ready
  <2>3. \E m \in ready : \A j \in ready : j <= m
    BY <2>1, <2>2, MaxProperties, Numbers DEF ready
  <2>4. Turn(ready) \in ready
    BY <2>3 DEF Turn
  <2> QED
    BY <2>1, <2>4 DEF ready
<1>5. o[i] \in Entry /\ n[i] \in Entry
  BY <1>3, <1>4
<1>6. PICK P : /\ Work(commands, P)
               /\ (F # T /\ o[i].Size # 0 /\ n[i].Size # 0 => n[i].Offset = o[i].Offset) =>
                     PartLeads(F, o[i], T, n[i], P)
  <2> DEFINE x == o[i]
             y == n[i]
  <2> HIDE DEF T, F, x, y
  <2> SUFFICES \E P : /\ Work(PartCommands(F, x, T, y), P)
                      /\ (F # T /\ x.Size # 0 /\ y.Size # 0 => y.Offset = x.Offset) => PartLeads(F, x, T, y, P)
    BY DEF x, y
  <2> QED
    BY <1>2, <1>5, PartCommandsLead DEF x, y
<1>7. ASSUME NEW f, NEW D, PreTidy, Room(D, p), InPart(f, D, p, done)
      PROVE  \E g : Leads(commands, P, f, g) /\ InPart(g, D, p, done \cup {i})
  <2>1. IsFile(f) /\ Good(f) /\ CardProgress(f, D, {p}) /\ PartsProgress(f, p, done) /\ Apart(o, n, done)
    BY <1>7 DEF InPart
  <2>2. PartLeads(F, o[i], T, n[i], P)
    <3>1. Related(p)
      BY <1>7, RelatedParts
    <3>2. T # F /\ o[i].Size # 0 /\ n[i].Size # 0 => n[i].Offset = o[i].Offset
      BY <3>1, <1>4 DEF Related
    <3> QED
      BY <3>2, <1>6
  <2>3. kind = "cci" => 1 \in DOMAIN f /\ f[1] = OldNcsd
    BY <2>1 DEF CardProgress, Around
  <2>4. PICK g : /\ Leads(commands, P, f, g) /\ IsFile(g) /\ Good(g)
                 /\ Same(f, g, T + n[0].Offset, HighEnd(p)) /\ PartsProgress(g, p, done \cup {i})
    <3>1. Ready(old.Parts[p], new.Parts[p], done) # {} /\ i = Turn(Ready(old.Parts[p], new.Parts[p], done))
      BY DEF IsTurn
    <3> QED
      <4>1. AtTurn(p, done, i, commands, P, f)
        BY <1>6, <1>7, <2>1, <2>2, <2>3, <3>1 DEF AtTurn
      <4> QED
        BY <4>1, PartTurn
  <2>5. Apart(o, n, done \cup {i})
    <3>1. Related(p)
      BY <1>7, RelatedParts
    <3>2. /\ o \in [0 .. LastPart -> Entry] /\ n \in [0 .. LastPart -> Entry] /\ done \in SUBSET (0 .. LastPart)
          /\ Ordered(o, LastPart) /\ Ordered(n, LastPart) /\ LastPart \in Nat
      BY <3>1, Numbers DEF Related
    <3>3. Ready(o, n, done) # {} /\ i = Turn(Ready(o, n, done))
      BY DEF IsTurn
    <3> HIDE DEF o, n
    <3> QED
      BY <2>1, <3>2, <3>3, TurnIsFree
  <2>6. CardProgress(g, D, {p})
    <3> DEFINE low == T + n[0].Offset
               end == HighEnd(p)
    <3>1. end \in Nat
      BY <1>1, HighEndOf
    <3>2. low \in Nat /\ T <= low
      <4>1. n[0].Offset \in Nat
        BY <1>3, Numbers DEF Entry
      <4> QED
        BY <4>1, <1>2
    <3>3. Same(f, g, low, end)
      BY <2>4
    <3> HIDE DEF low, end, T
    <3>4. Same(f, g, T, end)
      BY <1>2, <2>1, <2>4, <3>1, <3>2, <3>3, SameWider
    <3> QED
      BY <1>7, <2>1, <2>4, <3>4, CardKept DEF end, T
  <2> QED
    BY <2>4, <2>5, <2>6 DEF InPart
<1>8. TurnLeads(commands, P, p, done, i)
  BY <1>7 DEF TurnLeads
<1> QED
  BY <1>4, <1>6, <1>8 DEF DoesTurn

\* All parts are done: they have the bytes of the new file.
LEMMA PartsDone ==
  ASSUME Laid, PreTidy, kind # "file", NEW p \in There, NEW f, PartsProgress(f, p, Parts)
  PROVE  PartsNew(f, p) /\ AreOld(f, new.Table[p].Offset, old.Table[p].Offset, HeaderSize)
<1> DEFINE T == new.Table[p].Offset
           F == old.Table[p].Offset
           n == new.Parts[p]
           start == n[0].Offset
<1>1. Related(p)
  BY RelatedParts
<1>2. T \in Nat /\ F \in Nat /\ start \in Nat /\ HeaderSize <= start
      /\ n \in [Parts -> Entry] /\ \A i \in Parts : new.Sizes[p][i] \in Nat
  BY <1>1 DEF Related
<1>3. /\ \A i \in Parts : AreNew(f, T + n[i].Offset, n[i].Size)
      /\ \A k \in 0 .. (start - 1) : T + k \in DOMAIN f /\ f[T + k] = old.Bytes[F + k]
  BY DEF PartsProgress, AreOld
<1>4. ASSUME NEW i \in Parts, new.Sizes[p][i] # 0
      PROVE  HasPart(f, p, i)
  <2>1. InTable(p, i) \/ InFront(p, i)
    BY <1>1, <1>4 DEF Related
  <2>2. CASE InTable(p, i)
    <3>1. n[i].Offset \in Nat
      BY <1>2 DEF Entry
    <3>2. PlaceIn(new, p, i) \in Nat /\ AreNew(f, PlaceIn(new, p, i), new.Sizes[p][i])
      BY <1>2, <1>3, <2>2, <3>1 DEF InTable
    <3> QED
      BY <1>2, <3>2, HasPartNew
  <2>3. CASE InFront(p, i)
    <3> DEFINE at == PlaceOfPart(new.Sizes[p])[i]
               size == new.Sizes[p][i]
    <3>1. /\ at \in Nat /\ at + size <= start /\ PlaceIn(new, p, i) = T + at
          /\ \A k \in 0 .. (size - 1) : new.Bytes[T + at + k] = old.Bytes[F + at + k]
      BY <2>3 DEF InFront
    <3>2. size \in Nat
      BY <1>2
    <3> HIDE DEF at, size, T, F, start
    <3>3. ASSUME NEW k \in 0 .. (size - 1)
          PROVE  T + at + k \in DOMAIN f /\ f[T + at + k] = new.Bytes[T + at + k]
      <4>1. at + k \in 0 .. (start - 1) /\ T + (at + k) = T + at + k /\ F + (at + k) = F + at + k
        BY <1>2, <3>1, <3>2
      <4> QED
        BY <4>1, <1>3, <3>1
    <3>4. AreNew(f, PlaceIn(new, p, i), size) /\ PlaceIn(new, p, i) \in Nat
      BY <3>1, <3>3, <1>2 DEF AreNew
    <3> QED
      BY <3>2, <3>4, HasPartNew DEF size
  <2> QED
    BY <2>1, <2>2, <2>3
<1>5. AreOld(f, T, F, HeaderSize)
  <2> HIDE DEF T, F, start
  <2> QED
    BY <1>2, <1>3, Numbers DEF AreOld
<1> QED
  BY <1>4, <1>5 DEF PartsNew

LEMMA CardGood ==
  ASSUME Laid, PreTidy, kind # "file", NEW p \in There, NEW D, NEW f, CardProgress(f, D, {p}), PartsNew(f, p)
  PROVE  Good(f)
<1>1. kind = "cci" => f[1] = OldNcsd
  BY DEF CardProgress, Around
<1>2. \A q \in There : PartsNew(f, q) \/ Untouched(f, q)
  BY DEF CardProgress, Finished, There
<1> QED
  BY <1>1, <1>2, NewOrOldIsGood

\* The header of a partition: whatever it is while it is written, the parts under it are there.
LEMMA HeaderStep ==
  ASSUME Laid, kind # "file", NEW p \in There
  PROVE  LET commands == Writes(old.Table[p].Offset, HeaderSize, new.Table[p].Offset, HeaderSize) IN
         \E P : /\ Work(commands, P)
                /\ \A f, D : PreTidy /\ Room(D, p) /\ InPart(f, D, p, Parts) =>
                     \E g : Leads(commands, P, f, g) /\ IsFile(g) /\ Good(g) /\ CardProgress(g, D \cup {p}, {})
<1> DEFINE T == new.Table[p].Offset
           F == old.Table[p].Offset
           commands == Writes(F, HeaderSize, T, HeaderSize)
           hi == T + HeaderSize
<1>1. p \in Partitions /\ IsThere(new.Sizes, p) /\ IsPlaced(old) /\ IsPlaced(new)
  BY LaidPlaced DEF There
<1>2. T \in Nat /\ F \in Nat /\ HeaderSize \in Nat /\ hi \in Nat
  <2> HIDE DEF commands
  <2>1. new.Table[p].Offset \in Nat
    BY <1>1, PartitionPlaced
  <2>2. old.Table[p].Offset \in Nat
    BY <1>1, PartitionPlaced
  <2> QED
    BY <2>1, <2>2, Numbers
<1>3. PICK P : /\ Work(commands, P)
               /\ \A f : \A low, high \in Nat :
                     /\ IsFile(f) /\ Safe(f, low, high) /\ low <= T /\ T + HeaderSize <= high
                     /\ AreOld(f, T, F, Common(HeaderSize, HeaderSize))
                     => \E g : Turns(commands, P, f, g, low, high)
                               /\ Same(f, g, T, T + HeaderSize) /\ AreNew(g, T, HeaderSize)
  <2> HIDE DEF T, F
  <2> QED
    BY <1>2, WritesTurn
<1>4. ASSUME NEW f, NEW D, PreTidy, Room(D, p), InPart(f, D, p, Parts)
      PROVE  \E g : Leads(commands, P, f, g) /\ IsFile(g) /\ Good(g) /\ CardProgress(g, D \cup {p}, {})
  <2>1. IsFile(f) /\ CardProgress(f, D, {p}) /\ PartsNew(f, p) /\ AreOld(f, T, F, HeaderSize)
    BY <1>4, PartsDone DEF InPart
  <2>2. hi <= HighEnd(p) /\ HighEnd(p) \in Nat
    <3> DEFINE end == HighEnd(p)
               s == new.Table[p].Size
    <3>1. end \in Nat /\ EndOf(new.Table[p]) <= end
      BY <1>1, HighEndOf
    <3>2. HeaderSize <= s /\ s \in Nat /\ EndOf(new.Table[p]) = T + s
      BY <1>1, PartitionPlaced DEF EndOf
    <3> HIDE DEF end, s, T
    <3>3. T + s <= end
      BY <3>1, <3>2
    <3> QED
      BY <1>2, <3>1, <3>2, <3>3 DEF end
  <2>3. ASSUME NEW h, IsFile(h), Same(f, h, T, hi)
        PROVE  CardProgress(h, D, {p}) /\ PartsNew(h, p) /\ Good(h)
    <3> DEFINE end == HighEnd(p)
    <3>1. T <= T /\ hi <= end /\ end \in Nat
      BY <1>2, <2>2
    <3>2. Same(f, h, T, end)
      <4> HIDE DEF T, hi, end
      <4> QED
        BY <1>2, <2>1, <2>3, <3>1, SameWider
    <3>3. CardProgress(h, D, {p})
      BY <1>4, <2>1, <2>3, <3>2, CardKept
    <3>4. PartsNew(h, p)
      <4>1. hi <= new.Table[p].Offset + HeaderSize
        BY <1>2
      <4> HIDE DEF T, hi
      <4> QED
        BY <1>2, <2>1, <2>3, <4>1, PartsNewKept
    <3> QED
      BY <1>4, <3>3, <3>4, CardGood
  <2>4. Safe(f, T, hi)
    BY <2>3 DEF Safe
  <2>5. PICK g : Turns(commands, P, f, g, T, hi) /\ Same(f, g, T, T + HeaderSize) /\ AreNew(g, T, HeaderSize)
    <3>1. Common(HeaderSize, HeaderSize) = HeaderSize
      BY DEF Common
    <3>2. T <= T /\ T + HeaderSize <= hi
      BY <1>2
    <3> HIDE DEF T, F, hi
    <3> QED
      BY <1>2, <1>3, <2>1, <2>4, <3>1, <3>2
  <2>6. Leads(commands, P, f, g) /\ IsFile(g)
    BY <2>5 DEF Turns
  <2>7. CardProgress(g, D, {p}) /\ PartsNew(g, p) /\ Good(g)
    BY <2>3, <2>5, <2>6
  <2>8. CardProgress(g, D \cup {p}, {})
    BY <2>5, <2>7 DEF CardProgress, Finished
  <2> QED
    BY <2>6, <2>7, <2>8
<1> QED
  BY <1>3, <1>4

-----------------------------------------------------------------------------
(* The end of a patch                                                      *)

LEMMA AllKept ==
  ASSUME Laid, NEW f, NEW g, NEW lo \in Nat, NEW hi \in Nat, Same(f, g, lo, hi), \A p \in There : Finished(f, p),
         (kind = "cci" /\ hi <= HeaderSize) \/ EndOfPartitions(new) <= lo
  PROVE  (\A p \in There : Finished(g, p)) /\ Good(g)
<1>1. ASSUME NEW p \in There
      PROVE  Finished(g, p)
  <2> DEFINE T == new.Table[p].Offset
             end == EndOf(new.Table[p])
             last == EndOfPartitions(new)
  <2>1. p \in Partitions /\ IsPlaced(new)
    BY LaidPlaced DEF There
  <2>2. FirstPlace(kind) <= T /\ T \in Nat /\ end <= last /\ last \in Nat
    BY <2>1, PartitionPlaced
  <2>3. end \in Nat
    BY <2>1, HighEndOf
  <2>4. (kind = "cci" /\ hi <= HeaderSize) \/ last <= lo
    OBVIOUS
  <2>5. Finished(f, p)
    OBVIOUS
  <2>6. kind = "cci" => HeaderSize <= T
    BY <2>2 DEF FirstPlace
  <2> HIDE DEF T, end, last
  <2>7. end <= lo \/ hi <= T
    BY <2>2, <2>3, <2>4, <2>6, Numbers
  <2> QED
    BY <2>5, <2>7, FinishedKept DEF T, end
<1>2. \A p \in There : PartsNew(g, p)
  BY <1>1 DEF Finished
<1> QED
  BY <1>1, <1>2, AllPartsGood

\* The header of the NCSD is that of the new card.
NcsdWritten(f) ==
  /\ IsFile(f) /\ Good(f) /\ (\A p \in There : Finished(f, p))
  /\ AreNew(f, 0, HeaderSize) /\ Length(f) = CardSize
  /\ \A x \in Larger(EndOfPartitions(old), EndOfPartitions(new)) .. (CardSize - 1) :
       x \in DOMAIN f /\ f[x] = Filling

\* The file but for its length.
NewBut(f) ==
  /\ IsFile(f) /\ Good(f)
  /\ kind # "file" => \A p \in There : Finished(f, p)
  /\ kind = "file" => AreNew(f, 0, Length(new.Bytes))
  /\ kind = "cci" => /\ AreNew(f, 0, HeaderSize) /\ Length(f) = CardSize
                     /\ AreNew(f, EndOfPartitions(new), CardSize - EndOfPartitions(new))
  /\ kind # "cci" => Length(f) <= Larger(Length(old.Bytes), Length(new.Bytes))

LEMMA CardEnds ==
  ASSUME Laid, kind = "cci"
  PROVE  /\ EndOfPartitions(new) \in Nat /\ EndOfPartitions(old) \in Nat
         /\ HeaderSize <= EndOfPartitions(new) /\ HeaderSize <= EndOfPartitions(old)
         /\ EndOfPartitions(new) <= CardSize /\ EndOfPartitions(old) <= CardSize
         /\ \A x \in EndOfPartitions(new) .. (CardSize - 1) : new.Bytes[x] = Filling
         /\ old.Bytes[0] = Magic /\ new.Bytes[0] = Magic /\ old.Bytes[1] = OldNcsd
         /\ Length(old.Bytes) = CardSize /\ Length(new.Bytes) = CardSize
<1>1. IsPlaced(old) /\ IsPlaced(new) /\ old.Bytes[1] = OldNcsd
  BY LaidPlaced
<1>2. ASSUME NEW file, IsPlaced(file)
      PROVE  /\ EndOfPartitions(file) \in Nat /\ HeaderSize <= EndOfPartitions(file)
             /\ EndOfPartitions(file) <= CardSize
  <2> DEFINE at == file.Table[LastPartition].Offset
             size == file.Table[LastPartition].Size
             end == EndOfPartitions(file)
  <2>1. /\ at \in Nat /\ size \in Nat /\ FirstPlace(kind) <= at /\ end = EndOf(file.Table[LastPartition])
        /\ end \in Nat /\ end <= Length(file.Bytes)
    BY <1>2, PartitionPlaced, Numbers
  <2>2. Length(file.Bytes) = CardSize
    BY <1>2 DEF IsPlaced
  <2>3. end = at + size /\ HeaderSize <= at
    BY <2>1 DEF EndOf, FirstPlace
  <2> HIDE DEF at, size, end
  <2>4. HeaderSize <= end
    BY <2>1, <2>3, Numbers
  <2> QED
    BY <2>1, <2>2, <2>4 DEF end
<1>3. \A x \in EndOfPartitions(new) .. (CardSize - 1) : new.Bytes[x] = Filling
  BY <1>1 DEF IsPlaced, EndOfPartitions, EndOf
<1>4. /\ old.Bytes[0] = Magic /\ new.Bytes[0] = Magic
      /\ Length(old.Bytes) = CardSize /\ Length(new.Bytes) = CardSize
  BY <1>1 DEF IsPlaced
<1> QED
  BY <1>1, <1>2, <1>3, <1>4

LEMMA NcsdHeaderStep ==
  ASSUME Laid, kind = "cci"
  PROVE  LET commands == Writes(0, HeaderSize, 0, HeaderSize) IN
         \E P : /\ Work(commands, P)
                /\ \A f : IsFile(f) /\ Good(f) /\ CardProgress(f, Partitions, {}) =>
                     \E g : Leads(commands, P, f, g) /\ NcsdWritten(g)
<1> DEFINE commands == Writes(0, HeaderSize, 0, HeaderSize)
<1>1. PICK P : /\ Work(commands, P)
               /\ \A f : \A low, high \in Nat :
                     /\ IsFile(f) /\ Safe(f, low, high) /\ low <= 0 /\ 0 + HeaderSize <= high
                     /\ AreOld(f, 0, 0, Common(HeaderSize, HeaderSize))
                     => \E g : Turns(commands, P, f, g, low, high)
                               /\ Same(f, g, 0, 0 + HeaderSize) /\ AreNew(g, 0, HeaderSize)
  <2>1. 0 \in Nat /\ HeaderSize \in Nat
    BY Numbers
  <2> QED
    BY <2>1, WritesTurn
<1>2. ASSUME NEW f, IsFile(f), Good(f), CardProgress(f, Partitions, {})
      PROVE  \E g : Leads(commands, P, f, g) /\ NcsdWritten(g)
  <2> DEFINE m == Larger(EndOfPartitions(old), EndOfPartitions(new))
  <2>1. \A p \in There : Finished(f, p)
    BY <1>2 DEF CardProgress, There
  <2>2. /\ 0 \in DOMAIN f /\ 1 \in DOMAIN f /\ f[0] = Magic /\ f[1] = OldNcsd /\ Length(f) = CardSize
        /\ \A x \in m .. (CardSize - 1) : x \in DOMAIN f /\ f[x] = Filling
    BY <1>2 DEF CardProgress, Around
  <2>3. 0 \in Nat /\ 2 \in Nat /\ HeaderSize = 2 /\ 0 + HeaderSize = 2 /\ Common(HeaderSize, HeaderSize) = 2
    BY Numbers DEF Common
  <2>4. AreOld(f, 0, 0, 2)
    <3> SUFFICES ASSUME NEW k \in 0 .. (2 - 1) PROVE 0 + k \in DOMAIN f /\ f[0 + k] = old.Bytes[0 + k]
      BY DEF AreOld
    <3>1. k = 0 \/ k = 1
      OBVIOUS
    <3> QED
      BY <3>1, <2>2, CardEnds
  <2>5. ASSUME NEW h, IsFile(h), Same(f, h, 0, 2)
        PROVE  (\A p \in There : Finished(h, p)) /\ Good(h)
    BY <2>1, <2>3, <2>5, AllKept
  <2>6. Safe(f, 0, 2)
    BY <2>5 DEF Safe
  <2>7. PICK g : Turns(commands, P, f, g, 0, 2) /\ Same(f, g, 0, 2) /\ AreNew(g, 0, HeaderSize)
    BY <1>1, <1>2, <2>3, <2>4, <2>6
  <2>8. Leads(commands, P, f, g) /\ IsFile(g)
    BY <2>7 DEF Turns
  <2>9. m \in Nat /\ 2 <= m /\ m <= CardSize
    BY CardEnds, <2>3 DEF Larger
  <2> HIDE DEF m
  <2>10. Length(g) = CardSize
    <3>1. Length(f) <= Length(g) /\ (Length(g) <= Length(f) \/ Length(g) <= 2)
      BY <2>7 DEF Same
    <3> QED
      BY <3>1, <2>2, <2>8, <2>9, FileProperties, Numbers
  <2>11. \A x \in m .. (CardSize - 1) : x \in DOMAIN g /\ g[x] = Filling
    BY <2>2, <2>7, <2>9, Numbers DEF Same
  <2> QED
    BY <2>5, <2>7, <2>8, <2>10, <2>11 DEF NcsdWritten, m
<1> QED
  BY <1>1, <1>2

LEMMA FillStep ==
  ASSUME Laid, kind = "cci"
  PROVE  LET end == EndOfPartitions(new)
             rest == EndOfPartitions(old) - end
             commands == IF rest > 0 THEN <<Set(end, rest, Filling)>> ELSE <<>>
         IN
         \E P : /\ Work(commands, P)
                /\ \A f : NcsdWritten(f) => \E g : Leads(commands, P, f, g) /\ NewBut(g)
<1> DEFINE end == EndOfPartitions(new)
           was == EndOfPartitions(old)
           rest == was - end
           commands == IF rest > 0 THEN <<Set(end, rest, Filling)>> ELSE <<>>
<1>1. /\ end \in Nat /\ was \in Nat /\ HeaderSize <= end /\ end <= CardSize /\ was <= CardSize
      /\ \A x \in end .. (CardSize - 1) : new.Bytes[x] = Filling
  BY CardEnds
<1>2. ASSUME NEW f, NcsdWritten(f)
      PROVE  /\ IsFile(f) /\ Good(f) /\ (\A p \in There : Finished(f, p))
             /\ AreNew(f, 0, HeaderSize) /\ Length(f) = CardSize
             /\ \A x \in Larger(was, end) .. (CardSize - 1) : x \in DOMAIN f /\ f[x] = Filling
  BY <1>2 DEF NcsdWritten
<1> HIDE DEF end, was
<1>3. ASSUME NEW g, IsFile(g), Good(g), \A p \in There : Finished(g, p), AreNew(g, 0, HeaderSize), Length(g) = CardSize,
             \A x \in end .. (CardSize - 1) : x \in DOMAIN g /\ g[x] = Filling
      PROVE  NewBut(g)
  <2>1. AreNew(g, end, CardSize - end)
    <3> SUFFICES ASSUME NEW k \in 0 .. ((CardSize - end) - 1)
                 PROVE  end + k \in DOMAIN g /\ g[end + k] = new.Bytes[end + k]
      BY DEF AreNew
    <3>1. end + k \in end .. (CardSize - 1)
      BY <1>1, Numbers
    <3> QED
      BY <3>1, <1>1, <1>3
  <2> QED
    BY <1>3, <2>1 DEF NewBut, end
<1>4. CASE rest > 0
  <2> DEFINE c == Set(end, rest, Filling)
  <2>1. rest \in Nat /\ end + rest = was /\ Larger(was, end) = was
    BY <1>1, <1>4 DEF Larger
  <2>2. commands = <<c>>
    BY <1>4
  <2> HIDE DEF rest
  <2>3. /\ Work(<<c>>, <<0>>)
        /\ \A f : \A lo, hi \in Nat :
             IsFile(f) /\ Safe(f, lo, hi) /\ lo <= end /\ end + rest <= hi =>
               \E g : /\ Turns(<<c>>, <<0>>, f, g, lo, hi)
                      /\ Same(f, g, end, end + rest)
                      /\ \A x \in end .. (end + rest - 1) : x \in DOMAIN g /\ g[x] = Filling
    BY <1>1, <2>1, SetLeads
  <2>4. ASSUME NEW f, NcsdWritten(f)
        PROVE  \E g : Leads(<<c>>, <<0>>, f, g) /\ NewBut(g)
    <3>1. /\ IsFile(f) /\ Good(f) /\ (\A p \in There : Finished(f, p))
          /\ AreNew(f, 0, HeaderSize) /\ Length(f) = CardSize
          /\ \A x \in was .. (CardSize - 1) : x \in DOMAIN f /\ f[x] = Filling
      BY <1>2, <2>1, <2>4
    <3>2. ASSUME NEW h, IsFile(h), Same(f, h, end, was)
          PROVE  (\A p \in There : Finished(h, p)) /\ Good(h)
      BY <1>1, <3>1, <3>2, AllKept DEF end
    <3>3. Safe(f, end, was)
      BY <3>2 DEF Safe
    <3>4. end <= end /\ end + rest <= was
      BY <1>1, <2>1
    <3>5. PICK g : /\ Turns(<<c>>, <<0>>, f, g, end, was) /\ Same(f, g, end, was)
                   /\ \A x \in end .. (was - 1) : x \in DOMAIN g /\ g[x] = Filling
      <4> HIDE DEF c
      <4> QED
        BY <1>1, <2>1, <2>3, <3>1, <3>3, <3>4
    <3>6. Leads(<<c>>, <<0>>, f, g) /\ IsFile(g)
      BY <3>5 DEF Turns
    <3>7. Length(g) = CardSize
      <4>1. Length(f) <= Length(g) /\ (Length(g) <= Length(f) \/ Length(g) <= was)
        BY <3>5 DEF Same
      <4> QED
        BY <4>1, <3>1, <3>6, <1>1, FileProperties, Numbers
    <3>8. \A x \in end .. (CardSize - 1) : x \in DOMAIN g /\ g[x] = Filling
      <4> SUFFICES ASSUME NEW x \in end .. (CardSize - 1) PROVE x \in DOMAIN g /\ g[x] = Filling
        OBVIOUS
      <4>1. CASE x < was
        BY <4>1, <3>5, <1>1, Numbers
      <4>2. CASE was <= x
        <5>1. x \in DOMAIN f /\ f[x] = Filling
          BY <4>2, <3>1, <1>1, Numbers
        <5> QED
          BY <5>1, <4>2, <3>5 DEF Same
      <4> QED
        BY <4>1, <4>2, <1>1, Numbers
    <3>9. AreNew(g, 0, HeaderSize)
      <4>1. 0 \in Nat /\ HeaderSize \in Nat /\ 0 + HeaderSize <= end
        BY <1>1, Numbers
      <4> QED
        BY <4>1, <1>1, <3>1, <3>5, AreNewKept
    <3> QED
      BY <1>3, <3>2, <3>5, <3>6, <3>7, <3>8, <3>9
  <2> QED
    BY <2>2, <2>3, <2>4 DEF end, was, rest
<1>5. CASE ~(rest > 0)
  <2>1. commands = <<>>
    BY <1>5
  <2>2. Larger(was, end) = end
    BY <1>1, <1>5 DEF Larger
  <2>3. ASSUME NEW f, NcsdWritten(f)
        PROVE  Leads(<<>>, <<>>, f, f) /\ NewBut(f)
    BY <2>2, <2>3, <1>2, <1>3, LeadsNothing
  <2> QED
    BY <2>1, <2>3, WorkNothing DEF end, was
<1> QED
  BY <1>4, <1>5

\* Files of no type: all bytes are compared.
LEMMA FileStep ==
  ASSUME Laid, kind = "file"
  PROVE  LET commands == Writes(0, Length(old.Bytes), 0, Length(new.Bytes)) IN
         \E P : /\ Work(commands, P)
                /\ \E g : Leads(commands, P, old.Bytes, g) /\ NewBut(g)
<1> DEFINE so == Length(old.Bytes)
           sn == Length(new.Bytes)
           f == old.Bytes
<1>1. IsFile(f) /\ so \in Nat /\ sn \in Nat /\ DOMAIN f = 0 .. (so - 1)
  BY LaidPlaced, FileProperties DEF IsPlaced
<1>2. PICK P : /\ Work(Writes(0, so, 0, sn), P)
               /\ \A h : \A low, high \in Nat :
                     /\ IsFile(h) /\ Safe(h, low, high) /\ low <= 0 /\ 0 + sn <= high
                     /\ AreOld(h, 0, 0, Common(so, sn))
                     => \E g : Turns(Writes(0, so, 0, sn), P, h, g, low, high)
                               /\ Same(h, g, 0, 0 + sn) /\ AreNew(g, 0, sn)
  <2>1. 0 \in Nat
    OBVIOUS
  <2> HIDE DEF so, sn
  <2> QED
    BY <1>1, <2>1, WritesTurn
<1>3. \A h : Good(h)
  BY DEF Good
<1> HIDE DEF so, sn
<1>4. AreOld(f, 0, 0, Common(so, sn))
  <2> SUFFICES ASSUME NEW k \in 0 .. (Common(so, sn) - 1) PROVE 0 + k \in DOMAIN f /\ f[0 + k] = old.Bytes[0 + k]
    BY DEF AreOld
  <2>1. 0 + k \in 0 .. (so - 1)
    BY <1>1 DEF Common
  <2> QED
    BY <2>1, <1>1
<1>5. PICK g : /\ Turns(Writes(0, so, 0, sn), P, f, g, 0, sn)
               /\ Same(f, g, 0, 0 + sn) /\ AreNew(g, 0, sn)
  <2>1. Safe(f, 0, sn)
    BY <1>3 DEF Safe
  <2>2. 0 \in Nat /\ 0 <= 0 /\ 0 + sn <= sn
    BY <1>1
  <2> QED
    BY <1>1, <1>2, <1>4, <2>1, <2>2
<1>6. Leads(Writes(0, so, 0, sn), P, f, g) /\ IsFile(g)
  BY <1>5 DEF Turns
<1>7. Length(g) <= Larger(so, sn)
  <2>1. Length(f) <= Length(g) /\ (Length(g) <= Length(f) \/ Length(g) <= 0 + sn)
    BY <1>5 DEF Same
  <2>2. Length(f) = so
    BY DEF so
  <2>3. Length(g) \in Nat
    BY <1>6, FileProperties
  <2> QED
    BY <1>1, <2>1, <2>2, <2>3 DEF Larger
<1>8. NewBut(g)
  BY <1>3, <1>5, <1>6, <1>7 DEF NewBut, so, sn
<1> QED
  BY <1>2, <1>6, <1>8 DEF so, sn

\* IsNew of a file.
IsNewFile(f) ==
  /\ AreNew(f, 0, HeaderSize)
  /\ kind # "file" => \A p \in There : AreNew(f, Place(new, p), HeaderSize)
  /\ \A c \in Content(new) : HasPart(f, c[1], c[2])
  /\ Length(f) <= Length(new.Bytes)
  /\ \A x \in DOMAIN new.Bytes \ DOMAIN f : new.Bytes[x] = Filler
  /\ kind = "cci" => AreNew(f, EndOfPartitions(new), CardSize - EndOfPartitions(new))

LEMMA TargetIsNewFile ==
  ASSUME NEW f, f = target, NEW at \in Nat, NEW size \in Int
  PROVE  AreNew(f, at, size) <=> TargetIsNew(at, size)
<1>1. ASSUME AreNew(f, at, size), NEW x \in at .. (at + size - 1)
      PROVE  x \in DOMAIN f /\ f[x] = new.Bytes[x]
  <2>1. x - at \in 0 .. (size - 1) /\ at + (x - at) = x
    OBVIOUS
  <2> QED
    BY <1>1, <2>1 DEF AreNew
<1>2. ASSUME TargetIsNew(at, size), NEW k \in 0 .. (size - 1)
      PROVE  at + k \in DOMAIN f /\ f[at + k] = new.Bytes[at + k]
  <2>1. at + k \in at .. (at + size - 1)
    OBVIOUS
  <2> QED
    BY <1>2, <2>1 DEF TargetIsNew
<1> QED
  BY <1>1, <1>2 DEF AreNew, TargetIsNew

LEMMA NewFileIsNew ==
  ASSUME Laid, IsNewFile(target)
  PROVE  IsNew
<1>1. IsPlaced(new)
  BY LaidPlaced
<1>2. TargetIsNew(0, HeaderSize)
  BY TargetIsNewFile, Numbers DEF IsNewFile
<1>3. ASSUME kind # "file", NEW p \in There
      PROVE  TargetIsNew(Place(new, p), HeaderSize)
  <2>1. p \in Partitions
    BY DEF There
  <2>2. Place(new, p) \in Nat
    BY <1>1, <2>1, PartitionPlaced DEF Place
  <2> QED
    BY <2>2, <1>3, TargetIsNewFile, Numbers DEF IsNewFile
<1>4. PartsAreNew
  BY DEF PartsAreNew, IsNewFile, HasPart, TargetIsNew
<1>5. ASSUME kind = "cci"
      PROVE  TargetIsNew(EndOfPartitions(new), CardSize - EndOfPartitions(new))
  <2> DEFINE end == EndOfPartitions(new)
             rest == CardSize - end
  <2>1. end \in Nat /\ rest \in Int
    BY <1>5, CardEnds, Numbers
  <2>2. AreNew(target, end, rest)
    BY <1>5 DEF IsNewFile
  <2> HIDE DEF end, rest
  <2>3. TargetIsNew(end, rest)
    BY <2>1, <2>2, TargetIsNewFile
  <2> QED
    BY <2>3 DEF end, rest
<1> QED
  BY <1>2, <1>3, <1>4, <1>5 DEF IsNew, IsNewFile

\* What is within a file of the new length is kept when the length is set.
LEMMA Resized ==
  ASSUME NEW f, NEW n \in Nat, NEW at \in Nat, NEW size \in Nat, size # 0 => at + size <= n, AreNew(f, at, size)
  PROVE  AreNew([x \in 0 .. (n - 1) |-> IF x \in DOMAIN f THEN f[x] ELSE Filler], at, size)
<1> DEFINE g == [x \in 0 .. (n - 1) |-> IF x \in DOMAIN f THEN f[x] ELSE Filler]
<1> SUFFICES ASSUME NEW k \in 0 .. (size - 1) PROVE at + k \in DOMAIN g /\ g[at + k] = new.Bytes[at + k]
  BY DEF AreNew
<1>1. at + k \in 0 .. (n - 1)
  OBVIOUS
<1>2. at + k \in DOMAIN f /\ f[at + k] = new.Bytes[at + k]
  BY DEF AreNew
<1> QED
  BY <1>1, <1>2

\* The parts of the new file, and its headers, are within it.
LEMMA WithinNew ==
  ASSUME Laid, NEW p \in There
  PROVE  /\ Place(new, p) \in Nat /\ Place(new, p) = new.Table[p].Offset
         /\ Place(new, p) + HeaderSize <= Length(new.Bytes) /\ Length(new.Bytes) \in Nat
         /\ \A i \in Parts : /\ PlaceIn(new, p, i) \in Nat /\ new.Sizes[p][i] \in Nat
                             /\ PlaceIn(new, p, i) + new.Sizes[p][i] <= Length(new.Bytes)
         /\ DOMAIN new.Bytes = 0 .. (Length(new.Bytes) - 1)
<1> DEFINE T == new.Table[p].Offset
           s == new.Table[p].Size
           n == Length(new.Bytes)
           end == EndOf(new.Table[p])
<1>1. p \in Partitions /\ IsThere(new.Sizes, p) /\ IsPlaced(new)
  BY LaidPlaced DEF There
<1>2. /\ T \in Nat /\ s \in Nat /\ HeaderSize <= s /\ n \in Nat /\ end <= n /\ end = T + s
      /\ DOMAIN new.Bytes = 0 .. (n - 1)
  BY <1>1, PartitionPlaced DEF EndOf
<1>3. Place(new, p) = T
  BY DEF Place
<1>4. ASSUME NEW i \in Parts
      PROVE  PlaceIn(new, p, i) \in Nat /\ new.Sizes[p][i] \in Nat /\ PlaceIn(new, p, i) + new.Sizes[p][i] <= n
  <2> DEFINE at == PlaceIn(new, p, i)
             size == new.Sizes[p][i]
  <2>1. at \in Nat /\ size \in Nat /\ at + size <= end
    BY <1>1, PlacesInPartition
  <2> HIDE DEF at, size, T, s, n, end
  <2>2. at + size <= n
    BY <2>1, <1>2
  <2> QED
    BY <2>1, <2>2 DEF at, size
<1>5. T + HeaderSize <= n
  <2> HIDE DEF T, s, n, end
  <2> QED
    BY <1>2, Numbers
<1> QED
  BY <1>2, <1>3, <1>4, <1>5

LEMMA ContentThere ==
  ASSUME NEW c \in Content(new)
  PROVE  c[1] \in There /\ c[2] \in Parts
<1>1. c[1] \in Partitions /\ c[2] \in Parts /\ new.Sizes[c[1]][c[2]] # 0
  BY DEF Content
<1> QED
  BY <1>1 DEF There, IsThere

\* A file with all that NewBut names and no more bytes than the new one.
LEMMA LengthRight ==
  ASSUME Laid, NEW f, NewBut(f), Length(f) <= Length(new.Bytes)
  PROVE  IsNewFile(f)
<1> DEFINE n == Length(new.Bytes)
<1>1. IsPlaced(new) /\ IsFile(f)
  BY LaidPlaced DEF NewBut
<1>2. 0 \in There
  BY Numbers DEF There, IsThere
<1>3. n \in Nat /\ HeaderSize <= n /\ DOMAIN new.Bytes = 0 .. (n - 1)
  <2> DEFINE T == Place(new, 0)
  <2>1. T \in Nat /\ T + HeaderSize <= n /\ n \in Nat /\ DOMAIN new.Bytes = 0 .. (n - 1)
    BY <1>2, WithinNew
  <2> HIDE DEF T, n
  <2> QED
    BY <2>1, Numbers
<1>4. \A c \in Content(new) : HasPart(f, c[1], c[2])
  <2>1. CASE kind # "file"
    BY <2>1, AllPartsGood DEF NewBut, Finished
  <2>2. CASE kind = "file"
    <3> TAKE c \in Content(new)
    <3> DEFINE at == PlaceIn(new, c[1], c[2])
               size == new.Sizes[c[1]][c[2]]
    <3>1. at \in Nat /\ size \in Nat /\ at + size <= n
      BY ContentThere, WithinNew
    <3>2. AreNew(f, 0, n)
      BY <2>2 DEF NewBut
    <3> HIDE DEF at, size, n
    <3>3. AreNew(f, at, size)
      <4> SUFFICES ASSUME NEW k \in 0 .. (size - 1) PROVE at + k \in DOMAIN f /\ f[at + k] = new.Bytes[at + k]
        BY DEF AreNew
      <4>1. at + k \in 0 .. (n - 1) /\ 0 + (at + k) = at + k
        BY <1>3, <3>1
      <4>2. 0 + (at + k) \in DOMAIN f /\ f[0 + (at + k)] = new.Bytes[0 + (at + k)]
        BY <3>2, <4>1 DEF AreNew
      <4> QED
        BY <4>1, <4>2
    <3> QED
      BY <3>1, <3>3, HasPartNew DEF at, size
  <2> QED
    BY <2>1, <2>2
<1>5. kind # "file" => \A p \in There : AreNew(f, Place(new, p), HeaderSize)
  BY DEF NewBut, Finished, Place
<1>6. AreNew(f, 0, HeaderSize)
  <2>1. CASE kind = "cci"
    BY <2>1 DEF NewBut
  <2>2. CASE kind = "file"
    <3>1. AreNew(f, 0, n)
      BY <2>2 DEF NewBut
    <3> HIDE DEF n
    <3> QED
      BY <3>1, <1>3, Numbers DEF AreNew
  <2>3. CASE kind # "cci" /\ kind # "file"
    <3>1. Place(new, 0) = 0
      BY <1>1, <2>3, PartitionPlaced, Numbers DEF Place, FirstPlace
    <3> QED
      BY <1>2, <1>5, <2>3, <3>1
  <2> QED
    BY <2>1, <2>2, <2>3
<1>7. ASSUME NEW x \in DOMAIN new.Bytes \ DOMAIN f
      PROVE  new.Bytes[x] = Filler
  <2>1. x \in 0 .. (n - 1) /\ x \notin DOMAIN f
    BY <1>3
  <2>2. CASE kind = "cci"
    <3>1. Length(f) = n
      BY <2>2, CardEnds DEF NewBut
    <3> QED
      BY <2>1, <3>1, <1>1, FileProperties
  <2>3. CASE kind = "file"
    <3>1. AreNew(f, 0, n)
      BY <2>3 DEF NewBut
    <3> HIDE DEF n
    <3>2. 0 + x \in DOMAIN f /\ 0 + x = x
      BY <2>1, <3>1, <1>3 DEF AreNew
    <3> QED
      BY <2>1, <3>2
  <2>4. CASE kind # "cci" /\ kind # "file"
    <3> DEFINE place == PlaceOfPart(new.Sizes[0])
               sizes == new.Sizes[0]
    <3>1. /\ n = new.Table[0].Size
          /\ \A y \in HeaderSize .. (new.Table[0].Size - 1) :
               \/ \E i \in Parts : place[i] <= y /\ y < place[i] + sizes[i]
               \/ new.Bytes[y] = Filler
      BY <2>4 DEF Laid, IsLaid
    <3>2. HeaderSize <= x
      <4> SUFFICES ASSUME ~(HeaderSize <= x) PROVE FALSE
        OBVIOUS
      <4>1. x \in 0 .. (HeaderSize - 1) /\ 0 + x = x
        BY <2>1, <1>3, Numbers
      <4> QED
        BY <4>1, <1>6, <2>1 DEF AreNew
    <3>3. x \in HeaderSize .. (n - 1)
      BY <2>1, <3>2, <1>3, Numbers
    <3> SUFFICES ASSUME NEW i \in Parts, place[i] <= x /\ x < place[i] + sizes[i] PROVE FALSE
      BY <3>1, <3>3
    <3>4. /\ PlaceIn(new, 0, i) = new.Table[0].Offset + place[i] /\ place[i] \in Nat /\ sizes[i] \in Nat
      BY <1>1, <1>2, PlacesInPartition DEF There
    <3>5. new.Table[0].Offset = 0
      BY <1>1, <2>4, PartitionPlaced, Numbers DEF FirstPlace
    <3> HIDE DEF place, sizes, n
    <3>6. PlaceIn(new, 0, i) = place[i]
      BY <3>4, <3>5
    <3>7. HasPart(f, 0, i)
      <4>1. sizes[i] # 0
        BY <2>1, <3>4, <1>3
      <4>2. Finished(f, 0)
        BY <1>2, <2>4 DEF NewBut
      <4> QED
        BY <4>1, <4>2 DEF Finished, PartsNew, sizes
    <3>8. x \in place[i] .. (place[i] + sizes[i] - 1)
      BY <2>1, <3>4, <1>3
    <3>9. x \in DOMAIN f
      BY <3>6, <3>7, <3>8 DEF HasPart, sizes
    <3> QED
      BY <3>9, <2>1
  <2> QED
    BY <2>2, <2>3, <2>4
<1>8. kind = "cci" => AreNew(f, EndOfPartitions(new), CardSize - EndOfPartitions(new))
  BY DEF NewBut
<1> QED
  BY <1>4, <1>5, <1>6, <1>7, <1>8 DEF IsNewFile

\* The new size, if the new file is shorter.
LEMMA ResizeStep ==
  ASSUME Laid
  PROVE  LET commands == IF Length(new.Bytes) < Length(old.Bytes)
                         THEN <<ChangeSize(Length(new.Bytes))>> ELSE <<>>
         IN
         \E P : /\ Work(commands, P)
                /\ \A f : NewBut(f) => \E g : Leads(commands, P, f, g) /\ IsFile(g) /\ Good(g) /\ IsNewFile(g)
<1> DEFINE n == Length(new.Bytes)
           m == Length(old.Bytes)
           commands == IF n < m THEN <<ChangeSize(n)>> ELSE <<>>
<1>1. n \in Nat /\ m \in Nat
  BY LaidPlaced, FileProperties DEF IsPlaced
<1>2. kind = "cci" => n = m /\ n = CardSize
  BY CardEnds
<1>3. CASE n < m
  <2> DEFINE c == ChangeSize(n)
  <2>1. commands = <<c>>
    BY <1>3
  <2>2. Work(<<c>>, <<0>>)
    <3>1. IsCommand(c) /\ c.Command \notin {"SeekWrite", "Over", "Check"}
      BY <1>1 DEF IsCommand, ChangeSize
    <3> HIDE DEF c
    <3> QED
      BY <3>1, WorkOne
  <2>3. ASSUME NEW f, NewBut(f)
        PROVE  \E g : Leads(<<c>>, <<0>>, f, g) /\ IsFile(g) /\ Good(g) /\ IsNewFile(g)
    <3> DEFINE g == [x \in 0 .. (n - 1) |-> IF x \in DOMAIN f THEN f[x] ELSE Filler]
    <3>1. kind # "cci"
      BY <1>1, <1>2, <1>3
    <3>2. DOMAIN g = 0 .. (n - 1) /\ IsFile(g)
      BY <1>1 DEF IsFile
    <3>3. Length(g) = n
      BY <1>1, <3>2, LengthOf
    <3>4. \A at, size \in Nat : AreNew(f, at, size) /\ (size # 0 => at + size <= n) => AreNew(g, at, size)
      <4> HIDE DEF n
      <4> QED
        BY <1>1, Resized
    <3>5. Step(c, 0, f) = g
      BY DEF Step, ChangeSize
    <3> HIDE DEF g
    <3>6. ASSUME kind # "file", NEW p \in There
          PROVE  Finished(g, p)
      <4> DEFINE T == new.Table[p].Offset
      <4>1. T \in Nat /\ T + HeaderSize <= n
        BY WithinNew
      <4>2. AreNew(f, T, HeaderSize) /\ PartsNew(f, p)
        BY <2>3, <3>6 DEF NewBut, Finished
      <4>3. AreNew(g, T, HeaderSize)
        <5> HIDE DEF T, n
        <5> QED
          BY <3>4, <4>1, <4>2, Numbers
      <4>4. ASSUME NEW i \in Parts, new.Sizes[p][i] # 0
            PROVE  HasPart(g, p, i)
        <5> DEFINE at == PlaceIn(new, p, i)
                   size == new.Sizes[p][i]
        <5>1. at \in Nat /\ size \in Nat /\ at + size <= n
          BY WithinNew
        <5>2. AreNew(f, at, size)
          BY <4>2, <4>4, <5>1, HasPartNew DEF PartsNew
        <5> HIDE DEF at, size, n
        <5>3. AreNew(g, at, size)
          BY <3>4, <5>1, <5>2
        <5> QED
          BY <5>1, <5>3, HasPartNew DEF at, size
      <4> QED
        BY <4>3, <4>4 DEF Finished, PartsNew
    <3>7. Good(g)
      <4>1. kind # "file" => \A p \in There : PartsNew(g, p)
        BY <3>6 DEF Finished
      <4> QED
        BY <4>1, AllPartsGood DEF Good
    <3>8. kind = "file" => AreNew(g, 0, n)
      <4>1. kind = "file" => AreNew(f, 0, n)
        BY <2>3 DEF NewBut
      <4>2. 0 \in Nat /\ 0 + n <= n
        BY <1>1
      <4> HIDE DEF n
      <4> QED
        BY <1>1, <3>4, <4>1, <4>2
    <3>9. Length(g) <= Larger(Length(old.Bytes), Length(new.Bytes))
      <4>1. n <= Larger(m, n)
        BY <1>1 DEF Larger
      <4> QED
        BY <3>3, <4>1
    <3>10. NewBut(g)
      BY <3>1, <3>2, <3>6, <3>7, <3>8, <3>9 DEF NewBut
    <3>11. IsNewFile(g)
      <4>1. Length(g) <= Length(new.Bytes)
        BY <1>1, <3>3
      <4> QED
        BY <3>10, <4>1, LengthRight
    <3>12. Leads(<<c>>, <<0>>, f, g)
      <4>1. c.Command # "Move"
        BY DEF ChangeSize
      <4>2. IsFile(f) /\ Good(f)
        BY <2>3 DEF NewBut
      <4> HIDE DEF c
      <4>3. Fine(c, f)
        BY <4>1, <4>2 DEF Fine
      <4> QED
        BY <3>2, <3>5, <3>7, <4>3, LeadsOne
    <3> QED
      BY <3>2, <3>7, <3>11, <3>12
  <2> QED
    BY <2>1, <2>2, <2>3
<1>4. CASE ~(n < m)
  <2>1. commands = <<>>
    BY <1>4
  <2>2. ASSUME NEW f, NewBut(f)
        PROVE  Leads(<<>>, <<>>, f, f) /\ IsFile(f) /\ Good(f) /\ IsNewFile(f)
    <3>1. IsFile(f) /\ Good(f)
      BY <2>2 DEF NewBut
    <3>2. Length(f) <= Length(new.Bytes)
      <4>1. kind = "cci" => Length(f) = CardSize
        BY <2>2 DEF NewBut
      <4>2. kind # "cci" => Length(f) <= Larger(m, n)
        BY <2>2 DEF NewBut
      <4>3. Larger(m, n) = n
        BY <1>1, <1>4 DEF Larger
      <4> QED
        BY <1>1, <1>2, <4>1, <4>2, <4>3
    <3> QED
      BY <2>2, <3>1, <3>2, LengthRight, LeadsNothing
  <2> QED
    BY <2>1, <2>2, WorkNothing
<1> QED
  BY <1>3, <1>4

LEMMA OverStep ==
  /\ Placed(<<Over>>, <<0>>)
  /\ \A f : IsFile(f) /\ Good(f) => Leads(<<Over>>, <<0>>, f, f)
<1>1. IsCommand(Over) /\ Over.Command # "SeekWrite" /\ Over.Command # "Move"
  BY DEF Over, IsCommand
<1>2. \A f : Step(Over, 0, f) = f
  BY DEF Step, Over
<1>3. \A f : IsFile(f) /\ Good(f) => Fine(Over, f)
  BY <1>1 DEF Fine
<1> QED
  BY <1>1, <1>2, <1>3, PlacedOne, LeadsOne

\* An old file that has the headers of the new one is the new one.
LEMMA OldClaims ==
  ASSUME Laid, PreTidy, HeaderTells, kind # "file", Claims(old.Bytes)
  PROVE  IsNewFile(old.Bytes)
<1> DEFINE f == old.Bytes
<1>1. IsPlaced(old) /\ IsPlaced(new) /\ IsFile(f)
  BY LaidPlaced DEF IsPlaced
<1>2. kind = "cci" => f[1] = new.Bytes[1] /\ f[1] = OldNcsd
  BY LaidPlaced DEF Claims
<1>3. ASSUME NEW p \in There
      PROVE  /\ Place(old, p) = Place(new, p) /\ p \in Partitions
             /\ Untouched(f, p) /\ f[Place(new, p) + 1] = new.Bytes[Place(new, p) + 1]
             /\ f[Place(new, p)] = new.Bytes[Place(new, p)]
             /\ PartsNew(f, p) /\ \A i \in Parts : SamePart(p, i)
  <2>1. p \in Partitions /\ IsThere(new.Sizes, p) /\ IsThere(old.Sizes, p)
    BY DEF There, PreTidy, NoPartitionAdded
  <2>2. Place(old, p) = Place(new, p)
    BY <1>2, PlacesSame
  <2>3. f[Place(new, p) + 1] = new.Bytes[Place(new, p) + 1]
    BY DEF Claims
  <2>4. Untouched(f, p)
    <3> DEFINE F == old.Table[p].Offset
               so == old.Table[p].Size
               len == Length(f)
    <3>1. F \in Nat /\ so \in Nat /\ EndOf(old.Table[p]) <= len /\ DOMAIN f = 0 .. (len - 1) /\ len \in Nat
      BY <1>1, <2>1, PartitionPlaced
    <3>2. EndOf(old.Table[p]) = F + so
      BY DEF EndOf
    <3> HIDE DEF F, so, len
    <3>3. AreOld(f, F, F, so)
      BY <3>1, <3>2 DEF AreOld
    <3> QED
      BY <3>3 DEF Untouched, F, so
  <2>5. AreOld(f, Place(old, p), Place(old, p), old.Table[p].Size)
    BY <2>4 DEF Untouched, Place
  <2>6. f[Place(new, p)] = new.Bytes[Place(new, p)]
    BY <1>1, <2>1, <2>2 DEF IsPlaced, Place
  <2> HIDE DEF f
  <2>7. PartsNew(f, p) /\ \A i \in Parts : SamePart(p, i)
    BY <2>2, <2>3, <2>5, OldIsNew
  <2> QED
    BY <2>1, <2>2, <2>3, <2>4, <2>6, <2>7
<1>4. 0 \in There /\ 0 \in Partitions
  BY Numbers DEF There, IsThere
<1>5. Length(f) = Length(new.Bytes)
  <2>1. CASE kind = "cci"
    BY <2>1, CardEnds
  <2>2. CASE kind # "cci"
    <3>1. \A i \in Parts : old.Sizes[0][i] = new.Sizes[0][i]
      BY <1>3, <1>4 DEF SamePart
    <3>2. old.Sizes[0] \in [Parts -> Nat] /\ new.Sizes[0] \in [Parts -> Nat]
      BY <1>1, <1>4 DEF IsPlaced, AllOf
    <3>3. old.Sizes[0] = new.Sizes[0]
      BY <3>1, <3>2
    <3>4. IsThere(old.Sizes, 0) /\ IsThere(new.Sizes, 0)
      BY DEF IsThere
    <3>5. old.Table[0].Size = EndOfNcch(old.Sizes[0]) /\ new.Table[0].Size = EndOfNcch(new.Sizes[0])
      BY <1>1, <1>4, <3>4, PartitionPlaced
    <3>6. Length(old.Bytes) = old.Table[0].Size /\ Length(new.Bytes) = new.Table[0].Size
      BY <1>1, <2>2 DEF IsPlaced
    <3> QED
      BY <3>3, <3>5, <3>6
  <2> QED
    BY <2>1, <2>2
<1>6. DOMAIN f = DOMAIN new.Bytes /\ DOMAIN f = 0 .. (Length(f) - 1) /\ Length(f) \in Nat
  BY <1>1, <1>5, FileProperties DEF IsPlaced
<1>7. ASSUME NEW p \in There
      PROVE  AreNew(f, Place(new, p), HeaderSize)
  <2> DEFINE T == Place(new, p)
  <2>1. T \in Nat /\ T + HeaderSize <= Length(new.Bytes)
    BY WithinNew
  <2>2. f[T] = new.Bytes[T] /\ f[T + 1] = new.Bytes[T + 1]
    BY <1>3
  <2> HIDE DEF T
  <2> SUFFICES ASSUME NEW k \in 0 .. (HeaderSize - 1)
               PROVE  T + k \in DOMAIN f /\ f[T + k] = new.Bytes[T + k]
    BY DEF AreNew, T
  <2>3. k = 0 \/ k = 1
    BY Numbers
  <2>4. T + 0 = T /\ T + k \in 0 .. (Length(f) - 1)
    BY <2>1, <2>3, <1>5, <1>6, Numbers
  <2> QED
    BY <2>2, <2>3, <2>4, <1>6
<1>8. AreNew(f, 0, HeaderSize)
  <2>1. CASE kind = "cci"
    <3> SUFFICES ASSUME NEW k \in 0 .. (HeaderSize - 1)
                 PROVE  0 + k \in DOMAIN f /\ f[0 + k] = new.Bytes[0 + k]
      BY DEF AreNew
    <3>1. (k = 0 \/ k = 1) /\ 0 + k = k
      BY Numbers
    <3>2. f[0] = new.Bytes[0] /\ f[1] = new.Bytes[1]
      BY <1>2, <2>1, CardEnds
    <3>3. k \in 0 .. (Length(f) - 1)
      <4> DEFINE T == Place(new, 0)
                 n == Length(f)
      <4>1. T \in Nat /\ T + HeaderSize <= n
        BY <1>4, <1>5, WithinNew
      <4>2. n \in Nat
        BY <1>6
      <4> HIDE DEF T, n
      <4> QED
        BY <3>1, <4>1, <4>2, Numbers DEF n
    <3> QED
      BY <1>6, <3>1, <3>2, <3>3
  <2>2. CASE kind # "cci"
    <3>1. Place(new, 0) = 0
      BY <1>1, <1>4, <2>2, PartitionPlaced DEF Place, FirstPlace
    <3> QED
      BY <1>4, <1>7, <3>1
  <2> QED
    BY <2>1, <2>2
<1>9. \A c \in Content(new) : HasPart(f, c[1], c[2])
  BY <1>3, AllPartsGood
<1>10. ASSUME kind = "cci"
       PROVE  AreNew(f, EndOfPartitions(new), CardSize - EndOfPartitions(new))
  <2> DEFINE end == EndOfPartitions(new)
  <2>1. EndOfPartitions(old) = end
    BY <1>2, <1>10 DEF EndOfPartitions, Laid
  <2>2. \A x \in end .. (CardSize - 1) : old.Bytes[x] = Filling /\ new.Bytes[x] = Filling
    BY <1>1, <1>10, <2>1, CardEnds DEF IsPlaced, EndOfPartitions, EndOf
  <2>3. end \in Nat /\ Length(f) = CardSize /\ CardSize \in Nat
    BY <1>10, CardEnds, Numbers
  <2> HIDE DEF end
  <2> SUFFICES ASSUME NEW k \in 0 .. ((CardSize - end) - 1)
               PROVE  end + k \in DOMAIN f /\ f[end + k] = new.Bytes[end + k]
    BY DEF AreNew, end
  <2>4. end + k \in end .. (CardSize - 1) /\ end + k \in 0 .. (CardSize - 1)
    BY <2>3
  <2> QED
    BY <1>6, <2>2, <2>3, <2>4
<1>11. Length(f) <= Length(new.Bytes)
  BY <1>5, <1>6
<1>12. DOMAIN new.Bytes \ DOMAIN f = {}
  BY <1>6
<1> QED
  BY <1>7, <1>8, <1>9, <1>10, <1>11, <1>12 DEF IsNewFile

-----------------------------------------------------------------------------
(* The checks a patch begins with                                          *)

AreChecks(u) == IsSeq(u) /\ \A m \in 1 .. Len(u) : u[m].Command = "Check" /\ u[m].Offset \in Nat

Has(u, c) == \E m \in 1 .. Len(u) : u[m] = c

LEMMA HasConcat ==
  ASSUME NEW a, NEW b, IsSeq(a), IsSeq(b), NEW c
  PROVE  Has(a, c) \/ Has(b, c) => Has(a \o b, c)
<1>1. /\ Len(a \o b) = Len(a) + Len(b) /\ Len(a) \in Nat /\ Len(b) \in Nat
      /\ \A i \in 1 .. Len(a) : (a \o b)[i] = a[i]
      /\ \A i \in 1 .. Len(b) : (a \o b)[Len(a) + i] = b[i]
  BY ConcatSeq, SeqProperties
<1>2. ASSUME NEW m \in 1 .. Len(a), a[m] = c
      PROVE  Has(a \o b, c)
  <2>1. m \in 1 .. Len(a \o b)
    BY <1>1
  <2> QED
    BY <1>1, <1>2, <2>1 DEF Has
<1>3. ASSUME NEW m \in 1 .. Len(b), b[m] = c
      PROVE  Has(a \o b, c)
  <2>1. Len(a) + m \in 1 .. Len(a \o b)
    BY <1>1
  <2> QED
    BY <1>1, <1>3, <2>1 DEF Has
<1> QED
  BY <1>2, <1>3 DEF Has

LEMMA AreChecksConcat ==
  ASSUME NEW a, NEW b, AreChecks(a), AreChecks(b)
  PROVE  AreChecks(a \o b)
<1>1. IsSeq(a) /\ IsSeq(b)
  BY DEF AreChecks
<1>2. /\ IsSeq(a \o b) /\ Len(a \o b) = Len(a) + Len(b) /\ Len(a) \in Nat /\ Len(b) \in Nat
      /\ \A i \in 1 .. Len(a) : (a \o b)[i] = a[i]
      /\ \A i \in (Len(a) + 1) .. (Len(a) + Len(b)) : (a \o b)[i] = b[i - Len(a)]
  BY <1>1, ConcatSeq, SeqProperties
<1>3. ASSUME NEW m \in 1 .. Len(a \o b)
      PROVE  (a \o b)[m].Command = "Check" /\ (a \o b)[m].Offset \in Nat
  <2>1. CASE m \in 1 .. Len(a)
    BY <2>1, <1>2 DEF AreChecks
  <2>2. CASE m \in (Len(a) + 1) .. (Len(a) + Len(b))
    <3>1. m - Len(a) \in 1 .. Len(b)
      BY <2>2, <1>2
    <3> QED
      BY <2>2, <3>1, <1>2 DEF AreChecks
  <2> QED
    BY <2>1, <2>2, <1>2
<1> QED
  BY <1>2, <1>3 DEF AreChecks

LEMMA OneCheck ==
  ASSUME NEW at \in Nat, NEW hash
  PROVE  AreChecks(<<Check(at, hash)>>) /\ Has(<<Check(at, hash)>>, Check(at, hash))
<1> DEFINE c == Check(at, hash)
<1>1. c.Command = "Check" /\ c.Offset = at
  BY DEF Check
<1> HIDE DEF c
<1>2. IsSeq(<<c>>) /\ Len(<<c>>) = 1 /\ <<c>>[1] = c
  BY OneSeq
<1>3. AreChecks(<<c>>)
  BY <1>1, <1>2 DEF AreChecks
<1>4. Has(<<c>>, c)
  BY <1>2 DEF Has
<1> QED
  BY <1>3, <1>4 DEF c

LEMMA NoChecks == AreChecks(<<>>)
  BY NoSeq DEF AreChecks

\* Checks change nothing.
LEMMA ChecksLead ==
  ASSUME NEW u, AreChecks(u)
  PROVE  \E P : Placed(u, P) /\ \A f : IsFile(f) /\ Good(f) => Leads(u, P, f, f)
<1> DEFINE n == Len(u)
           P == [m \in 1 .. n |-> 0]
<1>1. IsSeq(u) /\ n \in Nat /\ \A m \in 1 .. n : u[m].Command = "Check" /\ u[m].Offset \in Nat
  BY SeqProperties DEF AreChecks
<1>2. IsSeq(P) /\ Len(P) = n
  <2>1. P = [m \in 1 .. n |-> P[m]]
    OBVIOUS
  <2> HIDE DEF P, n
  <2> QED
    BY <1>1, <2>1, TupleSeq
<1>3. \A m \in 1 .. n : P[m] = 0
  OBVIOUS
<1> HIDE DEF n, P
<1>4. Placed(u, P)
  <2>1. ASSUME NEW m \in 1 .. n
        PROVE  PlacedAt(u, P, m)
    BY <1>1, <1>3 DEF PlacedAt, IsCommand
  <2> QED
    BY <1>1, <1>2, <2>1 DEF Placed, Paired, n
<1>5. ASSUME NEW f, IsFile(f), Good(f)
      PROVE  Leads(u, P, f, f)
  <2> DEFINE t == [m \in 0 .. n |-> f]
  <2>1. ASSUME NEW m \in 1 .. n
        PROVE  Fine(u[m], t[m - 1]) /\ t[m] = Step(u[m], P[m], t[m - 1])
    <3>1. m - 1 \in 0 .. n /\ m \in 0 .. n
      BY <1>1
    <3>2. t[m - 1] = f /\ t[m] = f
      BY <3>1
    <3>3. u[m].Command = "Check"
      BY <1>1
    <3> QED
      BY <3>2, <3>3, <1>5 DEF Fine, Step
  <2>2. t[0] = f /\ t[n] = f
    BY <1>1
  <2> HIDE DEF t
  <2>3. Run(u, P, t)
    BY <1>5, <2>1, <2>2 DEF Run, n
  <2> QED
    BY <2>2, <2>3 DEF Leads, n
<1> QED
  BY <1>4, <1>5

\* The check of the header of a partition.
CheckOf(p) == Check(new.Table[p].Offset + 1, new.Bytes[new.Table[p].Offset + 1])

CheckIf(p) == IF IsThere(new.Sizes, p) THEN <<CheckOf(p)>> ELSE <<>>

HasChecks(u) ==
  /\ kind = "cci" => Has(u, Check(1, new.Bytes[1]))
  /\ \A p \in There : Has(u, CheckOf(p))

LEMMA ChecksMade ==
  ASSUME Laid
  PROVE  AreChecks(Checks) /\ HasChecks(Checks)
<1> DEFINE n == LastPartition + 1
           S == {CheckOf(p) : p \in Partitions}
           h == [c \in (1 .. n) \X Seq(S) |-> c[2] \o CheckIf(c[1] - 1)]
           first == IF kind = "cci" THEN <<Check(1, new.Bytes[1])>> ELSE <<>>
           Def(g) == g = [p \in 0 .. n |-> IF p = 0 THEN <<>> ELSE g[p - 1] \o CheckIf(p - 1)]
           upTo == CHOOSE g : Def(g)
<1>1. n \in Nat /\ \A p \in 1 .. n : p - 1 \in Partitions
  BY Numbers
<1>2. \A p \in Partitions : CheckIf(p) \in Seq(S)
  <2> TAKE p \in Partitions
  <2>1. CheckOf(p) \in S
    OBVIOUS
  <2> HIDE DEF S
  <2>2. <<CheckOf(p)>> \in Seq(S) /\ <<>> \in Seq(S)
    BY <2>1
  <2> QED
    BY <2>2 DEF CheckIf
<1>3. h \in [(1 .. n) \X Seq(S) -> Seq(S)]
  <2> SUFFICES ASSUME NEW p \in 1 .. n, NEW s \in Seq(S) PROVE s \o CheckIf(p - 1) \in Seq(S)
    OBVIOUS
  <2>1. CheckIf(p - 1) \in Seq(S)
    BY <1>1, <1>2
  <2> HIDE DEF S
  <2> QED
    BY <2>1
<1>4. \A p \in 1 .. n : \A s \in Seq(S) : h[<<p, s>>] = s \o CheckIf(p - 1)
  OBVIOUS
<1>5. <<>> \in Seq(S)
  OBVIOUS
<1> HIDE DEF h, n, S
<1>6. PICK f \in [0 .. n -> Seq(S)] : Recurs(f, n, <<>>, h)
  BY <1>1, <1>3, <1>5, Recursion
<1>7. Def(f)
  <2>1. ASSUME NEW p \in 0 .. n
        PROVE  f[p] = IF p = 0 THEN <<>> ELSE f[p - 1] \o CheckIf(p - 1)
    <3>1. f[p] = IF p = 0 THEN <<>> ELSE h[<<p, f[p - 1]>>]
      BY <1>6 DEF Recurs
    <3>2. p # 0 => p \in 1 .. n /\ p - 1 \in 0 .. n
      BY <1>1
    <3>3. p # 0 => h[<<p, f[p - 1]>>] = f[p - 1] \o CheckIf(p - 1)
      BY <3>2, <1>4
    <3> QED
      BY <3>1, <3>3
  <2> QED
    BY <2>1
<1>8. Def(upTo)
  BY <1>7
<1>9. Checks = first \o upTo[n]
  BY DEF Checks, CheckIf, CheckOf, n
<1>10. \A p \in 0 .. n : upTo[p] = IF p = 0 THEN <<>> ELSE upTo[p - 1] \o CheckIf(p - 1)
  BY <1>8
<1> HIDE DEF Def, upTo, first
<1>11. ASSUME NEW p \in Partitions
       PROVE  AreChecks(CheckIf(p)) /\ (p \in There => Has(CheckIf(p), CheckOf(p)))
  <2>1. new.Table[p].Offset + 1 \in Nat
    BY LaidPlaced, PartitionPlaced
  <2>2. AreChecks(<<CheckOf(p)>>) /\ Has(<<CheckOf(p)>>, CheckOf(p))
    BY <2>1, OneCheck DEF CheckOf
  <2> QED
    BY <2>2, NoChecks DEF CheckIf, There
<1> DEFINE U == {k \in 0 .. n : AreChecks(upTo[k]) /\ \A p \in There : p < k => Has(upTo[k], CheckOf(p))}
<1>12. 0 \in U
  <2>0. 0 \in 0 .. n
    BY <1>1
  <2>1. upTo[0] = <<>>
    BY <2>0, <1>10
  <2>2. \A p \in There : ~(p < 0)
    BY Numbers DEF There
  <2> QED
    BY <2>0, <2>1, <2>2, NoChecks
<1>13. ASSUME NEW k \in 0 .. (n - 1), k \in U
       PROVE  k + 1 \in U
  <2> DEFINE l == k + 1
  <2>1. l \in 0 .. n /\ l # 0 /\ l - 1 = k /\ k \in Partitions
    BY <1>1, Numbers DEF n
  <2> HIDE DEF l
  <2>2. upTo[l] = upTo[k] \o CheckIf(k)
    BY <2>1, <1>10
  <2>3. AreChecks(upTo[k]) /\ AreChecks(CheckIf(k)) /\ IsSeq(upTo[k]) /\ IsSeq(CheckIf(k))
    BY <1>11, <1>13, <2>1 DEF AreChecks
  <2>4. AreChecks(upTo[l])
    BY <2>2, <2>3, AreChecksConcat
  <2>5. ASSUME NEW p \in There, p < l
        PROVE  Has(upTo[l], CheckOf(p))
    <3>1. p < k \/ p = k
      BY <2>1, <2>5, Numbers DEF There
    <3>2. Has(upTo[k], CheckOf(p)) \/ Has(CheckIf(k), CheckOf(p))
      BY <1>11, <1>13, <2>1, <3>1
    <3> QED
      BY <2>2, <2>3, <3>2, HasConcat
  <2> QED
    BY <2>1, <2>4, <2>5 DEF l
<1> HIDE DEF U
<1>14. n \in U
  <2>1. \A k \in 0 .. n : k \in U
    BY <1>1, <1>12, <1>13, UpTo
  <2> QED
    BY <1>1, <2>1
<1>15. AreChecks(upTo[n]) /\ \A p \in There : Has(upTo[n], CheckOf(p))
  <2>1. \A p \in There : p < n
    BY Numbers DEF There, n
  <2> QED
    BY <1>14, <2>1 DEF U
<1>16. AreChecks(first) /\ (kind = "cci" => Has(first, Check(1, new.Bytes[1])))
  BY NoChecks, OneCheck DEF first
<1>17. IsSeq(first) /\ IsSeq(upTo[n])
  BY <1>15, <1>16 DEF AreChecks
<1>18. AreChecks(first \o upTo[n])
  BY <1>15, <1>16, AreChecksConcat
<1>19. HasChecks(first \o upTo[n])
  BY <1>15, <1>16, <1>17, HasConcat DEF HasChecks
<1> QED
  BY <1>9, <1>18, <1>19

LEMMA HasChecksConcat ==
  ASSUME NEW a, NEW b, IsSeq(a), IsSeq(b), HasChecks(a)
  PROVE  HasChecks(a \o b)
  BY HasConcat DEF HasChecks

-----------------------------------------------------------------------------
(* The files never change, nor does what depends on nothing else           *)

Frame == kind' = kind /\ old' = old /\ new' = new

LEMMA ThereFrame ==
  ASSUME Frame
  PROVE  There' = There
  BY DEF Frame, There, IsThere

LEMMA SamePartFrame ==
  ASSUME NEW p, NEW i, Frame
  PROVE  SamePart(p, i)' <=> SamePart(p, i)
  BY DEF Frame, SamePart, PlaceIn, Place

LEMMA HeaderTellsFrame ==
  ASSUME Frame
  PROVE  HeaderTells' <=> HeaderTells
  BY ThereFrame, SamePartFrame DEF Frame, HeaderTells, Place

LEMMA PreTidyFrame ==
  ASSUME Frame
  PROVE  PreTidy' <=> PreTidy
  BY ThereFrame, SamePartFrame DEF Frame, PreTidy, ShrinkingPartsStay, OnlyRomFsDiffers, NoPartitionAdded

LEMMA LaidFrame ==
  ASSUME Frame
  PROVE  Laid' <=> Laid
  BY DEF Frame, Laid

LEMMA HasPartFrame ==
  ASSUME NEW f, NEW p, NEW i, Frame
  PROVE  HasPart(f, p, i)' <=> HasPart(f, p, i)
  BY DEF Frame, HasPart, PlaceIn, Place

LEMMA ClaimsFrame ==
  ASSUME NEW f, Frame
  PROVE  Claims(f)' <=> Claims(f)
  BY ThereFrame DEF Frame, Claims, Place

LEMMA GoodFrame ==
  ASSUME NEW f, Frame
  PROVE  Good(f)' <=> Good(f)
  BY HeaderTellsFrame, ClaimsFrame, HasPartFrame DEF Frame, Good, Content

LEMMA SafeFrame ==
  ASSUME NEW f, NEW lo, NEW hi, Frame
  PROVE  Safe(f, lo, hi)' <=> Safe(f, lo, hi)
  BY GoodFrame DEF Frame, Safe

LEMMA FindsFrame ==
  ASSUME NEW f, NEW c, Frame
  PROVE  Finds(f, c)' <=> Finds(f, c)
  BY DEF Frame, Finds

LEMMA FineFrame ==
  ASSUME NEW c, NEW f, Frame
  PROVE  Fine(c, f)' <=> Fine(c, f)
  BY GoodFrame, SafeFrame, FindsFrame DEF Frame, Fine

LEMMA RunFrame ==
  ASSUME NEW u, NEW P, NEW t, Frame
  PROVE  Run(u, P, t)' <=> Run(u, P, t)
  BY FineFrame, GoodFrame DEF Frame, Run

LEMMA LeadsFrame ==
  ASSUME NEW u, NEW P, NEW f, NEW g, Frame
  PROVE  Leads(u, P, f, g)' <=> Leads(u, P, f, g)
  BY RunFrame DEF Frame, Leads

LEMMA AreOldFrame ==
  ASSUME NEW f, NEW at, NEW from, NEW size, Frame
  PROVE  AreOld(f, at, from, size)' <=> AreOld(f, at, from, size)
  BY DEF Frame, AreOld

LEMMA AreNewFrame ==
  ASSUME NEW f, NEW at, NEW size, Frame
  PROVE  AreNew(f, at, size)' <=> AreNew(f, at, size)
  BY DEF Frame, AreNew

LEMMA PartsNewFrame ==
  ASSUME NEW f, NEW p, Frame
  PROVE  PartsNew(f, p)' <=> PartsNew(f, p)
  BY HasPartFrame DEF Frame, PartsNew

LEMMA FinishedFrame ==
  ASSUME NEW f, NEW p, Frame
  PROVE  Finished(f, p)' <=> Finished(f, p)
  BY AreNewFrame, PartsNewFrame DEF Frame, Finished

LEMMA UntouchedFrame ==
  ASSUME NEW f, NEW p, Frame
  PROVE  Untouched(f, p)' <=> Untouched(f, p)
  BY AreOldFrame DEF Frame, Untouched

LEMMA AroundFrame ==
  ASSUME NEW f, Frame
  PROVE  Around(f)' <=> Around(f)
  BY DEF Frame, Around

LEMMA CardProgressFrame ==
  ASSUME NEW f, NEW D, NEW A, Frame
  PROVE  CardProgress(f, D, A)' <=> CardProgress(f, D, A)
  BY ThereFrame, FinishedFrame, UntouchedFrame, AroundFrame DEF Frame, CardProgress

LEMMA PartsProgressFrame ==
  ASSUME NEW f, NEW p, NEW done, Frame
  PROVE  PartsProgress(f, p, done)' <=> PartsProgress(f, p, done)
  BY AreOldFrame, AreNewFrame DEF Frame, PartsProgress

LEMMA RoomFrame ==
  ASSUME NEW D, NEW p, Frame
  PROVE  Room(D, p)' <=> Room(D, p)
  BY ThereFrame DEF Frame, Room, HighEnd

LEMMA InPartFrame ==
  ASSUME NEW f, NEW D, NEW p, NEW done, Frame
  PROVE  InPart(f, D, p, done)' <=> InPart(f, D, p, done)
  BY GoodFrame, CardProgressFrame, PartsProgressFrame DEF Frame, InPart

LEMMA NewButFrame ==
  ASSUME NEW f, Frame
  PROVE  NewBut(f)' <=> NewBut(f)
  BY GoodFrame, ThereFrame, FinishedFrame, AreNewFrame DEF Frame, NewBut

LEMMA IsNewFileFrame ==
  ASSUME NEW f, Frame
  PROVE  IsNewFile(f)' <=> IsNewFile(f)
  BY ThereFrame, HasPartFrame, AreNewFrame DEF Frame, IsNewFile, Place, Content

LEMMA HasChecksFrame ==
  ASSUME NEW u, Frame
  PROVE  HasChecks(u)' <=> HasChecks(u)
  BY ThereFrame DEF Frame, HasChecks, CheckOf

-----------------------------------------------------------------------------
(* The inductive invariant: CreatePatchFile                                *)

\* What the commands so far make of the old file.
Progress(f, ph, D, p, ov) ==
  /\ IsFile(f) /\ Good(f)
  /\ ph = "partition" => CardProgress(f, D, {})
  /\ ph = "part" => Room(D \ {p}, p) /\ InPart(f, D \ {p}, p, ov)
  /\ ph = "close" => NewBut(f)

\* A patch that has its checks, and no end yet.
Begun(u) ==
  /\ IsSeq(u) /\ \A m \in 1 .. Len(u) : u[m].Command # "Over"
  /\ kind = "file" => \A m \in 1 .. Len(u) : u[m].Command # "Check"
  /\ kind # "file" => HasChecks(u)

DiffInv(ph, D, p, ov, u) ==
  /\ D \in SUBSET Partitions /\ p \in Partitions /\ ov \in SUBSET Parts
  /\ ph = "diff" => D = {} /\ p = 0 /\ ov = {} /\ u = <<>>
  /\ ph = "partition" => kind = "cci"
  /\ ph = "part" => kind # "file" /\ p \in There /\ (kind = "cci" => p \in D) /\ (kind # "cci" => D = {})
  /\ ph \in {"partition", "part"} => Apart(old.Table, new.Table, D)
  /\ ph # "diff" =>
       /\ Begun(u)
       /\ \E P : /\ Placed(u, P)
                 /\ PreTidy => \E g : Leads(u, P, old.Bytes, g) /\ Progress(g, ph, D, p, ov)

LEMMA Grows ==
  ASSUME NEW u, NEW P, NEW c, NEW Q, Begun(u), Placed(u, P), Work(c, Q)
  PROVE  /\ Begun(u \o c) /\ Placed(u \o c, P \o Q)
         /\ \A f, g, h : Leads(u, P, f, g) /\ Leads(c, Q, g, h) => Leads(u \o c, P \o Q, f, h)
<1>1. Placed(c, Q) /\ IsSeq(u) /\ IsSeq(c) /\ Paired(u, P) /\ Paired(c, Q)
  BY DEF Work, Placed, Paired
<1>2. Placed(u \o c, P \o Q)
  BY <1>1, PlacedConcat
<1>3. \A f, g, h : Leads(u, P, f, g) /\ Leads(c, Q, g, h) => Leads(u \o c, P \o Q, f, h)
  BY <1>1, LeadsConcat
<1>4. /\ IsSeq(u \o c) /\ Len(u \o c) = Len(u) + Len(c) /\ Len(u) \in Nat /\ Len(c) \in Nat
      /\ \A i \in 1 .. Len(u) : (u \o c)[i] = u[i]
      /\ \A i \in (Len(u) + 1) .. (Len(u) + Len(c)) : (u \o c)[i] = c[i - Len(u)]
  BY <1>1, ConcatSeq, SeqProperties
<1>5. ASSUME NEW m \in 1 .. Len(u \o c)
      PROVE  (u \o c)[m].Command # "Over" /\ (kind = "file" => (u \o c)[m].Command # "Check")
  <2>1. CASE m \in 1 .. Len(u)
    BY <2>1, <1>4 DEF Begun
  <2>2. CASE m \in (Len(u) + 1) .. (Len(u) + Len(c))
    <3>1. m - Len(u) \in 1 .. Len(c)
      BY <2>2, <1>4
    <3> QED
      BY <2>2, <3>1, <1>4 DEF Work
  <2> QED
    BY <2>1, <2>2, <1>4
<1>6. kind # "file" => HasChecks(u \o c)
  BY <1>1, HasChecksConcat DEF Begun
<1> QED
  BY <1>2, <1>3, <1>4, <1>5, <1>6 DEF Begun

\* The old file, of which nothing is done.
LEMMA OldCard ==
  ASSUME Laid, kind # "file"
  PROVE  /\ IsFile(old.Bytes) /\ Around(old.Bytes) /\ \A q \in Partitions : Untouched(old.Bytes, q)
         /\ PreTidy => Good(old.Bytes)
<1> DEFINE f == old.Bytes
<1>1. IsPlaced(old) /\ IsFile(f) /\ (kind = "cci" => f[1] = OldNcsd)
  BY LaidPlaced DEF IsPlaced
<1>2. ASSUME NEW q \in Partitions
      PROVE  Untouched(f, q)
  <2> DEFINE F == old.Table[q].Offset
             so == old.Table[q].Size
             len == Length(f)
  <2>1. F \in Nat /\ so \in Nat /\ EndOf(old.Table[q]) <= len /\ DOMAIN f = 0 .. (len - 1) /\ len \in Nat
    BY <1>1, PartitionPlaced
  <2>2. EndOf(old.Table[q]) = F + so
    BY DEF EndOf
  <2> HIDE DEF F, so, len
  <2>3. AreOld(f, F, F, so)
    BY <2>1, <2>2 DEF AreOld
  <2> QED
    BY <2>3 DEF Untouched, F, so
<1>3. PreTidy => Good(f)
  <2>1. \A q \in There : Untouched(f, q)
    BY <1>2 DEF There
  <2> QED
    BY <1>1, <2>1, NewOrOldIsGood
<1>4. DOMAIN f = 0 .. (Length(f) - 1) /\ Length(f) \in Nat
  BY <1>1, FileProperties
<1>5. CASE kind = "cci"
  <2> DEFINE a == EndOfPartitions(old)
             b == EndOfPartitions(new)
  <2>1. /\ a \in Nat /\ b \in Nat /\ HeaderSize <= a /\ a <= CardSize /\ Length(f) = CardSize /\ f[0] = Magic
    BY <1>5, CardEnds
  <2>2. \A x \in a .. (CardSize - 1) : f[x] = Filling
    BY <1>1, <1>5 DEF IsPlaced, EndOfPartitions, EndOf
  <2>3. DOMAIN f = 0 .. (CardSize - 1)
    BY <1>4, <2>1
  <2> HIDE DEF a, b, f
  <2>4. 0 \in DOMAIN f /\ 1 \in DOMAIN f
    BY <2>1, <2>3, Numbers
  <2>5. \A x \in Larger(a, b) .. (CardSize - 1) : x \in DOMAIN f /\ f[x] = Filling
    <3>1. Larger(a, b) \in Nat /\ a <= Larger(a, b)
      BY <2>1 DEF Larger
    <3> DEFINE m == Larger(a, b)
    <3> HIDE DEF m
    <3>2. m \in Nat /\ a <= m
      BY <3>1 DEF m
    <3>3. \A x \in m .. (CardSize - 1) : x \in DOMAIN f /\ f[x] = Filling
      BY <3>2, <2>1, <2>2, <2>3, Numbers
    <3> QED
      BY <3>3 DEF m
  <2>6. Around(f)
    BY <1>1, <1>5, <2>1, <2>4, <2>5 DEF Around, a, b
  <2> QED
    BY <1>1, <1>2, <1>3, <2>6 DEF f
<1>6. CASE kind # "cci"
  <2>1. Length(new.Bytes) \in Nat
    BY LaidPlaced, FileProperties DEF IsPlaced
  <2>2. Length(f) <= Larger(Length(f), Length(new.Bytes))
    BY <1>4, <2>1 DEF Larger
  <2>3. Around(f)
    BY <1>4, <1>6, <2>2 DEF Around
  <2> QED
    BY <1>1, <1>2, <1>3, <2>3
<1> QED
  BY <1>5, <1>6

LEMMA BeginDiffStep ==
  ASSUME Laid
  PROVE  /\ kind # "file" => DiffInv(IF kind = "cci" THEN "partition" ELSE "part", {}, 0, {}, Checks)
         /\ kind = "file" => DiffInv("close", {}, 0, {}, Writes(0, Length(old.Bytes), 0, Length(new.Bytes)))
<1>1. ASSUME kind # "file"
      PROVE  DiffInv(IF kind = "cci" THEN "partition" ELSE "part", {}, 0, {}, Checks)
  <2> DEFINE f == old.Bytes
             ph == IF kind = "cci" THEN "partition" ELSE "part"
  <2>1. AreChecks(Checks) /\ HasChecks(Checks)
    BY ChecksMade
  <2>2. Begun(Checks)
    BY <1>1, <2>1 DEF Begun, AreChecks
  <2>3. PICK P : Placed(Checks, P) /\ \A g : IsFile(g) /\ Good(g) => Leads(Checks, P, g, g)
    BY <2>1, ChecksLead
  <2>4. 0 \in Partitions /\ 0 \in There
    BY Numbers DEF There, IsThere
  <2>5. IsFile(f) /\ Around(f) /\ (\A q \in Partitions : Untouched(f, q)) /\ (PreTidy => Good(f))
    BY <1>1, OldCard
  <2>6. \A A : CardProgress(f, {}, A)
    BY <2>5 DEF CardProgress
  <2>7. ASSUME PreTidy, kind # "cci"
        PROVE  Room({} \ {0}, 0) /\ InPart(f, {} \ {0}, 0, {})
    <3>1. IsPlaced(old) /\ IsPlaced(new)
      BY LaidPlaced
    <3>2. \A q \in Partitions \ {0} : old.Table[q].Size = 0
      BY <2>7, <3>1, PartitionPlaced DEF IsPlaced
    <3>3. Room({} \ {0}, 0)
      BY <3>2 DEF Room
    <3> DEFINE T == new.Table[0].Offset
               F == old.Table[0].Offset
               so == old.Table[0].Size
               sn == new.Table[0].Size
    <3>4. T = F /\ F \in Nat /\ so \in Nat /\ sn \in Nat
      BY <2>4, <3>1, PartitionPlaced
    <3>5. AreOld(f, F, F, so)
      BY <2>4, <2>5 DEF Untouched
    <3>6. AreOld(f, T, F, Common(so, sn))
      <4> HIDE DEF T, F, so, sn
      <4>1. \A k \in 0 .. (Common(so, sn) - 1) : k \in 0 .. (so - 1)
        BY <3>4 DEF Common
      <4> QED
        BY <3>4, <3>5, <4>1 DEF AreOld
    <3>7. PartsProgress(f, 0, {})
      BY <1>1, <2>4, <2>5, <2>7, <3>6, PartsStart
    <3>8. Apart(old.Parts[0], new.Parts[0], {})
      BY DEF Apart
    <3>9. {} \ {0} = {}
      OBVIOUS
    <3> QED
      BY <2>5, <2>6, <2>7, <3>3, <3>7, <3>8, <3>9 DEF InPart
  <2>8. PreTidy => Leads(Checks, P, f, f) /\ Progress(f, ph, {}, 0, {})
    BY <2>3, <2>5, <2>6, <2>7 DEF Progress
  <2>9. Apart(old.Table, new.Table, {})
    BY DEF Apart
  <2> QED
    BY <1>1, <2>2, <2>3, <2>4, <2>8, <2>9 DEF DiffInv
<1>2. ASSUME kind = "file"
      PROVE  DiffInv("close", {}, 0, {}, Writes(0, Length(old.Bytes), 0, Length(new.Bytes)))
  <2> DEFINE u == Writes(0, Length(old.Bytes), 0, Length(new.Bytes))
  <2>1. PICK P : Work(u, P) /\ \E g : Leads(u, P, old.Bytes, g) /\ NewBut(g)
    BY <1>2, FileStep
  <2>2. Placed(u, P) /\ IsSeq(u)
    BY <2>1 DEF Work, Placed, Paired
  <2>3. Begun(u)
    BY <1>2, <2>1, <2>2 DEF Begun, Work
  <2>4. \E g : Leads(u, P, old.Bytes, g) /\ Progress(g, "close", {}, 0, {})
    BY <2>1 DEF Progress, NewBut
  <2>5. 0 \in Partitions
    BY Numbers
  <2> HIDE DEF u
  <2>6. DiffInv("close", {}, 0, {}, u)
    BY <2>2, <2>3, <2>4, <2>5 DEF DiffInv
  <2> QED
    BY <2>6 DEF u
<1> QED
  BY <1>1, <1>2

LEMMA DiffPartitionStep ==
  ASSUME Laid, NEW D, NEW p0, NEW ov, NEW u, DiffInv("partition", D, p0, ov, u),
         Ready(old.Table, new.Table, D) # {}, NEW p, p = Turn(Ready(old.Table, new.Table, D))
  PROVE  DiffInv(IF new.Table[p].Size # 0 THEN "part" ELSE "partition", D \cup {p}, p, {},
                 u \o MoveTo(0, old.Table[p], 0, new.Table[p]))
<1> DEFINE c == MoveTo(0, old.Table[p], 0, new.Table[p])
           ph == IF new.Table[p].Size # 0 THEN "part" ELSE "partition"
<1>1. /\ D \in SUBSET Partitions /\ kind = "cci" /\ Apart(old.Table, new.Table, D) /\ Begun(u)
      /\ \E P : /\ Placed(u, P)
                /\ PreTidy => \E g : Leads(u, P, old.Bytes, g) /\ Progress(g, "partition", D, p0, ov)
  BY DEF DiffInv
<1>2. /\ p \in Partitions \ D /\ Apart(old.Table, new.Table, D \cup {p}) /\ Room(D, p)
      /\ new.Table[p].Size # 0 <=> p \in There
  BY <1>1, TurnOfPartition
<1>3. PICK P : /\ Placed(u, P)
               /\ PreTidy => \E g : Leads(u, P, old.Bytes, g) /\ Progress(g, "partition", D, p0, ov)
  BY <1>1
<1>4. PICK Q : /\ Work(c, Q)
               /\ \A f : PreTidy /\ IsFile(f) /\ Good(f) /\ CardProgress(f, D, {}) =>
                     \E g : Leads(c, Q, f, g) /\ AfterPartition(g, D, p)
  BY <1>1, <1>2, PartitionLeads
<1> HIDE DEF c
<1>5. /\ Begun(u \o c) /\ Placed(u \o c, P \o Q)
      /\ \A f, g, h : Leads(u, P, f, g) /\ Leads(c, Q, g, h) => Leads(u \o c, P \o Q, f, h)
  BY <1>1, <1>3, <1>4, Grows
<1>6. ASSUME PreTidy
      PROVE  \E g : Leads(u \o c, P \o Q, old.Bytes, g) /\ Progress(g, ph, D \cup {p}, p, {})
  <2>1. PICK f : Leads(u, P, old.Bytes, f) /\ Progress(f, "partition", D, p0, ov)
    BY <1>3, <1>6
  <2>2. PICK g : Leads(c, Q, f, g) /\ AfterPartition(g, D, p)
    BY <1>4, <1>6, <2>1 DEF Progress
  <2>3. Leads(u \o c, P \o Q, old.Bytes, g)
    BY <1>5, <2>1, <2>2
  <2>4. (D \cup {p}) \ {p} = D
    BY <1>2
  <2>5. Apart(old.Parts[p], new.Parts[p], {})
    BY DEF Apart
  <2>6. Progress(g, ph, D \cup {p}, p, {})
    <3>1. CASE new.Table[p].Size # 0
      <4>1. IsFile(g) /\ Good(g) /\ CardProgress(g, D, {p}) /\ PartsProgress(g, p, {})
        BY <1>2, <2>2, <3>1 DEF AfterPartition
      <4>2. InPart(g, D, p, {})
        BY <4>1, <2>5 DEF InPart
      <4>3. Room((D \cup {p}) \ {p}, p) /\ InPart(g, (D \cup {p}) \ {p}, p, {})
        BY <4>2, <1>2, <2>4
      <4>4. ph = "part"
        BY <3>1
      <4> QED
        BY <4>1, <4>3, <4>4 DEF Progress
    <3>2. CASE ~(new.Table[p].Size # 0)
      <4>1. IsFile(g) /\ Good(g) /\ CardProgress(g, D \cup {p}, {})
        BY <1>2, <2>2, <3>2 DEF AfterPartition
      <4> QED
        BY <4>1, <3>2 DEF Progress
    <3> QED
      BY <3>1, <3>2
  <2> QED
    BY <2>3, <2>6
<1>7. /\ D \cup {p} \in SUBSET Partitions /\ p \in Partitions /\ {} \in SUBSET Parts
      /\ ph \in {"part", "partition"} /\ (ph = "part" => p \in There)
  BY <1>1, <1>2
<1> HIDE DEF ph
<1>8. DiffInv(ph, D \cup {p}, p, {}, u \o c)
  BY <1>1, <1>2, <1>5, <1>6, <1>7 DEF DiffInv
<1> QED
  BY <1>8 DEF ph, c

LEMMA DiffPartStep ==
  ASSUME Laid, NEW D, NEW p, NEW ov, NEW u, DiffInv("part", D, p, ov, u), NEW i, IsTurn(p, ov, i)
  PROVE  DiffInv("part", D, p, ov \cup {i},
                 u \o PartCommands(old.Table[p].Offset, old.Parts[p][i], new.Table[p].Offset, new.Parts[p][i]))
<1> DEFINE c == PartCommands(old.Table[p].Offset, old.Parts[p][i], new.Table[p].Offset, new.Parts[p][i])
<1>1. /\ D \in SUBSET Partitions /\ p \in Partitions /\ ov \in SUBSET Parts
      /\ kind # "file" /\ p \in There /\ (kind = "cci" => p \in D) /\ (kind # "cci" => D = {})
      /\ Apart(old.Table, new.Table, D) /\ Begun(u)
      /\ \E P : /\ Placed(u, P)
                /\ PreTidy => \E g : Leads(u, P, old.Bytes, g) /\ Progress(g, "part", D, p, ov)
  BY DEF DiffInv
<1>2. PICK P : /\ Placed(u, P)
               /\ PreTidy => \E g : Leads(u, P, old.Bytes, g) /\ Progress(g, "part", D, p, ov)
  BY <1>1
<1>held. kind # "file" /\ p \in There /\ ov \in SUBSET Parts
  BY <1>1
<1>turn. i \in Parts \ ov /\ \E Q : Work(c, Q) /\ TurnLeads(c, Q, p, ov, i)
  <2>1. DoesTurn(c, p, ov, i)
    BY <1>held, PartStep
  <2> HIDE DEF c
  <2> QED
    BY <2>1 DEF DoesTurn
<1>3. i \in Parts \ ov
  BY <1>turn
<1>4. PICK Q : /\ Work(c, Q)
               /\ \A f, A : PreTidy /\ Room(A, p) /\ InPart(f, A, p, ov) =>
                     \E g : Leads(c, Q, f, g) /\ InPart(g, A, p, ov \cup {i})
  BY <1>turn DEF TurnLeads
<1> HIDE DEF c
<1>5. /\ Begun(u \o c) /\ Placed(u \o c, P \o Q)
      /\ \A f, g, h : Leads(u, P, f, g) /\ Leads(c, Q, g, h) => Leads(u \o c, P \o Q, f, h)
  BY <1>1, <1>2, <1>4, Grows
<1>6. ASSUME PreTidy
      PROVE  \E g : Leads(u \o c, P \o Q, old.Bytes, g) /\ Progress(g, "part", D, p, ov \cup {i})
  <2>1. PICK f : Leads(u, P, old.Bytes, f) /\ Progress(f, "part", D, p, ov)
    BY <1>2, <1>6
  <2>2. Room(D \ {p}, p) /\ InPart(f, D \ {p}, p, ov)
    BY <2>1 DEF Progress
  <2>3. PICK g : Leads(c, Q, f, g) /\ InPart(g, D \ {p}, p, ov \cup {i})
    BY <1>4, <1>6, <2>2
  <2>4. Progress(g, "part", D, p, ov \cup {i})
    BY <2>2, <2>3 DEF Progress, InPart
  <2> QED
    BY <1>5, <2>1, <2>3, <2>4
<1>7. ov \cup {i} \in SUBSET Parts
  BY <1>1, <1>3
<1>8. DiffInv("part", D, p, ov \cup {i}, u \o c)
  BY <1>1, <1>5, <1>6, <1>7 DEF DiffInv
<1> QED
  BY <1>8 DEF c

LEMMA DiffHeaderStep ==
  ASSUME Laid, NEW D, NEW p, NEW u, DiffInv("part", D, p, Parts, u)
  PROVE  DiffInv(IF kind = "cci" THEN "partition" ELSE "close", D, p, Parts,
                 u \o Writes(old.Table[p].Offset, HeaderSize, new.Table[p].Offset, HeaderSize))
<1> DEFINE c == Writes(old.Table[p].Offset, HeaderSize, new.Table[p].Offset, HeaderSize)
           ph == IF kind = "cci" THEN "partition" ELSE "close"
<1>1. /\ D \in SUBSET Partitions /\ p \in Partitions
      /\ kind # "file" /\ p \in There /\ (kind = "cci" => p \in D) /\ (kind # "cci" => D = {})
      /\ Apart(old.Table, new.Table, D) /\ Begun(u)
      /\ \E P : /\ Placed(u, P)
                /\ PreTidy => \E g : Leads(u, P, old.Bytes, g) /\ Progress(g, "part", D, p, Parts)
  BY DEF DiffInv
<1>2. PICK P : /\ Placed(u, P)
               /\ PreTidy => \E g : Leads(u, P, old.Bytes, g) /\ Progress(g, "part", D, p, Parts)
  BY <1>1
<1>3. PICK Q : /\ Work(c, Q)
               /\ \A f, A : PreTidy /\ Room(A, p) /\ InPart(f, A, p, Parts) =>
                     \E g : Leads(c, Q, f, g) /\ IsFile(g) /\ Good(g) /\ CardProgress(g, A \cup {p}, {})
  BY <1>1, HeaderStep
<1> HIDE DEF c
<1>4. /\ Begun(u \o c) /\ Placed(u \o c, P \o Q)
      /\ \A f, g, h : Leads(u, P, f, g) /\ Leads(c, Q, g, h) => Leads(u \o c, P \o Q, f, h)
  BY <1>1, <1>2, <1>3, Grows
<1>5. ASSUME PreTidy
      PROVE  \E g : Leads(u \o c, P \o Q, old.Bytes, g) /\ Progress(g, ph, D, p, Parts)
  <2>1. PICK f : Leads(u, P, old.Bytes, f) /\ Progress(f, "part", D, p, Parts)
    BY <1>2, <1>5
  <2>2. Room(D \ {p}, p) /\ InPart(f, D \ {p}, p, Parts)
    BY <2>1 DEF Progress
  <2>3. PICK g : Leads(c, Q, f, g) /\ IsFile(g) /\ Good(g) /\ CardProgress(g, (D \ {p}) \cup {p}, {})
    BY <1>3, <1>5, <2>2
  <2>4. Progress(g, ph, D, p, Parts)
    <3>1. CASE kind = "cci"
      <4>1. (D \ {p}) \cup {p} = D
        BY <1>1, <3>1
      <4>2. CardProgress(g, D, {})
        BY <2>3, <4>1
      <4> QED
        BY <2>3, <3>1, <4>2 DEF Progress
    <3>2. CASE kind # "cci"
      <4>1. \A q \in There : q = p
        <5>1. IsPlaced(new)
          BY LaidPlaced
        <5> QED
          BY <1>1, <3>2, <5>1 DEF IsPlaced, There
      <4>2. \A q \in There : Finished(g, q)
        BY <2>3, <4>1 DEF CardProgress
      <4>3. Length(g) <= Larger(Length(old.Bytes), Length(new.Bytes))
        BY <2>3, <3>2 DEF CardProgress, Around
      <4>4. NewBut(g)
        BY <1>1, <2>3, <3>2, <4>2, <4>3 DEF NewBut
      <4> QED
        BY <2>3, <3>2, <4>4 DEF Progress
    <3> QED
      BY <3>1, <3>2
  <2> QED
    BY <1>4, <2>1, <2>3, <2>4
<1>6. ph \in {"partition", "close"} /\ (ph = "partition" => kind = "cci") /\ Parts \in SUBSET Parts
  OBVIOUS
<1> HIDE DEF ph
<1>7. DiffInv(ph, D, p, Parts, u \o c)
  BY <1>1, <1>4, <1>5, <1>6 DEF DiffInv
<1> QED
  BY <1>7 DEF c, ph

LEMMA DiffNcsdHeaderStep ==
  ASSUME Laid, NEW p, NEW ov, NEW u, DiffInv("partition", Partitions, p, ov, u)
  PROVE  LET end == EndOfPartitions(new)
             rest == EndOfPartitions(old) - end
         IN DiffInv("close", Partitions, p, ov,
                    u \o Writes(0, HeaderSize, 0, HeaderSize)
                      \o (IF rest > 0 THEN <<Set(end, rest, Filling)>> ELSE <<>>))
<1> DEFINE end == EndOfPartitions(new)
           rest == EndOfPartitions(old) - end
           c == Writes(0, HeaderSize, 0, HeaderSize)
           d == IF rest > 0 THEN <<Set(end, rest, Filling)>> ELSE <<>>
<1>1. /\ p \in Partitions /\ ov \in SUBSET Parts /\ kind = "cci" /\ Begun(u)
      /\ \E P : /\ Placed(u, P)
                /\ PreTidy => \E g : Leads(u, P, old.Bytes, g) /\ Progress(g, "partition", Partitions, p, ov)
  BY DEF DiffInv
<1>2. PICK P : /\ Placed(u, P)
               /\ PreTidy => \E g : Leads(u, P, old.Bytes, g) /\ Progress(g, "partition", Partitions, p, ov)
  BY <1>1
<1>3. PICK Q : /\ Work(c, Q)
               /\ \A f : IsFile(f) /\ Good(f) /\ CardProgress(f, Partitions, {}) =>
                     \E g : Leads(c, Q, f, g) /\ NcsdWritten(g)
  BY <1>1, NcsdHeaderStep
<1>4. PICK R : /\ Work(d, R)
               /\ \A f : NcsdWritten(f) => \E g : Leads(d, R, f, g) /\ NewBut(g)
  BY <1>1, FillStep
<1> HIDE DEF c, d
<1>5. /\ Begun(u \o c) /\ Placed(u \o c, P \o Q)
      /\ \A f, g, h : Leads(u, P, f, g) /\ Leads(c, Q, g, h) => Leads(u \o c, P \o Q, f, h)
  BY <1>1, <1>2, <1>3, Grows
<1>6. /\ Begun((u \o c) \o d) /\ Placed((u \o c) \o d, (P \o Q) \o R)
      /\ \A f, g, h : Leads(u \o c, P \o Q, f, g) /\ Leads(d, R, g, h) => Leads((u \o c) \o d, (P \o Q) \o R, f, h)
  BY <1>4, <1>5, Grows
<1>7. ASSUME PreTidy
      PROVE  \E g : Leads((u \o c) \o d, (P \o Q) \o R, old.Bytes, g) /\ Progress(g, "close", Partitions, p, ov)
  <2>1. PICK f : Leads(u, P, old.Bytes, f) /\ Progress(f, "partition", Partitions, p, ov)
    BY <1>2, <1>7
  <2>2. PICK g : Leads(c, Q, f, g) /\ NcsdWritten(g)
    BY <1>3, <2>1 DEF Progress
  <2>3. PICK h : Leads(d, R, g, h) /\ NewBut(h)
    BY <1>4, <2>2
  <2>4. Progress(h, "close", Partitions, p, ov)
    BY <2>3 DEF Progress, NewBut
  <2> QED
    BY <1>5, <1>6, <2>1, <2>2, <2>3, <2>4
<1>8. Partitions \in SUBSET Partitions
  OBVIOUS
<1>9. DiffInv("close", Partitions, p, ov, (u \o c) \o d)
  BY <1>1, <1>6, <1>7, <1>8 DEF DiffInv
<1> QED
  BY <1>9 DEF c, d

-----------------------------------------------------------------------------
(* The inductive invariant: ApplyPatchFile                                 *)

\* A patch file: its places, and the files that it turns the old one into.
Made(u, P, t) ==
  /\ Placed(u, P) /\ Len(u) # 0
  /\ \A m \in 1 .. Len(u) : u[m].Command = "Over" <=> m = Len(u)
  /\ kind = "file" => \A m \in 1 .. Len(u) : u[m].Command # "Check"
  /\ kind # "file" => HasChecks(u)
  /\ PreTidy => Run(u, P, t) /\ t[0] = old.Bytes /\ IsNewFile(t[Len(u)])

\* A relative seek starts where the write before it ended.
Positioned(u, P, nx, ps, ck) ==
  /\ nx \in 1 .. Len(u)
  /\ ck # 0 => IsMove(u[nx]) /\ ck < Len(Chunks(u[nx].Size, u[nx].From > u[nx].To))
  /\ nx > 1 /\ ck = 0 /\ u[nx - 1].Command = "SeekWrite" => ps = P[nx - 1] + Len(u[nx - 1].Data)

\* The target in the first attempt.
Follows(u, t, ph, tg, nx, ck, cl) ==
  /\ ph = "check" => tg = old.Bytes
  /\ ph = "apply" => tg = Partly(t[nx - 1], u[nx], ck)
  /\ ph = "done" => IF cl THEN tg = old.Bytes /\ kind # "file" /\ Claims(old.Bytes) ELSE tg = t[Len(u)]

Applies(u, P, t, ph, tg, nx, ps, ck, cl, it) ==
  /\ IsFile(tg) /\ ps \in Nat /\ ck \in Nat /\ cl \in BOOLEAN /\ it \in 0 .. MaxInterrupts
  /\ ph \in {"check", "apply"} => ~cl
  /\ ph = "apply" => Positioned(u, P, nx, ps, ck)
  /\ it = 0 /\ PreTidy => Follows(u, t, ph, tg, nx, ck, cl)
  /\ it = 1 /\ PreTidy /\ ph = "check" => Good(tg)
  /\ it = 1 /\ PreTidy /\ HeaderTells /\ cl => \A c \in Content(new) : HasPart(tg, c[1], c[2])

ApplyInv(u, ph, tg, nx, ps, ck, cl, it) ==
  \E P, t : Made(u, P, t) /\ Applies(u, P, t, ph, tg, nx, ps, ck, cl, it)

LEMMA CloseStep ==
  ASSUME Laid, NEW D, NEW p, NEW ov, NEW u, DiffInv("close", D, p, ov, u)
  PROVE  ApplyInv(u \o (IF Length(new.Bytes) < Length(old.Bytes) THEN <<ChangeSize(Length(new.Bytes))>> ELSE <<>>)
                    \o <<Over>>,
                  "check", old.Bytes, 1, 0, 0, FALSE, 0)
<1> DEFINE c == IF Length(new.Bytes) < Length(old.Bytes) THEN <<ChangeSize(Length(new.Bytes))>> ELSE <<>>
           v == u \o c
           w == v \o <<Over>>
<1>1. /\ Begun(u)
      /\ \E P : /\ Placed(u, P)
                /\ PreTidy => \E g : Leads(u, P, old.Bytes, g) /\ Progress(g, "close", D, p, ov)
  BY DEF DiffInv
<1>2. PICK P : /\ Placed(u, P)
               /\ PreTidy => \E g : Leads(u, P, old.Bytes, g) /\ Progress(g, "close", D, p, ov)
  BY <1>1
<1>3. PICK Q : /\ Work(c, Q)
               /\ \A f : NewBut(f) => \E g : Leads(c, Q, f, g) /\ IsFile(g) /\ Good(g) /\ IsNewFile(g)
  BY ResizeStep
<1> DEFINE R == P \o Q
           S == R \o <<0>>
<1> HIDE DEF c
<1>4. /\ Begun(v) /\ Placed(v, R)
      /\ \A f, g, h : Leads(u, P, f, g) /\ Leads(c, Q, g, h) => Leads(v, R, f, h)
  BY <1>1, <1>2, <1>3, Grows
<1> HIDE DEF v, R
<1>5. /\ IsSeq(v) /\ IsSeq(<<Over>>) /\ Len(v) \in Nat /\ Len(<<Over>>) = 1 /\ <<Over>>[1] = Over
      /\ Paired(v, R) /\ Paired(<<Over>>, <<0>>) /\ Placed(<<Over>>, <<0>>)
  BY <1>4, OneSeq, OverStep, SeqProperties DEF Begun, Placed, Paired
<1>6. Placed(w, S)
  BY <1>4, <1>5, PlacedConcat
<1>7. /\ IsSeq(w) /\ Len(w) = Len(v) + 1 /\ (\A i \in 1 .. Len(v) : w[i] = v[i]) /\ w[Len(v) + 1] = Over
  <2>1. /\ IsSeq(w) /\ Len(w) = Len(v) + Len(<<Over>>)
        /\ \A i \in 1 .. Len(v) : w[i] = v[i]
        /\ \A i \in 1 .. Len(<<Over>>) : w[Len(v) + i] = <<Over>>[i]
    BY <1>5, ConcatSeq
  <2>2. 1 \in 1 .. Len(<<Over>>)
    BY <1>5
  <2> QED
    BY <2>1, <2>2, <1>5
<1>8. PreTidy => \E g : Leads(w, S, old.Bytes, g) /\ IsNewFile(g)
  <2> SUFFICES ASSUME PreTidy PROVE \E g : Leads(w, S, old.Bytes, g) /\ IsNewFile(g)
    OBVIOUS
  <2>1. PICK f : Leads(u, P, old.Bytes, f) /\ NewBut(f)
    BY <1>2 DEF Progress
  <2>2. PICK g : Leads(c, Q, f, g) /\ IsFile(g) /\ Good(g) /\ IsNewFile(g)
    BY <1>3, <2>1
  <2>3. Leads(v, R, old.Bytes, g) /\ Leads(<<Over>>, <<0>>, g, g)
    BY <1>4, <2>1, <2>2, OverStep
  <2>4. Leads(w, S, old.Bytes, g)
    BY <1>5, <2>3, LeadsConcat
  <2> QED
    BY <2>2, <2>4
<1> HIDE DEF w, S
<1>9. PICK t : PreTidy => Run(w, S, t) /\ t[0] = old.Bytes /\ IsNewFile(t[Len(w)])
  BY <1>8 DEF Leads
<1>10. \A m \in 1 .. Len(w) : w[m].Command = "Over" <=> m = Len(w)
  <2>1. Over.Command = "Over"
    BY DEF Over
  <2>2. \A m \in 1 .. Len(v) : v[m].Command # "Over"
    BY <1>4 DEF Begun
  <2> QED
    BY <1>5, <1>7, <2>1, <2>2
<1>11. kind = "file" => \A m \in 1 .. Len(w) : w[m].Command # "Check"
  <2>1. Over.Command # "Check"
    BY DEF Over
  <2>2. kind = "file" => \A m \in 1 .. Len(v) : v[m].Command # "Check"
    BY <1>4 DEF Begun
  <2> QED
    BY <1>5, <1>7, <2>1, <2>2
<1>12. kind # "file" => HasChecks(w)
  BY <1>4, <1>5, HasChecksConcat DEF Begun, w
<1>13. Made(w, S, t)
  <2>1. Len(w) # 0
    BY <1>5, <1>7
  <2> QED
    BY <2>1, <1>6, <1>9, <1>10, <1>11, <1>12 DEF Made
<1>14. Applies(w, S, t, "check", old.Bytes, 1, 0, 0, FALSE, 0)
  <2>1. IsFile(old.Bytes)
    BY LaidPlaced DEF IsPlaced
  <2>2. 0 \in 0 .. MaxInterrupts
    BY PatchAssumption
  <2> QED
    BY <2>1, <2>2 DEF Applies, Follows
<1>15. ApplyInv(w, "check", old.Bytes, 1, 0, 0, FALSE, 0)
  BY <1>13, <1>14 DEF ApplyInv
<1> QED
  BY <1>15 DEF w, v, c

\* All checks of the patch hold, and there is one.
Passes(u, f) ==
  LET checks == {i \in DOMAIN u : u[i].Command = "Check"} IN
  checks # {} /\ \A i \in checks : f[u[i].Offset] = u[i].Hash

\* The patch of files without a type has no checks, any other those of all headers.
LEMMA PassingClaims ==
  ASSUME NEW u, NEW P, NEW t, Made(u, P, t), NEW f, Passes(u, f)
  PROVE  kind # "file" /\ Claims(f)
<1>1. IsSeq(u) /\ DOMAIN u = 1 .. Len(u)
  BY SeqProperties DEF Made, Placed, Paired
<1>2. kind # "file"
  BY <1>1 DEF Made, Passes
<1>3. ASSUME NEW at, NEW hash, Has(u, Check(at, hash))
      PROVE  f[at] = hash
  <2>1. PICK m \in 1 .. Len(u) : u[m] = Check(at, hash)
    BY <1>3 DEF Has
  <2>2. u[m].Command = "Check" /\ u[m].Offset = at /\ u[m].Hash = hash
    BY <2>1 DEF Check
  <2> QED
    BY <1>1, <2>1, <2>2 DEF Passes
<1>4. HasChecks(u)
  BY <1>2 DEF Made
<1>5. kind = "cci" => f[1] = new.Bytes[1]
  BY <1>3, <1>4 DEF HasChecks
<1>6. ASSUME NEW p \in There
      PROVE  f[Place(new, p) + 1] = new.Bytes[Place(new, p) + 1]
  <2>1. Has(u, Check(Place(new, p) + 1, new.Bytes[Place(new, p) + 1]))
    BY <1>4 DEF HasChecks, CheckOf, Place
  <2> QED
    BY <1>3, <2>1
<1> QED
  BY <1>2, <1>5, <1>6 DEF Claims

LEMMA CheckStep ==
  ASSUME NEW u, NEW tg, NEW nx, NEW ps, NEW ck, NEW cl, NEW it, ApplyInv(u, "check", tg, nx, ps, ck, cl, it)
  PROVE  /\ Passes(u, tg) => ApplyInv(u, "done", tg, 1, 0, 0, TRUE, it)
         /\ ~Passes(u, tg) => ApplyInv(u, "apply", tg, 1, 0, 0, FALSE, it)
<1>1. PICK P, t : Made(u, P, t) /\ Applies(u, P, t, "check", tg, nx, ps, ck, cl, it)
  BY DEF ApplyInv
<1>2. /\ IsFile(tg) /\ it \in 0 .. MaxInterrupts
      /\ it = 0 /\ PreTidy => tg = old.Bytes
      /\ it = 1 /\ PreTidy => Good(tg)
  BY <1>1 DEF Applies, Follows
<1>3. ASSUME Passes(u, tg)
      PROVE  Applies(u, P, t, "done", tg, 1, 0, 0, TRUE, it)
  <2>1. kind # "file" /\ Claims(tg)
    BY <1>1, <1>3, PassingClaims
  <2>2. it = 0 /\ PreTidy => Follows(u, t, "done", tg, 1, 0, TRUE)
    BY <1>2, <2>1 DEF Follows
  <2>3. it = 1 /\ PreTidy /\ HeaderTells => \A c \in Content(new) : HasPart(tg, c[1], c[2])
    BY <1>2, <2>1 DEF Good
  <2> QED
    BY <1>2, <2>2, <2>3 DEF Applies
<1>4. Applies(u, P, t, "apply", tg, 1, 0, 0, FALSE, it)
  <2>1. Len(u) \in Nat \ {0} /\ (PreTidy => t[0] = old.Bytes)
    BY <1>1, SeqProperties DEF Made, Placed, Paired
  <2>2. Positioned(u, P, 1, 0, 0)
    BY <2>1 DEF Positioned
  <2>3. it = 0 /\ PreTidy => Follows(u, t, "apply", tg, 1, 0, FALSE)
    BY <1>2, <2>1 DEF Follows, Partly
  <2> QED
    BY <1>2, <2>2, <2>3 DEF Applies
<1> QED
  BY <1>1, <1>3, <1>4 DEF ApplyInv

\* A command makes a file of a file.
LEMMA StepFile ==
  ASSUME NEW c, IsCommand(c), NEW at \in Nat, NEW f, IsFile(f)
  PROVE  IsFile(Step(c, at, f))
<1>1. CASE IsMove(c)
  <2>1. c.Command = "Move" /\ c.From \in Nat /\ c.To \in Nat /\ c.Size \in Nat
    BY <1>1 DEF IsMove
  <2>2. IsSeq(Chunk(f, c.From, c.Size))
    BY <2>1, ChunkSeq
  <2>3. IsFile(Written(f, c.To, Chunk(f, c.From, c.Size)))
    BY <2>1, <2>2, WrittenFile DEF IsWritten
  <2> QED
    BY <2>1, <2>3 DEF Step
<1>2. CASE c.Command = "Set" /\ c.Offset \in Nat /\ c.Size \in Nat
  <2> DEFINE data == [k \in 1 .. c.Size |-> c.Byte]
  <2>1. data = [k \in 1 .. c.Size |-> data[k]]
    OBVIOUS
  <2> HIDE DEF data
  <2>2. IsSeq(data)
    BY <1>2, <2>1, TupleSeq
  <2>3. IsFile(Written(f, c.Offset, data))
    BY <1>2, <2>2, WrittenFile DEF IsWritten
  <2> QED
    BY <1>2, <2>3 DEF Step, data
<1>3. CASE c.Command = "ChangeSize" /\ c.Size \in Nat
  <2> DEFINE g == [x \in 0 .. (c.Size - 1) |-> IF x \in DOMAIN f THEN f[x] ELSE Filler]
  <2>1. g = [x \in DOMAIN g |-> g[x]] /\ DOMAIN g = 0 .. (c.Size - 1)
    OBVIOUS
  <2>2. Step(c, at, f) = g
    BY <1>3 DEF Step
  <2> HIDE DEF g
  <2>3. IsFile(g)
    BY <1>3, <2>1 DEF IsFile
  <2> QED
    BY <2>2, <2>3
<1>4. CASE c.Command = "SeekWrite" /\ IsSeq(c.Data)
  <2>1. IsFile(Written(f, at, c.Data))
    BY <1>4, WrittenFile DEF IsWritten
  <2> QED
    BY <1>4, <2>1 DEF Step
<1>5. CASE c.Command \in {"Over", "Check"}
  BY <1>5 DEF Step
<1> QED
  BY <1>1, <1>2, <1>3, <1>4, <1>5 DEF IsCommand

\* What is known of the command that is due.
LEMMA CommandDue ==
  ASSUME NEW u, NEW P, NEW t, Made(u, P, t), NEW tg, NEW nx, NEW ps, NEW ck, NEW cl, NEW it,
         Applies(u, P, t, "apply", tg, nx, ps, ck, cl, it)
  PROVE  /\ nx \in 1 .. Len(u) /\ Len(u) \in Nat /\ IsSeq(u) /\ DOMAIN u = 1 .. Len(u)
         /\ IsCommand(u[nx]) /\ P[nx] \in Nat /\ PlacedAt(u, P, nx)
         /\ u[nx].Command # "Move" => ck = 0
         /\ u[nx].Command # "Over" => nx + 1 \in 1 .. Len(u)
         /\ u[nx].Command = "Over" => nx = Len(u)
         /\ it = 0 /\ PreTidy => /\ tg = Partly(t[nx - 1], u[nx], ck)
                                 /\ Fine(u[nx], t[nx - 1])
                                 /\ t[nx] = Step(u[nx], P[nx], t[nx - 1])
<1>1. IsSeq(u) /\ DOMAIN u = 1 .. Len(u) /\ Len(u) \in Nat
  BY SeqProperties DEF Made, Placed, Paired
<1>2. nx \in 1 .. Len(u) /\ (ck # 0 => IsMove(u[nx]))
  BY DEF Applies, Positioned
<1>3. PlacedAt(u, P, nx)
  BY <1>2 DEF Made, Placed
<1>4. u[nx].Command = "Over" <=> nx = Len(u)
  BY <1>2 DEF Made
<1>5. it = 0 /\ PreTidy => /\ tg = Partly(t[nx - 1], u[nx], ck)
                           /\ Fine(u[nx], t[nx - 1])
                           /\ t[nx] = Step(u[nx], P[nx], t[nx - 1])
  BY <1>2 DEF Made, Applies, Follows, Run
<1>6. IsCommand(u[nx]) /\ P[nx] \in Nat
  BY <1>3 DEF PlacedAt
<1>7. u[nx].Command # "Move" => ck = 0
  BY <1>2 DEF IsMove
<1>8. u[nx].Command # "Over" => nx + 1 \in 1 .. Len(u)
  <2> DEFINE n == Len(u)
  <2>1. nx \in 1 .. n /\ n \in Nat
    BY <1>1, <1>2
  <2> HIDE DEF n
  <2>2. nx # n => nx + 1 \in 1 .. n
    BY <2>1
  <2> QED
    BY <1>4, <2>2 DEF n
<1> QED
  BY <1>1, <1>2, <1>3, <1>4, <1>5, <1>6, <1>7, <1>8

\* The next command is due.
LEMMA NextDue ==
  ASSUME NEW u, NEW P, NEW t, Made(u, P, t), NEW tg, NEW nx, NEW ps, NEW ck, NEW cl, NEW it,
         Applies(u, P, t, "apply", tg, nx, ps, ck, cl, it), u[nx].Command # "Over",
         NEW g, IsFile(g), NEW pos2 \in Nat,
         it = 0 /\ PreTidy => g = t[nx],
         u[nx].Command = "SeekWrite" => pos2 = P[nx] + Len(u[nx].Data)
  PROVE  Applies(u, P, t, "apply", g, nx + 1, pos2, 0, cl, it)
<1> DEFINE l == nx + 1
<1>1. nx \in Nat /\ l \in 1 .. Len(u) /\ l - 1 = nx
  BY CommandDue
<1> HIDE DEF l
<1>2. Positioned(u, P, l, pos2, 0)
  BY <1>1 DEF Positioned
<1>3. it = 0 /\ PreTidy => Follows(u, t, "apply", g, l, 0, cl)
  BY <1>1 DEF Follows, Partly
<1>4. Applies(u, P, t, "apply", g, l, pos2, 0, cl, it)
  BY <1>2, <1>3 DEF Applies
<1> QED
  BY <1>4 DEF l

LEMMA CommandStep ==
  ASSUME NEW u, NEW tg, NEW nx, NEW ps, NEW ck, NEW cl, NEW it, ApplyInv(u, "apply", tg, nx, ps, ck, cl, it),
         u[nx].Command # "Move"
  PROVE  LET c == u[nx]
             at == IF c.SeekSet THEN c.Offset ELSE ps + c.Offset
         IN /\ ck = 0
            /\ c.Command = "Over" => ApplyInv(u, "done", tg, nx + 1, ps, ck, cl, it)
            /\ c.Command = "Check" => ApplyInv(u, "apply", tg, nx + 1, ps, ck, cl, it)
            /\ c.Command = "Set" =>
                 ApplyInv(u, "apply", Written(tg, c.Offset, [k \in 1 .. c.Size |-> c.Byte]), nx + 1,
                          c.Offset + c.Size, ck, cl, it)
            /\ c.Command = "ChangeSize" =>
                 ApplyInv(u, "apply", [x \in 0 .. (c.Size - 1) |-> IF x \in DOMAIN tg THEN tg[x] ELSE Filler],
                          nx + 1, ps, ck, cl, it)
            /\ c.Command = "SeekWrite" =>
                 ApplyInv(u, "apply", Written(tg, at, c.Data), nx + 1, at + Len(c.Data), ck, cl, it)
<1> DEFINE c == u[nx]
           at == IF c.SeekSet THEN c.Offset ELSE ps + c.Offset
<1>1. PICK P, t : Made(u, P, t) /\ Applies(u, P, t, "apply", tg, nx, ps, ck, cl, it)
  BY DEF ApplyInv
<1>2. /\ nx \in 1 .. Len(u) /\ IsCommand(c) /\ P[nx] \in Nat /\ PlacedAt(u, P, nx)
      /\ ck = 0 /\ (c.Command = "Over" => nx = Len(u))
      /\ it = 0 /\ PreTidy => tg = t[nx - 1] /\ t[nx] = Step(c, P[nx], tg)
  BY <1>1, CommandDue DEF Partly
<1>3. IsFile(tg) /\ ps \in Nat /\ cl \in BOOLEAN /\ ~cl /\ it \in 0 .. MaxInterrupts /\ Positioned(u, P, nx, ps, 0)
  BY <1>1, <1>2 DEF Applies
<1>4. IsFile(Step(c, P[nx], tg))
  BY <1>2, <1>3, StepFile
<1>5. ASSUME c.Command # "Over", NEW e \in Nat, c.Command = "SeekWrite" => e = P[nx] + Len(c.Data)
      PROVE  ApplyInv(u, "apply", Step(c, P[nx], tg), nx + 1, e, 0, cl, it)
  <2> DEFINE g == Step(c, P[nx], tg)
  <2>1. IsFile(g) /\ (it = 0 /\ PreTidy => g = t[nx])
    BY <1>2, <1>4
  <2> HIDE DEF g
  <2>2. Applies(u, P, t, "apply", g, nx + 1, e, 0, cl, it)
    BY <1>1, <1>5, <2>1, NextDue
  <2> QED
    BY <1>1, <2>2 DEF ApplyInv, g
<1>6. ASSUME c.Command = "Over"
      PROVE  ApplyInv(u, "done", tg, nx + 1, ps, 0, cl, it)
  <2>1. it = 0 /\ PreTidy => Follows(u, t, "done", tg, nx + 1, 0, cl)
    <3>1. Step(c, P[nx], tg) = tg
      BY <1>6 DEF Step
    <3> QED
      BY <1>2, <1>3, <1>6, <3>1 DEF Follows
  <2>2. Applies(u, P, t, "done", tg, nx + 1, ps, 0, cl, it)
    BY <1>3, <2>1 DEF Applies
  <2> QED
    BY <1>1, <2>2 DEF ApplyInv
<1>7. ASSUME c.Command = "Check"
      PROVE  ApplyInv(u, "apply", tg, nx + 1, ps, 0, cl, it)
  <2>1. Step(c, P[nx], tg) = tg
    BY <1>7 DEF Step
  <2> QED
    BY <1>3, <1>5, <1>7, <2>1
<1>8. ASSUME c.Command = "Set"
      PROVE  ApplyInv(u, "apply", Written(tg, c.Offset, [k \in 1 .. c.Size |-> c.Byte]), nx + 1,
                      c.Offset + c.Size, 0, cl, it)
  <2>1. Step(c, P[nx], tg) = Written(tg, c.Offset, [k \in 1 .. c.Size |-> c.Byte])
    BY <1>8 DEF Step
  <2>2. c.Offset + c.Size \in Nat
    BY <1>2, <1>8 DEF IsCommand, IsMove
  <2> HIDE DEF c
  <2> QED
    BY <1>5, <1>8, <2>1, <2>2
<1>9. ASSUME c.Command = "ChangeSize"
      PROVE  ApplyInv(u, "apply", [x \in 0 .. (c.Size - 1) |-> IF x \in DOMAIN tg THEN tg[x] ELSE Filler],
                      nx + 1, ps, 0, cl, it)
  <2>1. Step(c, P[nx], tg) = [x \in 0 .. (c.Size - 1) |-> IF x \in DOMAIN tg THEN tg[x] ELSE Filler]
    BY <1>9 DEF Step
  <2> HIDE DEF c
  <2> QED
    BY <1>3, <1>5, <1>9, <2>1
<1>10. ASSUME c.Command = "SeekWrite"
       PROVE  ApplyInv(u, "apply", Written(tg, at, c.Data), nx + 1, at + Len(c.Data), 0, cl, it)
  <2>1. at = P[nx]
    <3>1. CASE c.SeekSet
      BY <1>2, <1>10, <3>1 DEF PlacedAt
    <3>2. CASE ~c.SeekSet
      <4>1. /\ nx > 1 /\ u[nx - 1].Command = "SeekWrite"
            /\ P[nx] = P[nx - 1] + Len(u[nx - 1].Data) + c.Offset
        BY <1>2, <1>10, <3>2 DEF PlacedAt
      <4>2. ps = P[nx - 1] + Len(u[nx - 1].Data)
        BY <1>3, <4>1 DEF Positioned
      <4> QED
        BY <3>2, <4>1, <4>2
    <3> QED
      BY <3>1, <3>2
  <2>2. Step(c, P[nx], tg) = Written(tg, P[nx], c.Data)
    BY <1>10 DEF Step
  <2>3. IsSeq(c.Data)
    BY <1>2, <1>10 DEF IsCommand, IsMove
  <2>4. Len(c.Data) \in Nat
    BY <2>3, SeqProperties
  <2>5. P[nx] + Len(c.Data) \in Nat
    BY <1>2, <2>4
  <2> HIDE DEF at, c
  <2>6. ApplyInv(u, "apply", Written(tg, P[nx], c.Data), nx + 1, P[nx] + Len(c.Data), 0, cl, it)
    BY <1>5, <1>10, <2>2, <2>5
  <2> QED
    BY <2>1, <2>6
<1> HIDE DEF at
<1> QED
  BY <1>2, <1>6, <1>7, <1>8, <1>9, <1>10 DEF at

LEMMA InterruptStep ==
  ASSUME NEW u, NEW tg, NEW nx, NEW ps, NEW ck, NEW cl, NEW it, ApplyInv(u, "apply", tg, nx, ps, ck, cl, it),
         it < MaxInterrupts
  PROVE  ApplyInv(u, "check", tg, nx, ps, ck, cl, it + 1)
<1>1. PICK P, t : Made(u, P, t) /\ Applies(u, P, t, "apply", tg, nx, ps, ck, cl, it)
  BY DEF ApplyInv
<1>2. /\ nx \in 1 .. Len(u) /\ (ck # 0 => IsMove(u[nx]) /\ ck < Len(Chunks(u[nx].Size, u[nx].From > u[nx].To)))
      /\ IsFile(tg) /\ ps \in Nat /\ ck \in Nat /\ cl \in BOOLEAN /\ ~cl /\ it \in 0 .. MaxInterrupts
  BY <1>1 DEF Applies, Positioned
<1>3. ASSUME it = 0, PreTidy
      PROVE  Good(tg)
  <2> DEFINE c == u[nx]
             f == t[nx - 1]
             n == Len(Chunks(c.Size, c.From > c.To))
  <2>1. tg = Partly(f, c, ck) /\ Fine(c, f)
    BY <1>1, <1>3, CommandDue
  <2> HIDE DEF f
  <2>2. CASE ck = 0
    BY <2>1, <2>2 DEF Partly, Fine
  <2>3. CASE ck # 0
    <3>1. IsMove(c) /\ n \in Nat
      BY <1>2, <2>3, ChunksOf
    <3>2. ck \in 0 .. n
      BY <1>2, <2>3, <3>1
    <3>3. IsFile(f) /\ Safe(f, c.To, c.To + c.Size)
      BY <2>1, <3>1 DEF Fine, IsMove
    <3> HIDE DEF c
    <3>4. IsFile(Partly(f, c, ck)) /\ Same(f, Partly(f, c, ck), c.To, c.To + c.Size)
      BY <3>1, <3>2, <3>3, PartlyFile
    <3> QED
      BY <2>1, <3>3, <3>4 DEF Safe
  <2> QED
    BY <2>2, <2>3
<1>4. it + 1 \in 0 .. MaxInterrupts /\ it + 1 # 0 /\ (it + 1 = 1 => it = 0)
  BY <1>2, PatchAssumption
<1> DEFINE j == it + 1
<1> HIDE DEF j
<1>5. Applies(u, P, t, "check", tg, nx, ps, ck, cl, j)
  BY <1>2, <1>3, <1>4 DEF Applies, j
<1>6. ApplyInv(u, "check", tg, nx, ps, ck, cl, j)
  BY <1>1, <1>5 DEF ApplyInv
<1> QED
  BY <1>6 DEF j

\* What a chunk of a move reads is what the old file has there.
FindsOld(u, tg, nx, ck) ==
  LET c == u[nx]
      k == Chunks(c.Size, c.From > c.To)[ck + 1]
  IN \A x \in (c.From + k.At) .. (c.From + k.At + k.Size - 1) : tg[x] = old.Bytes[x]

LEMMA MoveStep ==
  ASSUME NEW u, NEW tg, NEW nx, NEW ps, NEW ck, NEW cl, NEW it, ApplyInv(u, "apply", tg, nx, ps, ck, cl, it),
         u[nx].Command = "Move"
  PROVE  LET c == u[nx]
             chunks == Chunks(c.Size, c.From > c.To)
             k == chunks[ck + 1]
             g == Written(tg, c.To + k.At, Chunk(tg, c.From + k.At, k.Size))
             end == c.To + k.At + k.Size
         IN /\ ck + 1 = Len(chunks) => ApplyInv(u, "apply", g, nx + 1, end, 0, cl, it)
            /\ ck + 1 # Len(chunks) => ApplyInv(u, "apply", g, nx, end, ck + 1, cl, it)
            /\ it = 0 /\ PreTidy => FindsOld(u, tg, nx, ck)
<1> DEFINE c == u[nx]
           chunks == Chunks(c.Size, c.From > c.To)
           n == Len(chunks)
           m == ck + 1
           k == chunks[m]
           g == Written(tg, c.To + k.At, Chunk(tg, c.From + k.At, k.Size))
           end == c.To + k.At + k.Size
<1>1. PICK P, t : Made(u, P, t) /\ Applies(u, P, t, "apply", tg, nx, ps, ck, cl, it)
  BY DEF ApplyInv
<1>2. /\ nx \in 1 .. Len(u) /\ IsMove(c)
      /\ it = 0 /\ PreTidy => /\ tg = Partly(t[nx - 1], c, ck)
                              /\ Fine(c, t[nx - 1])
                              /\ t[nx] = Step(c, P[nx], t[nx - 1])
  BY <1>1, CommandDue DEF IsCommand
<1>3. /\ IsFile(tg) /\ ck \in Nat /\ (ck # 0 => ck < n)
      /\ cl \in BOOLEAN /\ ~cl /\ it \in 0 .. MaxInterrupts
  BY <1>1 DEF Applies, Positioned
<1>4. /\ n \in Nat \ {0} /\ Copied(c, n) = c.Size
      /\ \A l \in 0 .. (n - 1) :
           /\ chunks[l + 1].Size \in Nat \ {0}
           /\ chunks[l + 1].At = IF c.From > c.To THEN Copied(c, l) ELSE First(c, l + 1)
           /\ First(c, l + 1) \in Nat /\ Copied(c, l) \in Nat
  BY <1>2, ChunksOf
<1>5. ck \in 0 .. (n - 1) /\ m \in Nat /\ m # 0 /\ (m # n => m < n)
  <2> HIDE DEF n
  <2> QED
    BY <1>3, <1>4
<1>6. k.Size \in Nat /\ k.At \in Nat
  BY <1>4, <1>5
<1>7. c.From \in Nat /\ c.To \in Nat /\ c.Size \in Nat
  BY <1>2 DEF IsMove
<1>8. IsFile(g) /\ end \in Nat
  <2> DEFINE to == c.To + k.At
             from == c.From + k.At
             size == k.Size
  <2>1. to \in Nat /\ from \in Nat /\ size \in Nat /\ to + size \in Nat
    BY <1>6, <1>7
  <2> HIDE DEF to, from, size
  <2>2. IsSeq(Chunk(tg, from, size))
    BY <2>1, ChunkSeq
  <2>3. IsFile(Written(tg, to, Chunk(tg, from, size)))
    BY <1>3, <2>1, <2>2, WrittenFile DEF IsWritten
  <2> QED
    BY <2>1, <2>3 DEF to, from, size
<1>9. ASSUME it = 0, PreTidy
      PROVE  /\ \A x \in (c.From + k.At) .. (c.From + k.At + k.Size - 1) : tg[x] = old.Bytes[x]
             /\ g = Partly(t[nx - 1], c, m)
             /\ m = n => g = t[nx]
  <2> DEFINE f == t[nx - 1]
  <2>1. tg = Partly(f, c, ck) /\ Fine(c, f) /\ t[nx] = Step(c, P[nx], f)
    BY <1>2, <1>9
  <2> HIDE DEF f
  <2>2. IsFile(f) /\ Finds(f, c)
    BY <1>2, <2>1 DEF Fine, IsMove
  <2>3. \A x \in c.From .. (c.From + c.Size - 1) : x \in DOMAIN f /\ f[x] = old.Bytes[x]
    BY <2>2 DEF Finds
  <2>4. /\ \A x \in (c.From + k.At) .. (c.From + k.At + k.Size - 1) : x \in DOMAIN tg /\ tg[x] = f[x]
        /\ Written(tg, c.To + k.At, Chunk(tg, c.From + k.At, k.Size)) = Partly(f, c, ck + 1)
    <3> HIDE DEF c
    <3> QED
      BY <1>2, <1>5, <2>1, <2>2, <2>3, ChunkStep
  <2>5. \A x \in (c.From + k.At) .. (c.From + k.At + k.Size - 1) : tg[x] = old.Bytes[x]
    <3>1. ASSUME NEW x \in (c.From + k.At) .. (c.From + k.At + k.Size - 1)
          PROVE  x \in c.From .. (c.From + c.Size - 1)
      <4>1. /\ k.Size = Copied(c, m) - Copied(c, ck)
            /\ k.At = IF c.From > c.To THEN Copied(c, ck) ELSE First(c, m)
            /\ First(c, m) \in Nat /\ Copied(c, ck) \in Nat /\ Copied(c, m) \in Nat
            /\ Copied(c, m) <= c.Size /\ First(c, m) + Copied(c, m) <= c.Size
        BY <1>2, <1>5, ChunksOf
      <4>2. k.At + k.Size <= c.Size
        BY <4>1, <1>6, <1>7
      <4> HIDE DEF c, k
      <4> QED
        BY <4>2, <1>6, <1>7
    <3> QED
      BY <2>3, <2>4, <3>1
  <2>6. m = n => g = t[nx]
    <3> SUFFICES ASSUME m = n PROVE g = t[nx]
      OBVIOUS
    <3>1. First(c, n) = 0
      BY <1>4, <1>7 DEF First
    <3>2. Partly(f, c, n) = Written(f, c.To + 0, Chunk(f, c.From + 0, c.Size))
      BY <3>1, <1>4 DEF Partly
    <3>3. c.To + 0 = c.To /\ c.From + 0 = c.From
      BY <1>7
    <3>4. Step(c, P[nx], f) = Written(f, c.To, Chunk(f, c.From, c.Size))
      BY <1>2 DEF Step, IsMove
    <3> QED
      BY <2>1, <2>4, <3>2, <3>3, <3>4
  <2> QED
    BY <2>4, <2>5, <2>6 DEF f
<1>10. ASSUME m = n
       PROVE  ApplyInv(u, "apply", g, nx + 1, end, 0, cl, it)
  <2>1. it = 0 /\ PreTidy => g = t[nx]
    BY <1>9, <1>10
  <2>2. u[nx].Command # "Over" /\ u[nx].Command # "SeekWrite"
    OBVIOUS
  <2> HIDE DEF g, end
  <2>3. Applies(u, P, t, "apply", g, nx + 1, end, 0, cl, it)
    BY <1>1, <1>8, <2>1, <2>2, NextDue
  <2> QED
    BY <1>1, <2>3 DEF ApplyInv
<1>11. ASSUME m # n
       PROVE  ApplyInv(u, "apply", g, nx, end, m, cl, it)
  <2>1. it = 0 /\ PreTidy => Follows(u, t, "apply", g, nx, m, cl)
    BY <1>9 DEF Follows
  <2>2. Positioned(u, P, nx, end, m)
    <3> HIDE DEF m, end
    <3> QED
      BY <1>2, <1>5, <1>11 DEF Positioned
  <2> HIDE DEF g, end, m
  <2>3. Applies(u, P, t, "apply", g, nx, end, m, cl, it)
    BY <1>3, <1>5, <1>8, <2>1, <2>2 DEF Applies
  <2> QED
    BY <1>1, <2>3 DEF ApplyInv
<1>12. it = 0 /\ PreTidy => FindsOld(u, tg, nx, ck)
  BY <1>9 DEF FindsOld
<1> QED
  BY <1>10, <1>11, <1>12

LEMMA MoveFindsOld ==
  ASSUME NEW u, NEW tg, NEW nx, NEW ps, NEW ck, NEW cl, ApplyInv(u, "apply", tg, nx, ps, ck, cl, 0),
         u[nx].Command = "Move", PreTidy
  PROVE  FindsOld(u, tg, nx, ck)
BY MoveStep


-----------------------------------------------------------------------------
(* The inductive invariant                                                 *)

Creating == {"diff", "partition", "part", "close"}
Applying == {"check", "apply", "done"}

\* The patch is being made.
Created ==
  /\ DiffInv(phase, moved, partition, over, patch)
  /\ target = old.Bytes /\ next = 1 /\ pos = 0 /\ chunk = 0 /\ claimed = FALSE /\ interrupts = 0

\* The patch is being applied.
Applied ==
  /\ moved \subseteq Partitions /\ partition \in Partitions /\ over \subseteq Parts
  /\ ApplyInv(patch, phase, target, next, pos, chunk, claimed, interrupts)

Inv ==
  /\ Laid /\ phase \in Creating \cup Applying
  /\ phase \in Creating => Created
  /\ phase \in Applying => Applied

LEMMA BegunFrame ==
  ASSUME NEW u, Frame
  PROVE  Begun(u)' <=> Begun(u)
  BY HasChecksFrame DEF Frame, Begun

LEMMA ProgressFrame ==
  ASSUME NEW f, NEW ph, NEW D, NEW p, NEW ov, Frame
  PROVE  Progress(f, ph, D, p, ov)' <=> Progress(f, ph, D, p, ov)
  BY GoodFrame, CardProgressFrame, RoomFrame, InPartFrame, NewButFrame DEF Frame, Progress

LEMMA DiffInvFrame ==
  ASSUME NEW ph, NEW D, NEW p, NEW ov, NEW u, Frame
  PROVE  DiffInv(ph, D, p, ov, u)' <=> DiffInv(ph, D, p, ov, u)
  BY ThereFrame, BegunFrame, ProgressFrame, LeadsFrame, PreTidyFrame DEF Frame, DiffInv

LEMMA MadeFrame ==
  ASSUME NEW u, NEW P, NEW t, Frame
  PROVE  Made(u, P, t)' <=> Made(u, P, t)
  BY HasChecksFrame, PreTidyFrame, RunFrame, IsNewFileFrame DEF Frame, Made

LEMMA AppliesFrame ==
  ASSUME NEW u, NEW P, NEW t, NEW ph, NEW tg, NEW nx, NEW ps, NEW ck, NEW cl, NEW it, Frame
  PROVE  Applies(u, P, t, ph, tg, nx, ps, ck, cl, it)' <=> Applies(u, P, t, ph, tg, nx, ps, ck, cl, it)
<1>1. Content(new)' = Content(new)
  BY DEF Frame, Content
<1>2. Follows(u, t, ph, tg, nx, ck, cl)' <=> Follows(u, t, ph, tg, nx, ck, cl)
  BY ClaimsFrame DEF Frame, Follows
<1> QED
  BY <1>1, <1>2, PreTidyFrame, HeaderTellsFrame, GoodFrame, HasPartFrame DEF Frame, Applies

LEMMA ApplyInvFrame ==
  ASSUME NEW u, NEW ph, NEW tg, NEW nx, NEW ps, NEW ck, NEW cl, NEW it, Frame
  PROVE  ApplyInv(u, ph, tg, nx, ps, ck, cl, it)' <=> ApplyInv(u, ph, tg, nx, ps, ck, cl, it)
  BY MadeFrame, AppliesFrame DEF ApplyInv

LEMMA CreatedNext ==
  ASSUME Frame, DiffInv(phase', moved', partition', over', patch'),
         target' = target, next' = next, pos' = pos, chunk' = chunk, claimed' = claimed, interrupts' = interrupts,
         target = old.Bytes, next = 1, pos = 0, chunk = 0, claimed = FALSE, interrupts = 0
  PROVE  Created'
  BY DiffInvFrame DEF Created, Frame

LEMMA AppliedNext ==
  ASSUME Frame, ApplyInv(patch', phase', target', next', pos', chunk', claimed', interrupts'),
         moved' \subseteq Partitions, partition' \in Partitions, over' \subseteq Parts
  PROVE  Applied'
  BY ApplyInvFrame DEF Applied, Frame

LEMMA InvInit ==
  ASSUME Init
  PROVE  Inv
<1>1. Laid
  BY InitLaid
<1>2. 0 \in Partitions
  BY Numbers
<1>3. DiffInv("diff", {}, 0, {}, <<>>)
  BY <1>2 DEF DiffInv
<1> QED
  BY <1>1, <1>3 DEF Inv, Created, Creating, Applying, Init

LEMMA CreatedStep ==
  ASSUME Inv, Next, phase \in Creating
  PROVE  Inv'
<1>1. /\ Laid /\ DiffInv(phase, moved, partition, over, patch)
      /\ target = old.Bytes /\ next = 1 /\ pos = 0 /\ chunk = 0 /\ claimed = FALSE /\ interrupts = 0
      /\ phase \notin Applying
  BY DEF Inv, Created, Creating, Applying
<1>2. ASSUME Frame
      PROVE  Laid'
  BY <1>1, <1>2, LaidFrame
<1>3. ASSUME Frame, phase' \in Creating, DiffInv(phase', moved', partition', over', patch'),
             target' = target, next' = next, pos' = pos, chunk' = chunk, claimed' = claimed, interrupts' = interrupts
      PROVE  Inv'
  <2>1. Created'
    BY <1>1, <1>3, CreatedNext
  <2> QED
    BY <1>2, <1>3, <2>1 DEF Inv, Creating, Applying
<1>4. CASE BeginDiff
  <2>1. /\ Frame /\ moved' = moved /\ partition' = partition /\ over' = over
        /\ target' = target /\ next' = next /\ pos' = pos /\ chunk' = chunk /\ claimed' = claimed
        /\ interrupts' = interrupts /\ phase = "diff"
    BY <1>4 DEF BeginDiff, filesVars, diffVars, Frame
  <2>2. moved = {} /\ partition = 0 /\ over = {}
    BY <1>1, <2>1 DEF DiffInv
  <2>3. CASE /\ kind # "file"
             /\ patch' = Checks
             /\ phase' = IF kind = "cci" THEN "partition" ELSE "part"
    <3>1. DiffInv(phase', moved', partition', over', patch')
      BY <1>1, <2>1, <2>2, <2>3, BeginDiffStep
    <3>2. phase' \in Creating
      BY <2>3 DEF Creating
    <3> QED
      BY <1>3, <2>1, <3>1, <3>2
  <2>4. CASE /\ kind = "file"
             /\ patch' = Writes(0, Length(old.Bytes), 0, Length(new.Bytes))
             /\ phase' = "close"
    <3>1. DiffInv(phase', moved', partition', over', patch')
      BY <1>1, <2>1, <2>2, <2>4, BeginDiffStep
    <3>2. phase' \in Creating
      BY <2>4 DEF Creating
    <3> QED
      BY <1>3, <2>1, <3>1, <3>2
  <2> QED
    BY <1>4, <2>3, <2>4 DEF BeginDiff
<1>5. CASE DiffPartition
  <2> DEFINE ready == Ready(old.Table, new.Table, moved)
             p == Turn(ready)
  <2>1. /\ Frame /\ target' = target /\ next' = next /\ pos' = pos /\ chunk' = chunk /\ claimed' = claimed
        /\ interrupts' = interrupts /\ phase = "partition" /\ ready # {}
        /\ patch' = patch \o MoveTo(0, old.Table[p], 0, new.Table[p])
        /\ moved' = moved \cup {p} /\ partition' = p /\ over' = {}
        /\ phase' = IF new.Table[p].Size # 0 THEN "part" ELSE "partition"
    BY <1>5 DEF DiffPartition, filesVars, Frame
  <2>2. phase' \in Creating
    BY <2>1 DEF Creating
  <2>3. DiffInv("partition", moved, partition, over, patch)
    BY <1>1, <2>1
  <2>4. DiffInv(IF new.Table[p].Size # 0 THEN "part" ELSE "partition", moved \cup {p}, p, {},
                patch \o MoveTo(0, old.Table[p], 0, new.Table[p]))
    BY <1>1, <2>1, <2>3, DiffPartitionStep
  <2>5. DiffInv(phase', moved', partition', over', patch')
    BY <2>1, <2>4
  <2> QED
    BY <1>3, <2>1, <2>2, <2>5
<1>6. CASE DiffPart
  <2> DEFINE i == Turn(Ready(old.Parts[partition], new.Parts[partition], over))
             c == PartCommands(old.Table[partition].Offset, old.Parts[partition][i],
                               new.Table[partition].Offset, new.Parts[partition][i])
  <2>1. /\ Frame /\ target' = target /\ next' = next /\ pos' = pos /\ chunk' = chunk /\ claimed' = claimed
        /\ interrupts' = interrupts /\ phase = "part" /\ phase' = phase
        /\ moved' = moved /\ partition' = partition
        /\ Ready(old.Parts[partition], new.Parts[partition], over) # {}
        /\ patch' = patch \o c /\ over' = over \cup {i}
    BY <1>6 DEF DiffPart, FromPlace, ToPlace, filesVars, Frame
  <2>2. phase' \in Creating
    BY <2>1 DEF Creating
  <2>3. IsTurn(partition, over, i)
    BY <2>1 DEF IsTurn
  <2> HIDE DEF i
  <2>4. DiffInv("part", moved, partition, over, patch)
    BY <1>1, <2>1
  <2>5. DiffInv("part", moved, partition, over \cup {i}, patch \o c)
    BY <1>1, <2>3, <2>4, DiffPartStep
  <2>6. DiffInv(phase', moved', partition', over', patch')
    BY <2>1, <2>5
  <2> QED
    BY <1>3, <2>1, <2>2, <2>6
<1>7. CASE DiffHeader
  <2> DEFINE c == Writes(old.Table[partition].Offset, HeaderSize, new.Table[partition].Offset, HeaderSize)
  <2>1. /\ Frame /\ target' = target /\ next' = next /\ pos' = pos /\ chunk' = chunk /\ claimed' = claimed
        /\ interrupts' = interrupts /\ phase = "part" /\ over = Parts
        /\ moved' = moved /\ partition' = partition /\ over' = over
        /\ patch' = patch \o c
        /\ phase' = IF kind = "cci" THEN "partition" ELSE "close"
    BY <1>7 DEF DiffHeader, FromPlace, ToPlace, filesVars, diffVars, Frame
  <2>2. phase' \in Creating
    BY <2>1 DEF Creating
  <2>3. DiffInv("part", moved, partition, Parts, patch)
    BY <1>1, <2>1
  <2>4. DiffInv(IF kind = "cci" THEN "partition" ELSE "close", moved, partition, Parts, patch \o c)
    BY <1>1, <2>3, DiffHeaderStep
  <2>5. DiffInv(phase', moved', partition', over', patch')
    BY <2>1, <2>4
  <2> QED
    BY <1>3, <2>1, <2>2, <2>5
<1>8. CASE DiffNcsdHeader
  <2> DEFINE end == EndOfPartitions(new)
             rest == EndOfPartitions(old) - end
             v == patch \o Writes(0, HeaderSize, 0, HeaderSize)
                    \o (IF rest > 0 THEN <<Set(end, rest, Filling)>> ELSE <<>>)
  <2>1. /\ Frame /\ target' = target /\ next' = next /\ pos' = pos /\ chunk' = chunk /\ claimed' = claimed
        /\ interrupts' = interrupts /\ phase = "partition" /\ moved = Partitions
        /\ moved' = moved /\ partition' = partition /\ over' = over
        /\ patch' = v /\ phase' = "close"
    BY <1>8 DEF DiffNcsdHeader, filesVars, diffVars, Frame
  <2>2. phase' \in Creating
    BY <2>1 DEF Creating
  <2>3. DiffInv("partition", Partitions, partition, over, patch)
    BY <1>1, <2>1
  <2>4. DiffInv("close", Partitions, partition, over, v)
    BY <1>1, <2>3, DiffNcsdHeaderStep
  <2>5. DiffInv(phase', moved', partition', over', patch')
    BY <2>1, <2>4
  <2> QED
    BY <1>3, <2>1, <2>2, <2>5
<1>9. CASE ClosePatch
  <2> DEFINE v == patch \o (IF Length(new.Bytes) < Length(old.Bytes)
                            THEN <<ChangeSize(Length(new.Bytes))>> ELSE <<>>) \o <<Over>>
  <2>1. /\ Frame /\ target' = target /\ next' = next /\ pos' = pos /\ chunk' = chunk /\ claimed' = claimed
        /\ interrupts' = interrupts /\ phase = "close" /\ phase' = "check"
        /\ moved' = moved /\ partition' = partition /\ over' = over
        /\ patch' = v
    BY <1>9 DEF ClosePatch, filesVars, diffVars, Frame
  <2>2. DiffInv("close", moved, partition, over, patch)
    BY <1>1, <2>1
  <2>3. ApplyInv(v, "check", old.Bytes, 1, 0, 0, FALSE, 0)
    BY <1>1, <2>2, CloseStep
  <2>4. moved \subseteq Partitions /\ partition \in Partitions /\ over \subseteq Parts
    BY <1>1 DEF DiffInv
  <2>5. ApplyInv(patch', phase', target', next', pos', chunk', claimed', interrupts')
    BY <1>1, <2>1, <2>3
  <2>6. Applied'
    BY <2>1, <2>4, <2>5, AppliedNext
  <2> QED
    BY <1>2, <2>1, <2>6 DEF Inv, Creating, Applying
<1>10. CASE CheckTarget \/ ExecuteMove \/ ExecuteCommand \/ Interrupt
  BY <1>1, <1>10 DEF CheckTarget, ExecuteMove, ExecuteCommand, Interrupt, Applying
<1> QED
  BY <1>4, <1>5, <1>6, <1>7, <1>8, <1>9, <1>10 DEF Next

LEMMA AppliedStep ==
  ASSUME Inv, Next, phase \in Applying
  PROVE  Inv'
<1>1. /\ Laid /\ moved \subseteq Partitions /\ partition \in Partitions /\ over \subseteq Parts
      /\ ApplyInv(patch, phase, target, next, pos, chunk, claimed, interrupts)
      /\ phase \notin Creating
  BY DEF Inv, Applied, Creating, Applying
<1>2. ASSUME Frame, moved' = moved, partition' = partition, over' = over, phase' \in Applying,
             ApplyInv(patch', phase', target', next', pos', chunk', claimed', interrupts')
      PROVE  Inv'
  <2>1. Applied'
    BY <1>1, <1>2, AppliedNext
  <2>2. Laid'
    BY <1>1, <1>2, LaidFrame
  <2> QED
    BY <1>2, <2>1, <2>2 DEF Inv, Creating, Applying
<1>3. CASE CheckTarget
  <2>1. /\ Frame /\ moved' = moved /\ partition' = partition /\ over' = over /\ patch' = patch
        /\ target' = target /\ interrupts' = interrupts /\ next' = 1 /\ chunk' = 0 /\ pos' = 0
        /\ phase = "check"
        /\ IF Passes(patch, target) THEN claimed' = TRUE /\ phase' = "done"
           ELSE claimed' = FALSE /\ phase' = "apply"
    BY <1>3 DEF CheckTarget, filesVars, diffVars, Frame, Passes
  <2>2. ApplyInv(patch, "check", target, next, pos, chunk, claimed, interrupts)
    BY <1>1, <2>1
  <2>3. /\ Passes(patch, target) => ApplyInv(patch, "done", target, 1, 0, 0, TRUE, interrupts)
        /\ ~Passes(patch, target) => ApplyInv(patch, "apply", target, 1, 0, 0, FALSE, interrupts)
    BY <2>2, CheckStep
  <2>4. ApplyInv(patch', phase', target', next', pos', chunk', claimed', interrupts') /\ phase' \in Applying
    BY <2>1, <2>3 DEF Applying
  <2> QED
    BY <1>2, <2>1, <2>4
<1>4. CASE ExecuteMove
  <2> DEFINE c == patch[next]
             chunks == Chunks(c.Size, c.From > c.To)
             k == chunks[chunk + 1]
             g == Written(target, c.To + k.At, Chunk(target, c.From + k.At, k.Size))
             end == c.To + k.At + k.Size
  <2>1. /\ Frame /\ moved' = moved /\ partition' = partition /\ over' = over /\ patch' = patch
        /\ claimed' = claimed /\ interrupts' = interrupts /\ phase = "apply" /\ phase' = phase
        /\ c.Command = "Move" /\ target' = g /\ pos' = end
        /\ IF chunk + 1 = Len(chunks)
           THEN next' = next + 1 /\ chunk' = 0
           ELSE chunk' = chunk + 1 /\ next' = next
    BY <1>4 DEF ExecuteMove, filesVars, diffVars, Frame
  <2>2. ApplyInv(patch, "apply", target, next, pos, chunk, claimed, interrupts)
    BY <1>1, <2>1
  <2>3. /\ chunk + 1 = Len(chunks) => ApplyInv(patch, "apply", g, next + 1, end, 0, claimed, interrupts)
        /\ chunk + 1 # Len(chunks) => ApplyInv(patch, "apply", g, next, end, chunk + 1, claimed, interrupts)
    BY <2>1, <2>2, MoveStep
  <2> HIDE DEF g, end, chunks
  <2>4. ApplyInv(patch', phase', target', next', pos', chunk', claimed', interrupts') /\ phase' \in Applying
    BY <2>1, <2>3 DEF Applying
  <2> QED
    BY <1>2, <2>1, <2>4
<1>5. CASE ExecuteCommand
  <2> DEFINE c == patch[next]
             at == IF c.SeekSet THEN c.Offset ELSE pos + c.Offset
             filled == Written(target, c.Offset, [k \in 1 .. c.Size |-> c.Byte])
             sized == [x \in 0 .. (c.Size - 1) |-> IF x \in DOMAIN target THEN target[x] ELSE Filler]
             written == Written(target, at, c.Data)
             Now(ph, f, e) == phase' = ph /\ target' = f /\ pos' = e
  <2>1. /\ Frame /\ moved' = moved /\ partition' = partition /\ over' = over /\ patch' = patch
        /\ claimed' = claimed /\ interrupts' = interrupts /\ chunk' = chunk
        /\ phase = "apply" /\ next' = next + 1
        /\ \/ c.Command = "Over" /\ Now("done", target, pos)
           \/ c.Command = "Check" /\ Now("apply", target, pos)
           \/ c.Command = "Set" /\ Now("apply", filled, c.Offset + c.Size)
           \/ c.Command = "ChangeSize" /\ Now("apply", sized, pos)
           \/ c.Command = "SeekWrite" /\ Now("apply", written, at + Len(c.Data))
    BY <1>5 DEF ExecuteCommand, filesVars, diffVars, Frame
  <2>2. ApplyInv(patch, "apply", target, next, pos, chunk, claimed, interrupts) /\ patch[next].Command # "Move"
    BY <1>1, <2>1
  <2>3. /\ c.Command = "Over" => ApplyInv(patch, "done", target, next + 1, pos, chunk, claimed, interrupts)
        /\ c.Command = "Check" => ApplyInv(patch, "apply", target, next + 1, pos, chunk, claimed, interrupts)
        /\ c.Command = "Set" =>
             ApplyInv(patch, "apply", filled, next + 1, c.Offset + c.Size, chunk, claimed, interrupts)
        /\ c.Command = "ChangeSize" =>
             ApplyInv(patch, "apply", sized, next + 1, pos, chunk, claimed, interrupts)
        /\ c.Command = "SeekWrite" =>
             ApplyInv(patch, "apply", written, next + 1, at + Len(c.Data), chunk, claimed, interrupts)
    BY <2>2, CommandStep
  <2> HIDE DEF c, at, filled, sized, written
  <2>4. ApplyInv(patch', phase', target', next', pos', chunk', claimed', interrupts') /\ phase' \in Applying
    BY <2>1, <2>3 DEF Applying
  <2> QED
    BY <1>2, <2>1, <2>4
<1>6. CASE Interrupt
  <2>1. /\ Frame /\ moved' = moved /\ partition' = partition /\ over' = over /\ patch' = patch
        /\ target' = target /\ next' = next /\ pos' = pos /\ chunk' = chunk /\ claimed' = claimed
        /\ phase = "apply" /\ phase' = "check" /\ interrupts < MaxInterrupts /\ interrupts' = interrupts + 1
    BY <1>6 DEF Interrupt, filesVars, diffVars, Frame
  <2>2. ApplyInv(patch, "apply", target, next, pos, chunk, claimed, interrupts)
    BY <1>1, <2>1
  <2>3. ApplyInv(patch, "check", target, next, pos, chunk, claimed, interrupts + 1)
    BY <2>1, <2>2, InterruptStep
  <2>4. ApplyInv(patch', phase', target', next', pos', chunk', claimed', interrupts') /\ phase' \in Applying
    BY <2>1, <2>3 DEF Applying
  <2> QED
    BY <1>2, <2>1, <2>4
<1>7. CASE BeginDiff \/ DiffPartition \/ DiffPart \/ DiffHeader \/ DiffNcsdHeader \/ ClosePatch
  BY <1>1, <1>7 DEF BeginDiff, DiffPartition, DiffPart, DiffHeader, DiffNcsdHeader, ClosePatch, Creating
<1> QED
  BY <1>3, <1>4, <1>5, <1>6, <1>7 DEF Next

\* The invariant holds: no step of either program leads out of it.
THEOREM Invariance == Spec => []Inv
<1>1. Init => Inv
  BY InvInit
<1>2. Inv /\ [Next]_vars => Inv'
  <2>1. ASSUME Inv, Next
        PROVE  Inv'
    BY <2>1, CreatedStep, AppliedStep DEF Inv
  <2>2. ASSUME Inv, UNCHANGED vars
        PROVE  Inv'
    <3>1. /\ Frame /\ phase' = phase /\ moved' = moved /\ partition' = partition /\ over' = over
          /\ patch' = patch /\ target' = target /\ next' = next /\ pos' = pos /\ chunk' = chunk
          /\ claimed' = claimed /\ interrupts' = interrupts
      BY <2>2 DEF vars, filesVars, diffVars, Frame
    <3>2. Laid'
      BY <2>2, <3>1, LaidFrame DEF Inv
    <3>3. phase \in Creating => Created'
      BY <2>2, <3>1, CreatedNext DEF Inv, Created
    <3>4. phase \in Applying => Applied'
      BY <2>2, <3>1, AppliedNext DEF Inv, Applied
    <3> QED
      BY <2>2, <3>1, <3>2, <3>3, <3>4 DEF Inv, Creating, Applying
  <2> QED
    BY <2>1, <2>2
<1> QED
  BY <1>1, <1>2, PTL DEF Spec

LEMMA PlacedCommands ==
  ASSUME NEW u, NEW P, Placed(u, P)
  PROVE  \A c \in Range(u) : c.Command \in {"Over", "Check", "Move", "Set", "ChangeSize", "SeekWrite"}
<1>1. DOMAIN u = 1 .. Len(u)
  BY SeqProperties DEF Placed, Paired
<1>2. \A m \in DOMAIN u : IsCommand(u[m])
  BY <1>1 DEF Placed, PlacedAt
<1> QED
  BY <1>2 DEF IsCommand, IsMove, Range

LEMMA InvType ==
  ASSUME Inv
  PROVE  TypeOK
<1>1. kind \in Kinds
  BY DEF Inv, Laid
<1>2. phase \in {"diff", "partition", "part", "close", "check", "apply", "done"}
  BY DEF Inv, Creating, Applying
<1>3. CASE phase \in Creating
  <2>1. Created /\ phase # "apply"
    BY <1>3 DEF Inv, Creating
  <2>2. \A c \in Range(patch) :
          c.Command \in {"Over", "Check", "Move", "Set", "ChangeSize", "SeekWrite"}
    <3>1. CASE phase = "diff"
      <4>1. patch = <<>>
        BY <2>1, <3>1 DEF Created, DiffInv
      <4> QED
        BY <4>1, PlacedCommands, PlacedNothing
    <3>2. CASE phase # "diff"
      <4>1. \E P : Placed(patch, P)
        BY <2>1, <3>2 DEF Created, DiffInv
      <4> QED
        BY <4>1, PlacedCommands
    <3> QED
      BY <3>1, <3>2
  <2>3. IsFile(target)
    BY <2>1, LaidPlaced DEF Inv, Created, IsPlaced
  <2>4. 0 \in Nat /\ 0 \in 0 .. MaxInterrupts
    BY PatchAssumption
  <2>5. moved \subseteq Partitions /\ partition \in Partitions /\ over \subseteq Parts
    BY <2>1 DEF Created, DiffInv
  <2> QED
    BY <1>1, <1>2, <2>1, <2>2, <2>3, <2>4, <2>5, FileProperties DEF TypeOK, Created
<1>4. CASE phase \in Applying
  <2>1. Applied
    BY <1>4 DEF Inv
  <2>2. PICK P, t : Made(patch, P, t)
                    /\ Applies(patch, P, t, phase, target, next, pos, chunk, claimed, interrupts)
    BY <2>1 DEF Applied, ApplyInv
  <2>3. /\ IsFile(target) /\ pos \in Nat /\ chunk \in Nat /\ claimed \in BOOLEAN
        /\ interrupts \in 0 .. MaxInterrupts
    BY <2>2 DEF Applies
  <2>4. Placed(patch, P)
    BY <2>2 DEF Made
  <2>5. phase = "apply" => next \in DOMAIN patch
    BY <2>2, CommandDue
  <2>6. \A c \in Range(patch) :
          c.Command \in {"Over", "Check", "Move", "Set", "ChangeSize", "SeekWrite"}
    BY <2>4, PlacedCommands
  <2>7. moved \subseteq Partitions /\ partition \in Partitions /\ over \subseteq Parts
    BY <2>1 DEF Applied
  <2> QED
    BY <1>1, <1>2, <2>3, <2>5, <2>6, <2>7, FileProperties DEF TypeOK
<1> QED
  BY <1>3, <1>4 DEF Inv

LEMMA InvTidy ==
  ASSUME Inv
  PROVE  TidyPatchedIsNew
<1> SUFFICES ASSUME phase = "done", interrupts = 0, Tidy
             PROVE  IsNew
  BY DEF TidyPatchedIsNew
<1>1. PreTidy /\ HeaderTells /\ Laid
  BY DEF Tidy, PreTidy, Inv
<1>2. Applied
  BY DEF Inv, Applying
<1>3. PICK P, t : Made(patch, P, t)
                  /\ Applies(patch, P, t, phase, target, next, pos, chunk, claimed, interrupts)
  BY <1>2 DEF Applied, ApplyInv
<1>4. Follows(patch, t, "done", target, next, chunk, claimed)
  BY <1>1, <1>3 DEF Applies
<1>5. IsNewFile(target)
  <2>1. CASE claimed
    BY <1>1, <1>4, <2>1, OldClaims DEF Follows
  <2>2. CASE ~claimed
    BY <1>1, <1>3, <1>4, <2>2 DEF Follows, Made
  <2> QED
    BY <2>1, <2>2
<1> QED
  BY <1>1, <1>5, NewFileIsNew

LEMMA InvClaims ==
  ASSUME Inv
  PROVE  ClaimedOnlyWhenComplete
<1> SUFFICES ASSUME claimed, interrupts = 1, Tidy
             PROVE  PartsAreNew
  BY DEF ClaimedOnlyWhenComplete
<1>1. PreTidy /\ HeaderTells
  BY DEF Tidy, PreTidy
<1>2. Applied
  <2>1. phase \in Creating => interrupts = 0
    BY DEF Inv, Created
  <2> QED
    BY <2>1 DEF Inv
<1>3. \A c \in Content(new) : HasPart(target, c[1], c[2])
  BY <1>1, <1>2 DEF Applied, ApplyInv, Applies
<1> QED
  BY <1>3 DEF PartsAreNew, HasPart, TargetIsNew

-----------------------------------------------------------------------------
(* The theorems                                                            *)

\* The patch holds known commands only, there is always one that is due until the
\* end mark is met, and the target is a file without holes whatever is written
\* where (patch.cpp createPatchFile, ApplyPatchFile).
THEOREM TypeCorrect == Spec => []TypeOK
<1>1. Inv => TypeOK
  BY InvType
<1> QED
  BY <1>1, Invariance, PTL

\* In whatever order the search takes partitions and parts, and whatever moved
\* where, no command overwrites what is still to be moved, and no chunk of a move
\* overwrites the bytes of a later one (patch.cpp createNcsdPatchFile,
\* createNcchPatchFile, executeMove).
THEOREM OldBytesFound == Spec => MovesFindOldBytes
<1> DEFINE A == /\ phase = "apply" /\ interrupts = 0
                /\ patch[next].Command = "Move"
                /\ ShrinkingPartsStay /\ OnlyRomFsDiffers /\ NoPartitionAdded
                => LET c == patch[next]
                       k == Chunks(c.Size, c.From > c.To)[chunk + 1]
                   IN \A x \in (c.From + k.At) .. (c.From + k.At + k.Size - 1) :
                        target[x] = old.Bytes[x]
<1>1. Inv => A
  <2>1. ASSUME Inv, phase = "apply", interrupts = 0, patch[next].Command = "Move", PreTidy
        PROVE  FindsOld(patch, target, next, chunk)
    <3>1. ApplyInv(patch, "apply", target, next, pos, chunk, claimed, 0)
      BY <2>1 DEF Inv, Applied, Applying
    <3> QED
      BY <2>1, <3>1, MoveFindsOld
  <2> QED
    BY <2>1 DEF PreTidy, FindsOld
<1>2. MovesFindOldBytes <=> [][A]_vars
  BY DEF MovesFindOldBytes
<1> HIDE DEF A
<1>3. Inv => [A]_vars
  BY <1>1
<1> QED
  BY <1>2, <1>3, Invariance, PTL

\* A tidy patch makes the new file of the old one: every header, every part and the
\* length, for every card, every order of the turns and every buffer size (patch.cpp
\* createNcsdPatchFile, createNcchPatchFile, createPatchFile, ApplyPatchFile).
THEOREM TidyPatched == Spec => []TidyPatchedIsNew
<1>1. Inv => TidyPatchedIsNew
  BY InvTidy
<1> QED
  BY <1>1, Invariance, PTL

\* Wherever the first attempt was killed, be it within a move, the checks of the second
\* pass only when every part is there (patch.cpp createNcsdPatchFile,
\* createNcchPatchFile, ApplyPatchFile).
THEOREM ClaimsComplete == Spec => []ClaimedOnlyWhenComplete
<1>1. Inv => ClaimedOnlyWhenComplete
  BY InvClaims
<1> QED
  BY <1>1, Invariance, PTL
=============================================================================
