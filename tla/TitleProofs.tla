----------------------------- MODULE TitleProofs -----------------------------
(***************************************************************************)
(* A title as it is built describes itself, and what goes into it comes    *)
(* out of it again.                                                        *)
(*                                                                         *)
(* First the ExeFS: its super block describes its file, for every number   *)
(* of sections and whatever files of the directory are missing.  The       *)
(* section at work divides the super block: what is before it has been     *)
(* written and is described, what is behind it still comes from the header *)
(* file, and a section that is taken out moves only the latter.  Then the  *)
(* NCCH: its header describes its image, for every size of the media unit, *)
(* every set of region files and every mode of encryption.  The region at  *)
(* work divides the header: what is before it has been placed, and the     *)
(* image ends where the next region begins.                                *)
(*                                                                         *)
(* Last the way back, for every set of files, every mode of encryption and *)
(* every size of the media unit, as long as the same ext key goes into the *)
(* keys both times.  The proof follows a file: into its section or region, *)
(* under a key stream into the image, out of the image from under the same *)
(* key stream, and back to a file.                                         *)
(***************************************************************************)
EXTENDS Title, SequenceTheorems, TLAPS

(* The provers know no literal to be a string. *)
Texts == STRING \cup {"zero", "code", "old", NoName}
                \cup {"extendedheader", "logo", "plain", "superblock", "romfs", "header"}
Byte == [of : Texts, at : Nat, packed : BOOLEAN, under : {{}}]
Section == [name : Texts, offset : Nat, size : Nat, hash : Seq(Byte)]

Building == stage \in {"createExeFs", "createNcch"}

(* The sections CreateFile is done with. *)
Complete(i) == stage = "createNcch" \/ i < section

(* The sections before i end where i begins. *)
InOrder(i) ==
    \A j \in Sections :
        j < i /\ superBlock[j].name # NoName =>
            superBlock[j].offset + superBlock[j].size <= superBlock[i].offset

(* What SectionsDescribeFile says of a section. *)
Described(i) ==
    IF superBlock[i].name = NoName THEN superBlock[i] = NoSection
    ELSE /\ superBlock[i].offset + superBlock[i].size <= Len(exeFile)
         /\ SectionBytes(i) = superBlock[i].hash
         /\ superBlock[i].hash # NoHash =>
                superBlock[i].hash[1].of = Path(superBlock[i].name, i)
         /\ superBlock[i].offset % SuperBlockSize = 0
         /\ InOrder(i)

BlockType ==
    /\ title \in Titles
    /\ section \in 0 .. SectionCount + 1
    /\ superBlock \in [Sections -> Section]
    /\ exeFile \in Seq(Byte) /\ Len(exeFile) % SuperBlockSize = 0

IInv ==
    Building =>
        /\ BlockType
        /\ section = 0 /\ stage = "createExeFs" =>
               \A i \in Sections : superBlock[i] = NoSection
        /\ \A i \in Sections :
               IF Complete(i) THEN Described(i)
               ELSE superBlock[i].name = NoName => superBlock[i] = NoSection

-----------------------------------------------------------------------------
(* Bytes and their alignment *)

LEMMA SizeFacts ==
    /\ SectionCount \in Nat \ {0} /\ SuperBlockSize \in Nat \ {0}
    /\ PackableSize \in Nat \ {0}
BY ExeFsAssumption

LEMMA AlignProperties ==
    ASSUME NEW n \in Nat, NEW a \in Nat \ {0}
    PROVE  Align(n, a) \in Nat /\ Align(n, a) >= n /\ Align(n, a) % a = 0
<1>1. (n + a - 1) \div a \in Int
    OBVIOUS
<1>2. \A q \in Int : (q * a) % a = 0
    OBVIOUS
<1>3. n + a - 1 < ((n + a - 1) \div a) * a + a
    OBVIOUS
<1> QED
    BY <1>1, <1>2, <1>3 DEF Align

LEMMA AlignedToProperties ==
    ASSUME NEW bytes \in Seq(Byte), NEW a \in Nat \ {0}
    PROVE  /\ AlignedTo(bytes, a) \in Seq(Byte)
           /\ Len(AlignedTo(bytes, a)) = Align(Len(bytes), a)
           /\ Len(AlignedTo(bytes, a)) >= Len(bytes)
           /\ Len(AlignedTo(bytes, a)) % a = 0
           /\ \A k \in 1 .. Len(bytes) : AlignedTo(bytes, a)[k] = bytes[k]
<1> DEFINE n == Align(Len(bytes), a) - Len(bytes)
           zeros == Zeros(n)
<1>1. Len(bytes) \in Nat
    OBVIOUS
<1>2. Align(Len(bytes), a) \in Nat /\ Align(Len(bytes), a) >= Len(bytes)
    BY <1>1, AlignProperties
<1>3. n \in Nat
    BY <1>1, <1>2
<1>4. zeros \in Seq(Byte) /\ Len(zeros) = n
  <2>1. ZeroByte \in Byte
    BY DEF ZeroByte, Byte, Texts
  <2>2. zeros \in [1 .. n -> Byte]
    BY <2>1 DEF Zeros
  <2> QED
    BY <1>3, <2>2 DEF Zeros
<1>5. AlignedTo(bytes, a) = bytes \o zeros
    BY DEF AlignedTo
<1>6. Len(bytes \o zeros) = Align(Len(bytes), a)
    BY <1>1, <1>2, <1>4
<1> HIDE DEF zeros
<1>7. /\ bytes \o zeros \in Seq(Byte)
      /\ \A k \in 1 .. Len(bytes) : (bytes \o zeros)[k] = bytes[k]
    BY <1>4
<1> QED
    BY <1>1, <1>2, <1>5, <1>6, <1>7, AlignProperties

LEMMA FileBytesType ==
    ASSUME NEW path \in Texts, NEW n \in Nat
    PROVE  /\ FileBytes(path, n) \in Seq(Byte) /\ Len(FileBytes(path, n)) = n
           /\ n > 0 => FileBytes(path, n)[1].of = path
<1>1. FileBytes(path, n) \in [1 .. n -> Byte]
    BY DEF FileBytes, Byte
<1> QED
    BY <1>1 DEF FileBytes

LEMMA PackedBytesType ==
    ASSUME NEW path \in Texts, NEW n \in Nat \ {0}
    PROVE  /\ PackedBytes(path, n) \in Seq(Byte)
           /\ PackedBytes(path, n) # << >> => PackedBytes(path, n)[1].of = path
<1>1. PackedBytes(path, n) \in [1 .. n - 1 -> Byte]
    BY DEF PackedBytes, Byte
<1> QED
    BY <1>1 DEF PackedBytes

LEMMA PathType ==
    ASSUME NEW name \in Texts, NEW i
    PROVE  Path(name, i) \in Texts
BY DEF Path, Texts

-----------------------------------------------------------------------------
(* The steps of CreateFile *)

LEMMA InitCorrect == TitleInit => IInv
<1> SUFFICES ASSUME TitleInit
             PROVE  IInv
    OBVIOUS
<1>1. NoSection \in Section
    BY DEF NoSection, Section, Texts, NoHash
<1> QED
    BY <1>1, SizeFacts DEF TitleInit, ExeFsInit, IInv, Building, BlockType, Complete

LEMMA CreateHeaderStep == IInv /\ ExeFsCreateHeader => IInv'
<1> SUFFICES ASSUME IInv, ExeFsCreateHeader
             PROVE  IInv'
    OBVIOUS
<1> USE DEF ExeFsCreateHeader
<1>1. BlockType /\ Building /\ section = 0
    BY DEF IInv, Building
<1>2. CASE ~title.exeFsHeader
  <2>1. BlockType'
    BY <1>1, <1>2 DEF BlockType
  <2>2. \A i \in Sections : superBlock'[i] = NoSection
    BY <1>1, <1>2 DEF IInv
  <2> QED
    BY <1>2, <2>1, <2>2 DEF IInv, Complete, Described, NoSection
<1>3. CASE title.exeFsHeader
  <2>1. \A i \in Sections : OldSection(title.names[i]) \in Section
    <3>1. \A i \in Sections : title.names[i] \in Texts
      BY <1>1, ExeFsAssumption DEF BlockType, Texts
    <3>2. OldByte \in Byte
      BY DEF OldByte, Byte, Texts
    <3> QED
      BY <3>1, <3>2 DEF OldSection, NoSection, NoHash, Section, Texts
  <2>2. BlockType'
    BY <1>1, <1>3, <2>1, SizeFacts DEF BlockType
  <2>3. \A i \in Sections : superBlock'[i].name = NoName => superBlock'[i] = NoSection
    BY <1>3 DEF OldSection
  <2>4. section' = 1 /\ stage' = "createExeFs" /\ \A i \in Sections : ~(i < 1)
    BY <1>3, SizeFacts DEF Sections
  <2> QED
    BY <2>2, <2>3, <2>4 DEF IInv, Complete
<1> QED
    BY <1>2, <1>3

(* Where the section at work was the next to be described and is. *)
LEMMA SkipStep == IInv /\ SkipSection => IInv'
<1> SUFFICES ASSUME IInv, SkipSection
             PROVE  IInv'
    OBVIOUS
<1> USE DEF SkipSection, CreatingSection, Name
<1>1. BlockType /\ section \in Sections
    BY DEF IInv, Building
<1>2. BlockType'
    BY <1>1, SizeFacts DEF BlockType, Sections
<1>3. section' = section + 1 /\ section' # 0
    BY <1>1, SizeFacts DEF Sections
<1>4. ASSUME NEW i \in Sections
      PROVE  IF Complete(i)' THEN Described(i)'
             ELSE superBlock'[i].name = NoName => superBlock'[i] = NoSection
  <2>1. Complete(i)' => Complete(i) \/ i = section
    BY <1>1, <1>3, SizeFacts DEF Complete, Sections
  <2>2. Complete(i) => Described(i)
    BY DEF IInv, Building
  <2>3. ~Complete(section)
    BY <1>1, SizeFacts DEF Complete, Sections
  <2>4. superBlock[section] = NoSection
    BY <1>1, <2>3 DEF IInv, Building
  <2>5. Described(section)
    BY <2>4 DEF Described, NoSection
  <2>6. Described(i) => Described(i)'
    BY DEF Described, SectionBytes, InOrder
  <2>7. ~Complete(i)' => ~Complete(i)
    BY <1>1, <1>3, SizeFacts DEF Complete, Sections
  <2> QED
    BY <2>1, <2>2, <2>5, <2>6, <2>7 DEF IInv, Building
<1> QED
    BY <1>2, <1>3, <1>4 DEF IInv

(* What is done lies before the section that goes. *)
LEMMA ClearStep == IInv /\ ClearSection => IInv'
<1> SUFFICES ASSUME IInv, ClearSection
             PROVE  IInv'
    OBVIOUS
<1> USE DEF ClearSection, CreatingSection, Name
<1>1. BlockType /\ section \in Sections
    BY DEF IInv, Building
<1>2. NoSection \in Section
    BY DEF NoSection, Section, Texts, NoHash
<1>3. /\ superBlock' \in [Sections -> Section]
      /\ \A i \in Sections : i < section => superBlock'[i] = superBlock[i]
      /\ \A i \in Sections :
             i >= section => superBlock'[i] = IF i < SectionCount THEN superBlock[i + 1] ELSE NoSection
    BY <1>1, <1>2, SizeFacts DEF BlockType, WithoutSection, Sections
<1>4. BlockType'
    BY <1>1, <1>3 DEF BlockType
<1>5. ASSUME NEW i \in Sections, i < section
      PROVE  Described(i)'
  <2>1. Described(i)
    BY <1>5 DEF IInv, Building, Complete
  <2>2. \A j \in Sections : j < i => superBlock'[j] = superBlock[j]
    BY <1>1, <1>3, <1>5, SizeFacts DEF Sections
  <2> QED
    BY <1>3, <1>5, <2>1, <2>2 DEF Described, SectionBytes, InOrder
<1>6. ASSUME NEW i \in Sections, ~(i < section)
      PROVE  superBlock'[i].name = NoName => superBlock'[i] = NoSection
  <2>1. CASE i < SectionCount
    <3>1. i + 1 \in Sections /\ ~Complete(i + 1) /\ i >= section
      BY <1>1, <1>6, <2>1, SizeFacts DEF Sections, Complete
    <3> QED
      BY <1>3, <2>1, <3>1 DEF IInv, Building
  <2>2. CASE ~(i < SectionCount)
    BY <1>1, <1>3, <1>6, <2>2, SizeFacts DEF Sections, NoSection
  <2> QED
    BY <2>1, <2>2
<1> QED
    BY <1>1, <1>4, <1>5, <1>6, SizeFacts DEF IInv, Complete, Sections

(* The bytes of a section that is made and how they are told. *)
Content ==
    LET path == Path(Name, section)
        n == title.dir[path]
    IN  IF IsTopSection(Name, section) /\ title.compress /\ n >= PackableSize
        THEN PackedBytes(path, n) ELSE FileBytes(path, n)

LEMMA ContentProperties ==
    ASSUME BlockType, section \in Sections, Path(Name, section) \in DOMAIN title.dir
    PROVE  /\ Content \in Seq(Byte)
           /\ Content # NoHash => Content[1].of = Path(Name, section)
<1> DEFINE path == Path(Name, section)
           n == title.dir[path]
<1>1. path \in Texts
    BY PathType DEF BlockType, Section, Name
<1>2. n \in Nat
    BY ExeFsAssumption DEF BlockType
<1> HIDE DEF path
<1>3. CASE IsTopSection(Name, section) /\ title.compress /\ n >= PackableSize
  <2>1. n \in Nat \ {0} /\ Content = PackedBytes(path, n)
    BY <1>2, <1>3, SizeFacts DEF Content, path
  <2> QED
    BY <1>1, <2>1, PackedBytesType DEF NoHash, path
<1>4. CASE ~(IsTopSection(Name, section) /\ title.compress /\ n >= PackableSize)
  <2>1. Content = FileBytes(path, n)
    BY <1>4 DEF Content, path
  <2>2. n = 0 => FileBytes(path, n) = << >>
    BY DEF FileBytes
  <2> QED
    BY <1>1, <1>2, <2>1, <2>2, FileBytesType DEF NoHash, path
<1> QED
    BY <1>3, <1>4

LEMMA SamePiece ==
    ASSUME NEW S, NEW left \in Seq(S), NEW right \in Seq(S),
           NEW from \in Nat \ {0}, NEW to \in Nat,
           to <= Len(left), to <= Len(right),
           \A k \in 1 .. to : left[k] = right[k]
    PROVE  SubSeq(left, from, to) = SubSeq(right, from, to)
<1>1. CASE to < from
  BY <1>1, SubSeqEmpty
<1>2. CASE from <= to
  <2>1. \A k \in from .. to : left[k] \in S /\ right[k] \in S
    BY ElementOfSeq
  <2> DEFINE l == SubSeq(left, from, to)
             r == SubSeq(right, from, to)
  <2>2. /\ l \in Seq(S) /\ Len(l) = to - from + 1
        /\ \A k \in 1 .. to - from + 1 : l[k] = left[from + k - 1]
    BY <1>2, <2>1, SubSeqProperties
  <2>3. /\ r \in Seq(S) /\ Len(r) = to - from + 1
        /\ \A k \in 1 .. to - from + 1 : r[k] = right[from + k - 1]
    BY <1>2, <2>1, SubSeqProperties
  <2> HIDE DEF l, r
  <2>4. \A k \in 1 .. to - from + 1 : from + k - 1 \in 1 .. to
    OBVIOUS
  <2>5. l = r
    BY <2>2, <2>3, <2>4, SeqEqual
  <2> QED
    BY <2>5 DEF l, r
<1> QED
  BY <1>1, <1>2

(* What is put behind a file leaves its bytes where they are. *)
LEMMA AppendedBytes ==
    ASSUME NEW file \in Seq(Byte), NEW bytes \in Seq(Byte), NEW all,
           all = AlignedTo(file \o bytes, SuperBlockSize)
    PROVE  /\ all \in Seq(Byte)
           /\ Len(all) % SuperBlockSize = 0
           /\ Len(file) + Len(bytes) <= Len(all)
           /\ SubSeq(all, Len(file) + 1, Len(file) + Len(bytes)) = bytes
           /\ \A k \in 1 .. Len(file) : all[k] = file[k]
<1> DEFINE joined == file \o bytes
<1>1. /\ joined \in Seq(Byte) /\ Len(joined) = Len(file) + Len(bytes)
      /\ \A k \in 1 .. Len(file) : joined[k] = file[k]
      /\ \A k \in 1 .. Len(bytes) : joined[Len(file) + k] = bytes[k]
  OBVIOUS
<1>2. all = AlignedTo(joined, SuperBlockSize)
  OBVIOUS
<1> HIDE DEF joined
<1>3. /\ all \in Seq(Byte) /\ Len(all) % SuperBlockSize = 0
      /\ Len(all) >= Len(joined)
      /\ \A k \in 1 .. Len(joined) : all[k] = joined[k]
  BY <1>1, <1>2, SizeFacts, AlignedToProperties
<1>4. Len(file) \in Nat /\ Len(bytes) \in Nat /\ Len(all) \in Nat
  BY <1>3, LenProperties
<1>5. SubSeq(all, Len(file) + 1, Len(file) + Len(bytes)) = bytes
  <2> DEFINE from == Len(file) + 1
             to == Len(file) + Len(bytes)
             piece == SubSeq(all, from, to)
  <2>1. \A k \in from .. to : all[k] \in Byte
    BY <1>1, <1>3, <1>4, ElementOfSeq
  <2>2. /\ piece \in Seq(Byte)
        /\ Len(piece) = IF from <= to THEN to - from + 1 ELSE 0
        /\ \A k \in 1 .. to - from + 1 : piece[k] = all[from + k - 1]
    BY <1>4, <2>1, SubSeqProperties
  <2> HIDE DEF piece
  <2>3. Len(piece) = Len(bytes)
    BY <1>4, <2>2
  <2>4. ASSUME NEW k \in 1 .. Len(bytes)
        PROVE  piece[k] = bytes[k]
    <3>1. piece[k] = all[Len(file) + k]
      BY <1>4, <2>2
    <3>2. Len(file) + k \in 1 .. Len(joined)
      BY <1>1, <1>4
    <3> QED
      BY <1>1, <1>3, <3>1, <3>2
  <2>5. piece = bytes
    BY <2>2, <2>3, <2>4, SeqEqual
  <2> QED
    BY <2>5 DEF piece
<1>6. \A k \in 1 .. Len(file) : all[k] = file[k]
  BY <1>1, <1>3, <1>4
<1> QED
  BY <1>1, <1>3, <1>4, <1>5, <1>6

LEMMA KeptBytes ==
    ASSUME NEW file \in Seq(Byte), NEW bytes \in Seq(Byte),
           NEW from \in Nat \ {0}, NEW to \in Nat, to <= Len(file)
    PROVE  SubSeq(AlignedTo(file \o bytes, SuperBlockSize), from, to)
               = SubSeq(file, from, to)
<1> DEFINE all == AlignedTo(file \o bytes, SuperBlockSize)
<1> HIDE DEF all
<1>1. Len(file) \in Nat /\ Len(bytes) \in Nat
  BY LenProperties
<1>2. /\ all \in Seq(Byte) /\ Len(file) + Len(bytes) <= Len(all)
      /\ \A k \in 1 .. Len(file) : all[k] = file[k]
  BY AppendedBytes DEF all
<1>3. Len(all) \in Nat
  BY <1>2, LenProperties
<1>4. to <= Len(all) /\ \A k \in 1 .. to : all[k] = file[k]
  BY <1>1, <1>2, <1>3
<1> QED
  BY <1>2, <1>4, SamePiece DEF all

LEMMA CreateStep == IInv /\ CreateSection => IInv'
<1> SUFFICES ASSUME IInv, CreateSection
             PROVE  IInv'
    OBVIOUS
<1> DEFINE made == [name |-> Name, offset |-> Len(exeFile),
                    size |-> Len(Content), hash |-> Content]
<1>1. /\ BlockType /\ Building /\ stage = "createExeFs" /\ section \in Sections
      /\ Name # NoName /\ Path(Name, section) \in DOMAIN title.dir
    BY DEF IInv, Building, CreateSection, CreatingSection
<1>2. /\ superBlock' = [superBlock EXCEPT ![section] = made]
      /\ exeFile' = AlignedTo(exeFile \o Content, SuperBlockSize)
      /\ section' = section + 1 /\ UNCHANGED <<title, stage>>
    BY DEF CreateSection, Content
<1>3. Content \in Seq(Byte) /\ (Content # NoHash => Content[1].of = Path(Name, section))
    BY <1>1, ContentProperties
<1>4. exeFile \in Seq(Byte) /\ Len(exeFile) % SuperBlockSize = 0 /\ section \in Nat
    BY <1>1, SizeFacts DEF BlockType
<1>5. /\ exeFile' \in Seq(Byte) /\ Len(exeFile') % SuperBlockSize = 0
      /\ Len(exeFile) + Len(Content) <= Len(exeFile')
      /\ SubSeq(exeFile', Len(exeFile) + 1, Len(exeFile) + Len(Content)) = Content
    BY <1>2, <1>3, <1>4, AppendedBytes
<1>6. made \in Section
    BY <1>1, <1>3, <1>4 DEF BlockType, Section, Name
<1>7. /\ superBlock' \in [Sections -> Section] /\ superBlock'[section] = made
      /\ \A i \in Sections : i # section => superBlock'[i] = superBlock[i]
    BY <1>1, <1>2, <1>6 DEF BlockType
<1>8. BlockType'
    BY <1>1, <1>2, <1>5, <1>7, SizeFacts DEF BlockType, Sections
<1>9. ASSUME NEW i \in Sections, i < section
      PROVE  /\ Described(i) /\ Described(i)'
             /\ superBlock[i].offset \in Nat /\ superBlock[i].size \in Nat
  <2>1. Described(i)
    BY <1>1, <1>9 DEF IInv, Complete
  <2>2. superBlock[i] \in Section /\ superBlock'[i] = superBlock[i]
    BY <1>1, <1>7, <1>9, SizeFacts DEF BlockType, Sections
  <2>3. \A j \in Sections : j < i => superBlock'[j] = superBlock[j]
    BY <1>4, <1>7, <1>9, SizeFacts DEF Sections
  <2>4. CASE superBlock[i].name = NoName
    BY <2>1, <2>2, <2>4 DEF Described, Section
  <2>5. CASE superBlock[i].name # NoName
    <3> DEFINE from == superBlock[i].offset + 1
               to == superBlock[i].offset + superBlock[i].size
    <3>1. from \in Nat \ {0} /\ to \in Nat
          /\ superBlock[i].offset \in Nat /\ superBlock[i].size \in Nat
      BY <2>2 DEF Section
    <3>2. to <= Len(exeFile) /\ Len(exeFile) <= Len(exeFile')
      BY <1>3, <1>4, <1>5, <2>1, <2>5 DEF Described
    <3>3. SectionBytes(i)' = SectionBytes(i)
      <4>1. to <= Len(exeFile)
        BY <3>2
      <4> HIDE DEF from, to
      <4>2. SubSeq(exeFile', from, to) = SubSeq(exeFile, from, to)
        BY <1>2, <1>3, <1>4, <3>1, <4>1, KeptBytes
      <4> QED
        BY <2>2, <4>2 DEF SectionBytes, from, to
    <3>4. to <= Len(exeFile')
      BY <1>4, <1>5, <3>1, <3>2
    <3> QED
      BY <2>1, <2>2, <2>3, <2>5, <3>1, <3>3, <3>4 DEF Described, InOrder
  <2> QED
    BY <2>4, <2>5
<1>10. ASSUME NEW i \in Sections, i = section
       PROVE  Described(i)'
  <2>1. ASSUME NEW j \in Sections, j < i, superBlock'[j].name # NoName
        PROVE  superBlock'[j].offset + superBlock'[j].size <= Len(exeFile)
    <3>1. j < section /\ superBlock'[j] = superBlock[j]
      BY <1>7, <1>10, <2>1, SizeFacts DEF Sections
    <3> QED
      BY <1>9, <2>1, <3>1 DEF Described
  <2>2. superBlock'[i] = made /\ made.name # NoName
    BY <1>1, <1>7, <1>10
  <2>3. /\ made.offset = Len(exeFile) /\ made.size = Len(Content)
        /\ made.hash = Content /\ made.name = Name
    OBVIOUS
  <2> HIDE DEF made
  <2>4. SectionBytes(i)' = Content
    BY <1>5, <2>2, <2>3 DEF SectionBytes
  <2>5. InOrder(i)'
    BY <2>1, <2>2, <2>3 DEF InOrder
  <2>6. Content # NoHash => Content[1].of = Path(made.name, i)
    BY <1>3, <1>10, <2>3
  <2> QED
    BY <1>4, <1>5, <2>2, <2>3, <2>4, <2>5, <2>6 DEF Described
<1>11. ASSUME NEW i \in Sections, i > section
       PROVE  superBlock'[i].name = NoName => superBlock'[i] = NoSection
  BY <1>1, <1>7, <1>11, SizeFacts DEF IInv, Complete, Sections
<1>12. \A i \in Sections : Complete(i)' <=> i <= section
  BY <1>1, <1>2, SizeFacts DEF Complete, Sections
<1>13. \A i \in Sections : i < section \/ i = section \/ i > section
  BY <1>1, SizeFacts DEF Sections
<1>14. section' # 0
  BY <1>1, <1>2, SizeFacts DEF Sections
<1>15. ASSUME NEW i \in Sections
       PROVE  IF Complete(i)' THEN Described(i)'
              ELSE superBlock'[i].name = NoName => superBlock'[i] = NoSection
  <2>1. i <= section => Described(i)'
    BY <1>1, <1>9, <1>10, <1>13, SizeFacts DEF Sections
  <2>2. ~(i <= section) => i > section
    BY <1>1, <1>13, SizeFacts DEF Sections
  <2> QED
    BY <1>11, <1>12, <2>1, <2>2 DEF Complete, Described, SectionBytes, InOrder
<1> QED
  BY <1>8, <1>14, <1>15 DEF IInv

LEMMA DoneStep == IInv /\ CreateExeFsDone => IInv'
<1> SUFFICES ASSUME IInv, CreateExeFsDone
             PROVE  IInv'
    OBVIOUS
<1>1. /\ BlockType /\ stage = "createExeFs" /\ section > SectionCount
      /\ stage' = "createNcch" /\ section' = 0
      /\ UNCHANGED <<title, superBlock, exeFile>>
    BY DEF IInv, Building, CreateExeFsDone
<1>2. BlockType'
    BY <1>1, SizeFacts DEF BlockType
<1>3. ASSUME NEW i \in Sections
      PROVE  Complete(i)' /\ Described(i)'
  <2>1. Complete(i)
    BY <1>1, SizeFacts DEF BlockType, Complete, Sections
  <2>2. Described(i)
    BY <1>1, <2>1 DEF IInv, Building
  <2> QED
    BY <1>1, <2>2 DEF Complete, Described, SectionBytes, InOrder
<1> QED
    BY <1>1, <1>2, <1>3 DEF IInv

-----------------------------------------------------------------------------
(* The steps of CNcch, and those of ExtractFile, leave the super block *)
(* alone as long as it is looked at.                                   *)

LEMMA KeptStep ==
    ASSUME IInv, UNCHANGED <<title, stage, superBlock, exeFile, section>>
    PROVE  IInv'
BY DEF IInv, Building, BlockType, Complete, Described, SectionBytes, InOrder

LEMMA ExtractStep ==
    ASSUME ExtractSection \/ ExtractExeFsDone
    PROVE  ~Building'
BY DEF ExtractSection, ExtractExeFsDone, Building

LEMMA NcchStep == IInv /\ NcchNext => IInv'
<1> SUFFICES ASSUME IInv, NcchNext
             PROVE  IInv'
    OBVIOUS
<1> DEFINE Same == UNCHANGED <<title, stage, superBlock, exeFile, section>>
<1>1. CASE CreateNcchHeader
  <2>1. ~Building' \/ Same
    BY <1>1 DEF CreateNcchHeader, Building
  <2> QED
    BY <2>1, KeptStep DEF IInv
<1>2. CASE \/ CreateExtendedHeader \/ CreateLogoRegion \/ CreatePlainRegion
           \/ CreateExeFs \/ CreateRomFs
  <2>1. Same
    BY <1>2, Zenon DEF CreateExtendedHeader, CreateLogoRegion, CreatePlainRegion,
                CreateExeFs, CreateRomFs, LeftOut, Written
  <2> QED
    BY <2>1, KeptStep
<1>3. CASE CreateNcchDone
    BY <1>3 DEF CreateNcchDone, IInv, Building
<1>4. CASE ExtractRegion \/ ExtractExeFs
    BY <1>4 DEF ExtractRegion, ExtractExeFs, IInv, Building
<1>5. CASE ExtractNcchDone
    BY <1>5 DEF ExtractNcchDone, IInv, Building
<1> QED
    BY <1>1, <1>2, <1>3, <1>4, <1>5 DEF NcchNext

LEMMA StepCorrect == IInv /\ [TitleNext]_titleVars => IInv'
<1> SUFFICES ASSUME IInv, [TitleNext]_titleVars
             PROVE  IInv'
    OBVIOUS
<1>1. CASE ExeFsCreateHeader
    BY <1>1, CreateHeaderStep
<1>2. CASE SkipSection
    BY <1>2, SkipStep
<1>3. CASE ClearSection
    BY <1>3, ClearStep
<1>4. CASE CreateSection
    BY <1>4, CreateStep
<1>5. CASE CreateExeFsDone
    BY <1>5, DoneStep
<1>6. CASE ExtractSection \/ ExtractExeFsDone
    BY <1>6, ExtractStep DEF IInv
<1>7. CASE NcchNext
    BY <1>7, NcchStep
<1>8. CASE UNCHANGED titleVars
    BY <1>8, KeptStep DEF titleVars, exeFsVars
<1> QED
    BY <1>1, <1>2, <1>3, <1>4, <1>5, <1>6, <1>7, <1>8 DEF TitleNext, ExeFsNext

LEMMA InvariantDescribes == IInv => SectionsDescribeFile
BY DEF IInv, Building, Complete, Described, InOrder, SectionsDescribeFile

(* When CExeFs::CreateFile is done, every section that is left has its     *)
(* bytes where the super block says, with their hash, in order and without *)
(* overlapping: for every directory, however many files are missing.       *)
THEOREM SuperBlockDescribesFile == TitleSpec => []SectionsDescribeFile
<1>1. IInv /\ [TitleNext]_titleVars => IInv'
    BY StepCorrect
<1> QED
    BY InitCorrect, <1>1, InvariantDescribes, PTL DEF TitleSpec

-----------------------------------------------------------------------------
(* The header of an NCCH and its image.                                    *)

RegionNames == {"extendedheader", "logo", "plain", "exefs", "romfs"}
Region == [offset : Nat, size : Nat, hashSize : Nat, hash : Seq(Byte)]
Header == [at : [RegionNames -> Region], contentSize : Nat,
           noCrypto : BOOLEAN, fixedKey : BOOLEAN, extKey : BOOLEAN]

(* A byte of a region is what its key stream leaves of it. *)
Clear(b) == [b EXCEPT !.under = {}]
IsSeq(s) == \E S : s \in Seq(S)

(* The hash of a region is that of the first bytes under the key stream. *)
Hides(bytes, hash) ==
    /\ Len(hash) <= Len(bytes)
    /\ \A i \in 1 .. Len(hash) : Clear(bytes[i]) = hash[i]

End(r) == RegionOffset(header, r) + RegionSize(header, r)

(* What HeaderDescribesImage says of the k-th region, and of those before. *)
Placed(k) ==
    IF RegionSize(header, Regions[k]) = 0 THEN header.at[Regions[k]] = NoRegion
    ELSE /\ RegionOffset(header, Regions[k]) >= HeaderBytes
         /\ End(Regions[k]) <= Len(image)
         /\ Len(header.at[Regions[k]].hash) <= RegionSize(header, Regions[k])
         /\ \A i \in 1 .. Len(header.at[Regions[k]].hash) :
                Clear(image[RegionOffset(header, Regions[k]) + i])
                    = header.at[Regions[k]].hash[i]
         /\ \A j \in 1 .. 5 :
                j < k /\ RegionSize(header, Regions[j]) # 0 =>
                    End(Regions[j]) <= RegionOffset(header, Regions[k])

ImageInv ==
    /\ region \in 1 .. 6
    /\ IsSeq(image) /\ Len(image) >= HeaderBytes
    /\ region = 1 => Len(image) = HeaderBytes
    /\ region # 1 => header.contentSize * MediaUnit = Len(image)
    /\ \A k \in 1 .. 5 : k < region => Placed(k)

NInv ==
    /\ Building => /\ header \in Header
                   /\ stage = "createExeFs" => region = 0
                   /\ region # 0 => ImageInv
    /\ HeaderDescribesImage

-----------------------------------------------------------------------------
(* Units *)

LEMMA ByteCounts ==
    /\ HeaderBytes \in Nat \ {0} /\ ExtendedBytes \in Nat \ {0}
    /\ BlockBytes \in Nat \ {0} /\ RomFsSuperBytes \in Nat \ {0}
BY NcchAssumption

LEMMA ProductDivides ==
    ASSUME NEW q \in Int, NEW m \in Nat \ {0}
    PROVE  (q * m) % m = 0
OBVIOUS

LEMMA DivisorOfDivisor ==
    ASSUME NEW n \in Nat, NEW m \in Nat \ {0}, NEW b \in Nat \ {0},
           n % b = 0, b % m = 0
    PROVE  n % m = 0
<1> DEFINE p == n \div b
           q == b \div m
<1>1. p \in Nat /\ q \in Nat /\ n = p * b /\ b = q * m
    OBVIOUS
<1> HIDE DEF p, q
<1>2. n = (p * q) * m /\ p * q \in Int
    BY <1>1
<1> QED
    BY <1>2, ProductDivides

(* Between two whole numbers of units there is room for whole units only. *)
LEMMA WholeUnits ==
    ASSUME NEW x \in Nat, NEW n \in Nat, NEW y \in Nat, NEW m \in Nat \ {0},
           x % m = 0, y % m = 0, y >= x + n
    PROVE  y >= x + Align(n, m)
<1> DEFINE p == x \div m
           q == y \div m
           d == q - p
           c == (n + m - 1) \div m
<1>1. p \in Int /\ q \in Int /\ x = p * m /\ y = q * m
    OBVIOUS
<1>2. c \in Int /\ c * m <= n + m - 1
    OBVIOUS
<1> HIDE DEF p, q, c
<1>3. d \in Int /\ y - x = d * m /\ d * m >= n
    BY <1>1
<1> HIDE DEF d
<1>4. (c - 1) * m < d * m
    BY <1>2, <1>3
<1>5. c - 1 < d
    BY <1>2, <1>3, <1>4
<1>6. c * m <= d * m
    BY <1>2, <1>3, <1>5
<1> QED
    BY <1>3, <1>6 DEF Align, c

LEMMA AlignedTwice ==
    ASSUME NEW n \in Nat, NEW m \in Nat \ {0}
    PROVE  Align(Align(n, m), m) = Align(n, m)
<1> DEFINE a == Align(n, m)
<1>1. a \in Nat /\ a % m = 0
    BY AlignProperties
<1> HIDE DEF a
<1>2. Align(a, m) \in Nat /\ Align(a, m) >= a
    BY <1>1, AlignProperties
<1>3. a >= 0 + Align(a, m)
  <2>1. 0 % m = 0 /\ a >= 0 + a
    BY <1>1
  <2> QED
    BY <1>1, <2>1, WholeUnits
<1> QED
    BY <1>1, <1>2, <1>3 DEF a

LEMMA UnitFacts ==
    ASSUME title \in Titles
    PROVE  /\ MediaUnit \in Nat \ {0} /\ MediaUnit % MediaUnit = 0
           /\ BigAlignment \in Nat \ {0} /\ BigAlignment % MediaUnit = 0
<1>1. 2 ^ title.sizeType \in Nat \ {0}
    BY NcchAssumption
<1>2. MediaUnit \in Nat \ {0}
    BY <1>1 DEF MediaUnit
<1>3. title.wholeBlocks => BlockBytes % MediaUnit = 0
    BY NcchAssumption DEF MediaUnit
<1>4. MediaUnit % MediaUnit = 0
    BY <1>2
<1> QED
    BY <1>2, <1>3, <1>4, ByteCounts DEF BigAlignment

LEMMA UnitsProperties ==
    ASSUME title \in Titles, NEW n \in Nat
    PROVE  /\ Units(n) \in Nat /\ Units(n) * MediaUnit = Align(n, MediaUnit)
           /\ Units(n) * MediaUnit >= n
<1>1. /\ Align(n, MediaUnit) \in Nat /\ Align(n, MediaUnit) >= n
      /\ Align(n, MediaUnit) % MediaUnit = 0 /\ MediaUnit \in Nat \ {0}
    BY UnitFacts, AlignProperties
<1> DEFINE a == Align(n, MediaUnit)
           u == MediaUnit
<1>2. a \in Nat /\ u \in Nat \ {0} /\ a % u = 0
    BY <1>1
<1> HIDE DEF a, u
<1>3. a \div u \in Nat /\ (a \div u) * u = a
    BY <1>2
<1> QED
    BY <1>1, <1>3 DEF Units, a, u

-----------------------------------------------------------------------------
(* Bytes under key streams *)

LEMMA ClearBytes ==
    ASSUME NEW b \in Byte, NEW under
    PROVE  Clear(b) = b /\ Clear([b EXCEPT !.under = under]) = b
BY DEF Clear, Byte

LEMMA CryptedProperties ==
    ASSUME NEW bytes \in Seq(Byte), NEW key, NEW counter, NEW from \in Nat
    PROVE  LET crypted == Crypted(bytes, key, counter, from) IN
           /\ IsSeq(crypted) /\ Len(crypted) = Len(bytes)
           /\ \A k \in 1 .. Len(bytes) : Clear(crypted[k]) = bytes[k]
<1> DEFINE stream(k) == <<key, counter, from + k>>
           under(k) == IF stream(k) \in bytes[k].under
                       THEN bytes[k].under \ {stream(k)}
                       ELSE bytes[k].under \cup {stream(k)}
           crypted == Crypted(bytes, key, counter, from)
           shaded(k) == [bytes[k] EXCEPT !.under = under(k)]
<1>1. Len(bytes) \in Nat /\ DOMAIN bytes = 1 .. Len(bytes)
    BY LenProperties
<1>2. \A k \in 1 .. Len(bytes) : bytes[k] \in Byte
    BY ElementOfSeq
<1>3. crypted = [k \in 1 .. Len(bytes) |-> shaded(k)]
    BY <1>1 DEF Crypted
<1> HIDE DEF under, stream, crypted
<1>4. \A k \in 1 .. Len(bytes) : Clear(crypted[k]) = bytes[k]
    BY <1>2, <1>3, ClearBytes
<1> HIDE DEF shaded
<1> DEFINE All == {shaded(k) : k \in 1 .. Len(bytes)}
<1>5. crypted \in [1 .. Len(bytes) -> All]
    BY <1>3
<1> HIDE DEF All
<1>6. crypted \in Seq(All) /\ Len(crypted) = Len(bytes)
    BY <1>1, <1>5
<1> QED
    BY <1>4, <1>6 DEF IsSeq, crypted

(* The parts of an ExeFS under two keys, put behind each other again. *)
LEMMA ExeFsCryptedProperties ==
    ASSUME NEW bytes \in Seq(Byte), NEW n \in Nat, NEW counter,
           SuperBlockSize + n <= Len(bytes)
    PROVE  LET crypted == ExeFsCrypted(bytes, n, counter) IN
           /\ IsSeq(crypted) /\ Len(crypted) = Len(bytes)
           /\ \A k \in 1 .. Len(bytes) : Clear(crypted[k]) = bytes[k]
<1> DEFINE b == SuperBlockSize
           m == SuperBlockSize + n
           part(from, to, key) ==
               Crypted(SubSeq(bytes, from + 1, to), key, counter, from)
           x == part(0, b, keys.old)
           y == part(b, m, keys.new)
           z == part(m, Len(bytes), keys.old)
<1>1. /\ b \in Nat \ {0} /\ m \in Nat /\ b <= m /\ m <= Len(bytes)
      /\ Len(bytes) \in Nat
    BY SizeFacts, LenProperties
<1> HIDE DEF b, m
<1>2. ExeFsCrypted(bytes, n, counter) = x \o y \o z
    BY DEF ExeFsCrypted, b, m
<1>3. ASSUME NEW from \in Nat, NEW to \in Nat, from <= to, to <= Len(bytes), NEW key
      PROVE  /\ IsSeq(part(from, to, key)) /\ Len(part(from, to, key)) = to - from
             /\ \A k \in 1 .. to - from : Clear(part(from, to, key)[k]) = bytes[from + k]
  <2> DEFINE piece == SubSeq(bytes, from + 1, to)
  <2>1. \A k \in from + 1 .. to : bytes[k] \in Byte
    BY <1>1, <1>3, ElementOfSeq
  <2>2. /\ piece \in Seq(Byte) /\ Len(piece) = to - from
        /\ \A k \in 1 .. to - from : piece[k] = bytes[from + k]
    BY <1>3, <2>1, SubSeqProperties
  <2> HIDE DEF piece
  <2>3. /\ IsSeq(Crypted(piece, key, counter, from))
        /\ Len(Crypted(piece, key, counter, from)) = to - from
        /\ \A k \in 1 .. to - from :
               Clear(Crypted(piece, key, counter, from)[k]) = piece[k]
    BY <1>3, <2>2, CryptedProperties
  <2> QED
    BY <2>2, <2>3 DEF piece
<1> HIDE DEF part
<1>4. /\ IsSeq(x) /\ Len(x) = b
      /\ \A k \in 1 .. b : Clear(x[k]) = bytes[k]
    BY <1>1, <1>3
<1>5. /\ IsSeq(y) /\ Len(y) = m - b
      /\ \A k \in 1 .. m - b : Clear(y[k]) = bytes[b + k]
    BY <1>1, <1>3
<1>6. /\ IsSeq(z) /\ Len(z) = Len(bytes) - m
      /\ \A k \in 1 .. Len(bytes) - m : Clear(z[k]) = bytes[m + k]
    BY <1>1, <1>3
<1> HIDE DEF x, y, z
<1>7. PICK S : x \in Seq(S) /\ y \in Seq(S) /\ z \in Seq(S)
  <2>1. PICK Sx : x \in Seq(Sx)
    BY <1>4 DEF IsSeq
  <2>2. PICK Sy : y \in Seq(Sy)
    BY <1>5 DEF IsSeq
  <2>3. PICK Sz : z \in Seq(Sz)
    BY <1>6 DEF IsSeq
  <2> DEFINE S == Sx \cup Sy \cup Sz
  <2>4. x \in Seq(S) /\ y \in Seq(S) /\ z \in Seq(S)
    BY <2>1, <2>2, <2>3
  <2> QED
    BY <2>4
<1> DEFINE xy == x \o y
           all == xy \o z
<1>8. /\ xy \in Seq(S) /\ Len(xy) = m
      /\ \A k \in 1 .. m : xy[k] = IF k <= b THEN x[k] ELSE y[k - b]
  <2>1. /\ xy \in Seq(S) /\ Len(xy) = Len(x) + Len(y)
        /\ \A k \in 1 .. Len(x) + Len(y) :
               xy[k] = IF k <= Len(x) THEN x[k] ELSE y[k - Len(x)]
    BY <1>7, ConcatProperties
  <2> HIDE DEF xy
  <2> QED
    BY <1>1, <1>4, <1>5, <2>1
<1> HIDE DEF xy
<1>9. /\ all \in Seq(S) /\ Len(all) = Len(bytes)
      /\ \A k \in 1 .. Len(bytes) : all[k] = IF k <= m THEN xy[k] ELSE z[k - m]
  <2>1. /\ all \in Seq(S) /\ Len(all) = Len(xy) + Len(z)
        /\ \A k \in 1 .. Len(xy) + Len(z) :
               all[k] = IF k <= Len(xy) THEN xy[k] ELSE z[k - Len(xy)]
    BY <1>7, <1>8, ConcatProperties
  <2> HIDE DEF all
  <2> QED
    BY <1>1, <1>6, <1>8, <2>1
<1> HIDE DEF all
<1>10. ASSUME NEW k \in 1 .. Len(bytes)
       PROVE  Clear(all[k]) = bytes[k]
  <2>1. CASE k <= b
    BY <1>1, <1>4, <1>8, <1>9, <2>1
  <2>2. CASE b < k /\ k <= m
    <3>1. all[k] = y[k - b] /\ k - b \in 1 .. m - b /\ b + (k - b) = k
      BY <1>1, <1>8, <1>9, <2>2
    <3> QED
      BY <1>5, <3>1
  <2>3. CASE m < k
    <3>1. all[k] = z[k - m] /\ k - m \in 1 .. Len(bytes) - m /\ m + (k - m) = k
      BY <1>1, <1>9, <2>3
    <3> QED
      BY <1>6, <3>1
  <2> QED
    BY <1>1, <2>1, <2>2, <2>3
<1> QED
    BY <1>2, <1>9, <1>10 DEF IsSeq, all, xy

(* What lies over bytes when they are kept, or nothing. *)
Shades(bytes, plain) ==
    /\ IsSeq(bytes) /\ Len(bytes) = Len(plain)
    /\ \A k \in 1 .. Len(plain) : Clear(bytes[k]) = plain[k]

LEMMA PlainShades == ASSUME NEW plain \in Seq(Byte) PROVE Shades(plain, plain)
<1>1. IsSeq(plain)
    BY DEF IsSeq
<1>2. \A k \in 1 .. Len(plain) : plain[k] \in Byte
    BY ElementOfSeq
<1> QED
    BY <1>1, <1>2, ClearBytes DEF Shades

LEMMA CryptedShades ==
    ASSUME NEW plain \in Seq(Byte), NEW key, NEW counter
    PROVE  Shades(Crypted(plain, key, counter, 0), plain)
BY CryptedProperties DEF Shades

LEMMA ExeFsCryptedShades ==
    ASSUME NEW plain \in Seq(Byte), NEW n \in Nat, NEW counter,
           SuperBlockSize + n <= Len(plain)
    PROVE  Shades(ExeFsCrypted(plain, n, counter), plain)
BY ExeFsCryptedProperties DEF Shades

LEMMA ShadesHide ==
    ASSUME NEW plain \in Seq(Byte), NEW bytes, Shades(bytes, plain),
           NEW n \in Nat, n <= Len(plain)
    PROVE  /\ SubSeq(plain, 1, n) \in Seq(Byte) /\ Len(SubSeq(plain, 1, n)) = n
           /\ Hides(bytes, SubSeq(plain, 1, n))
<1> DEFINE hash == SubSeq(plain, 1, n)
<1>1. Len(plain) \in Nat /\ Len(bytes) = Len(plain)
    BY LenProperties DEF Shades
<1>2. \A k \in 1 .. n : plain[k] \in Byte
    BY <1>1, ElementOfSeq
<1>3. /\ hash \in Seq(Byte) /\ Len(hash) = IF 1 <= n THEN n - 1 + 1 ELSE 0
      /\ \A k \in 1 .. n - 1 + 1 : hash[k] = plain[1 + k - 1]
    BY <1>2, SubSeqProperties
<1> HIDE DEF hash
<1>4. Len(hash) = n /\ \A k \in 1 .. n : hash[k] = plain[k]
    BY <1>3
<1>5. \A k \in 1 .. n : Clear(bytes[k]) = plain[k]
    BY <1>1 DEF Shades
<1> QED
    BY <1>1, <1>3, <1>4, <1>5 DEF Hides, hash

StandAt(bytes, whole, n) == \A k \in 1 .. Len(bytes) : whole[n + k] = bytes[k]

(* What is put behind an image, with zeros up to a whole unit. *)
LEMMA AppendedRegion ==
    ASSUME NEW file, IsSeq(file), NEW bytes, IsSeq(bytes), NEW a \in Nat \ {0},
           NEW whole, whole = AlignedTo(file \o bytes, a)
    PROVE  /\ IsSeq(whole) /\ Len(whole) = Align(Len(file) + Len(bytes), a)
           /\ StandAt(file, whole, 0) /\ StandAt(bytes, whole, Len(file))
<1>1. PICK S : file \in Seq(S) /\ bytes \in Seq(S)
  <2>1. PICK F : file \in Seq(F)
    BY DEF IsSeq
  <2>2. PICK B : bytes \in Seq(B)
    BY DEF IsSeq
  <2>3. file \in Seq(F \cup B) /\ bytes \in Seq(F \cup B)
    BY <2>1, <2>2
  <2> QED
    BY <2>3
<1> DEFINE joined == file \o bytes
           n == Align(Len(joined), a) - Len(joined)
           zeros == Zeros(n)
           T == S \cup {ZeroByte}
<1>2. Len(file) \in Nat /\ Len(bytes) \in Nat
    BY <1>1, LenProperties
<1>3. file \in Seq(T) /\ bytes \in Seq(T)
    BY <1>1
<1>4. /\ joined \in Seq(T) /\ Len(joined) = Len(file) + Len(bytes)
      /\ \A k \in 1 .. Len(file) : joined[k] = file[k]
      /\ \A k \in 1 .. Len(bytes) : joined[Len(file) + k] = bytes[k]
    BY <1>2, <1>3
<1> HIDE DEF joined
<1>5. n \in Nat /\ Len(joined) \in Nat
  <2>1. Len(joined) \in Nat
    BY <1>2, <1>4
  <2>2. Align(Len(joined), a) \in Nat /\ Align(Len(joined), a) >= Len(joined)
    BY <2>1, AlignProperties
  <2> QED
    BY <2>1, <2>2
<1> HIDE DEF n
<1>6. zeros \in [1 .. n -> T]
    BY DEF Zeros
<1>7. zeros \in Seq(T) /\ Len(zeros) = n
    BY <1>5, <1>6
<1> HIDE DEF zeros, T
<1> DEFINE all == joined \o zeros
<1>8. /\ all \in Seq(T) /\ Len(all) = Len(joined) + n
      /\ \A k \in 1 .. Len(joined) : all[k] = joined[k]
  <2>1. /\ all \in Seq(T) /\ Len(all) = Len(joined) + Len(zeros)
        /\ \A k \in 1 .. Len(joined) + Len(zeros) :
               all[k] = IF k <= Len(joined) THEN joined[k] ELSE zeros[k - Len(joined)]
    BY <1>4, <1>7, ConcatProperties
  <2> HIDE DEF all
  <2> QED
    BY <1>5, <1>7, <2>1
<1> HIDE DEF all
<1>9. Len(joined) + n = Align(Len(file) + Len(bytes), a)
  <2>1. Align(Len(joined), a) \in Nat
    BY <1>5, AlignProperties
  <2> QED
    BY <1>4, <1>5, <2>1 DEF n
<1>10. \A k \in 1 .. Len(file) : all[k] = file[k]
    BY <1>2, <1>4, <1>8
<1>11. \A k \in 1 .. Len(bytes) : all[Len(file) + k] = bytes[k]
  <2> SUFFICES ASSUME NEW k \in 1 .. Len(bytes)
               PROVE  all[Len(file) + k] = bytes[k]
    OBVIOUS
  <2>1. Len(file) + k \in 1 .. Len(joined)
    BY <1>2, <1>4
  <2> QED
    BY <1>4, <1>8, <2>1
<1>12. all = whole
    BY DEF all, AlignedTo, joined, zeros, n
<1> QED
  <2>1. \A k \in 1 .. Len(file) : 0 + k = k
    BY <1>2
  <2> QED
    BY <1>8, <1>9, <1>10, <1>11, <1>12, <2>1 DEF IsSeq, StandAt

-----------------------------------------------------------------------------
(* Regions *)

LEMMA RegionFacts ==
    /\ \A k \in 1 .. 5 : Regions[k] \in RegionNames
    /\ \A r \in RegionNames : \E k \in 1 .. 5 : r = Regions[k]
    /\ \A j, k \in 1 .. 5 : Regions[j] = Regions[k] => j = k
    /\ Len(Regions) = 5 /\ DOMAIN Regions = 1 .. 5
    /\ Regions[1] = "extendedheader"
    /\ \A k \in 1 .. 5 : Regions[k] = "extendedheader" => k = 1
<1>1. DOMAIN Regions = 1 .. 5 /\ Len(Regions) = 5
    BY DEF Regions
<1>2. /\ Regions[1] = "extendedheader" /\ Regions[2] = "logo" /\ Regions[3] = "plain"
      /\ Regions[4] = "exefs" /\ Regions[5] = "romfs"
    BY DEF Regions
<1>3. \A k \in 1 .. 5 : k = 1 \/ k = 2 \/ k = 3 \/ k = 4 \/ k = 5
    OBVIOUS
<1>4. 1 \in 1 .. 5 /\ 2 \in 1 .. 5 /\ 3 \in 1 .. 5 /\ 4 \in 1 .. 5 /\ 5 \in 1 .. 5
    OBVIOUS
<1> QED
    BY <1>1, <1>2, <1>3, <1>4 DEF RegionNames

LEMMA RegionPlaces ==
    ASSUME title \in Titles, NEW h \in Header, NEW r \in RegionNames
    PROVE  RegionOffset(h, r) \in Nat /\ RegionSize(h, r) \in Nat
<1>1. h.at[r].offset \in Nat /\ h.at[r].size \in Nat
    BY DEF Header, Region
<1>2. \A n \in Nat : n * MediaUnit \in Nat
    BY UnitFacts
<1> QED
    BY <1>1, <1>2, ByteCounts DEF RegionOffset, RegionSize

LEMMA SamePlaces ==
    ASSUME UNCHANGED title, NEW h, header'.at = h.at, NEW r
    PROVE  /\ RegionOffset(header, r)' = RegionOffset(h, r)
           /\ RegionSize(header, r)' = RegionSize(h, r)
<1>1. MediaUnit' = MediaUnit
    BY DEF MediaUnit
<1>2. header'.at[r] = h.at[r]
    OBVIOUS
<1>3. RegionOffset(header, r)' = RegionOffset(h, r)
    BY <1>1, <1>2 DEF RegionOffset
<1>4. RegionSize(header, r)' = RegionSize(h, r)
    BY <1>1, <1>2 DEF RegionSize
<1> QED
    BY <1>3, <1>4

(* What is written fits what the header says of it. *)
Fits(h, r, bytes) ==
    IF RegionSize(h, r) = 0 THEN h.at[r] = NoRegion
    ELSE /\ RegionOffset(h, r) = Len(image)
         /\ \/ RegionSize(h, r) <= Len(bytes)
            \/ RegionSize(h, r) = Align(Len(bytes), MediaUnit) /\ region # 1
         /\ Len(h.at[r].hash) <= RegionSize(h, r)
         /\ Hides(bytes, h.at[r].hash)

(* A region that fits is placed behind those before it. *)
LEMMA RegionStep ==
    ASSUME IInv, NInv, stage = "createNcch", region \in 1 .. 5,
           NEW h \in Header, NEW rec \in Region,
           h.at = [header.at EXCEPT ![Regions[region]] = rec],
           NEW bytes, IsSeq(bytes), Fits(h, Regions[region], bytes),
           NEW a \in Nat \ {0}, a % MediaUnit = 0,
           Written(h, image \o bytes, a)
    PROVE  NInv'
<1>1. /\ title \in Titles /\ header \in Header /\ region # 0
      /\ IsSeq(image) /\ Len(image) >= HeaderBytes
      /\ region = 1 => Len(image) = HeaderBytes
      /\ region # 1 => header.contentSize * MediaUnit = Len(image)
      /\ \A k \in 1 .. 5 : k < region => Placed(k)
    BY DEF IInv, NInv, Building, BlockType, ImageInv
<1>2. /\ MediaUnit \in Nat \ {0} /\ MediaUnit' = MediaUnit
      /\ UNCHANGED <<title, stage>>
      /\ image' = AlignedTo(image \o bytes, a)
      /\ header' = [h EXCEPT !.contentSize = Len(image') \div MediaUnit]
      /\ region' = region + 1
    BY <1>1, UnitFacts DEF Written, MediaUnit
<1>3. Len(image) \in Nat /\ Len(bytes) \in Nat
    BY <1>1, LenProperties DEF IsSeq
<1>4. /\ IsSeq(image)' /\ Len(image') = Align(Len(image) + Len(bytes), a)
      /\ \A k \in 1 .. Len(image) : image'[k] = image[k]
      /\ \A k \in 1 .. Len(bytes) : image'[Len(image) + k] = bytes[k]
  <2>1. /\ IsSeq(image') /\ Len(image') = Align(Len(image) + Len(bytes), a)
        /\ StandAt(image, image', 0) /\ StandAt(bytes, image', Len(image))
    BY <1>1, <1>2, AppendedRegion
  <2>2. \A k \in 1 .. Len(image) : 0 + k = k
    BY <1>3
  <2> QED
    BY <2>1, <2>2 DEF IsSeq, StandAt
<1>5. /\ Len(image') \in Nat /\ Len(image') >= Len(image) + Len(bytes)
      /\ Len(image') % a = 0
  <2> DEFINE n == Len(image) + Len(bytes)
  <2>1. n \in Nat /\ Len(image') = Align(n, a)
    BY <1>3, <1>4
  <2> HIDE DEF n
  <2>2. Align(n, a) \in Nat /\ Align(n, a) >= n /\ Align(n, a) % a = 0
    BY <2>1, AlignProperties
  <2> QED
    BY <2>1, <2>2 DEF n
<1>6. Len(image') % MediaUnit = 0
    BY <1>2, <1>5, DivisorOfDivisor
<1>7. /\ Len(image') \div MediaUnit \in Nat
      /\ (Len(image') \div MediaUnit) * MediaUnit = Len(image')
  <2> DEFINE n == Len(image')
             u == MediaUnit
  <2>1. n \in Nat /\ u \in Nat \ {0} /\ n % u = 0
    BY <1>2, <1>5, <1>6
  <2> HIDE DEF n, u
  <2>2. n \div u \in Nat /\ (n \div u) * u = n
    BY <2>1
  <2> QED
    BY <2>2 DEF n, u
<1>8. /\ header' \in Header /\ header'.at = h.at
      /\ header'.contentSize * MediaUnit = Len(image')
    BY <1>2, <1>7 DEF Header
<1>9. ASSUME NEW k \in 1 .. 5
      PROVE  /\ RegionOffset(header, Regions[k])' = RegionOffset(h, Regions[k])
             /\ RegionSize(header, Regions[k])' = RegionSize(h, Regions[k])
             /\ header'.at[Regions[k]] = h.at[Regions[k]]
    BY <1>2, <1>8, SamePlaces
<1>10. ASSUME NEW k \in 1 .. 5, k < region
       PROVE  /\ RegionOffset(h, Regions[k]) = RegionOffset(header, Regions[k])
              /\ RegionSize(h, Regions[k]) = RegionSize(header, Regions[k])
              /\ h.at[Regions[k]] = header.at[Regions[k]]
  <2>1. Regions[k] # Regions[region] /\ Regions[k] \in RegionNames
    BY <1>10, RegionFacts
  <2>2. h.at[Regions[k]] = header.at[Regions[k]]
    BY <1>1, <2>1 DEF Header
  <2> QED
    BY <2>2 DEF RegionOffset, RegionSize
<1>11. ASSUME NEW k \in 1 .. 5
       PROVE  /\ RegionOffset(header, Regions[k]) \in Nat
              /\ RegionSize(header, Regions[k]) \in Nat
              /\ RegionOffset(h, Regions[k]) \in Nat
              /\ RegionSize(h, Regions[k]) \in Nat
              /\ Len(h.at[Regions[k]].hash) \in Nat
  <2>1. Regions[k] \in RegionNames
    BY RegionFacts
  <2>2. h.at[Regions[k]].hash \in Seq(Byte)
    BY <2>1 DEF Header, Region
  <2> QED
    BY <1>1, <2>1, <2>2, RegionPlaces, LenProperties
<1>12. ASSUME NEW k \in 1 .. 5, k < region
       PROVE  /\ Placed(k)'
              /\ RegionSize(h, Regions[k]) # 0 =>
                     RegionOffset(h, Regions[k]) + RegionSize(h, Regions[k]) <= Len(image)
  <2> DEFINE o == RegionOffset(header, Regions[k])
             n == RegionSize(header, Regions[k])
             r == header.at[Regions[k]]
  <2>1. /\ RegionOffset(header, Regions[k])' = o /\ RegionSize(header, Regions[k])' = n
        /\ header'.at[Regions[k]] = r
    BY <1>9, <1>10, <1>12
  <2>2. o \in Nat /\ n \in Nat /\ Len(r.hash) \in Nat
    BY <1>10, <1>11, <1>12
  <2>3. \A j \in 1 .. 5 :
            j < k => /\ RegionOffset(header, Regions[j])' = RegionOffset(header, Regions[j])
                     /\ RegionSize(header, Regions[j])' = RegionSize(header, Regions[j])
    BY <1>9, <1>10, <1>12
  <2>4. Placed(k)
    BY <1>1, <1>12
  <2>5. CASE n = 0
    BY <1>10, <1>12, <2>1, <2>4, <2>5 DEF Placed
  <2>6. CASE n # 0
    <3>1. /\ o >= HeaderBytes /\ o + n <= Len(image) /\ Len(r.hash) <= n
          /\ \A i \in 1 .. Len(r.hash) : Clear(image[o + i]) = r.hash[i]
          /\ \A j \in 1 .. 5 :
                 j < k /\ RegionSize(header, Regions[j]) # 0 => End(Regions[j]) <= o
      BY <2>4, <2>6 DEF Placed, End
    <3> HIDE DEF o, n, r
    <3>2. \A i \in 1 .. Len(r.hash) : o + i \in 1 .. Len(image)
      BY <1>3, <2>2, <3>1
    <3>3. \A i \in 1 .. Len(r.hash) : Clear(image'[o + i]) = r.hash[i]
      BY <1>4, <3>1, <3>2
    <3>4. \A j \in 1 .. 5 :
              j < k /\ RegionSize(header, Regions[j])' # 0 => End(Regions[j])' <= o
      BY <2>3, <3>1 DEF End
    <3>5. o + n <= Len(image')
      BY <1>3, <1>5, <2>2, <3>1
    <3>6. End(Regions[k])' = o + n
      BY <2>1 DEF End
    <3> QED
      BY <1>10, <1>12, <2>1, <2>6, <3>1, <3>3, <3>4, <3>5, <3>6 DEF Placed, o, n
  <2> QED
    BY <2>5, <2>6
<1>13. ASSUME NEW k \in 1 .. 5, k = region
       PROVE  Placed(k)'
  <2> DEFINE o == RegionOffset(h, Regions[k])
             n == RegionSize(h, Regions[k])
             r == h.at[Regions[k]]
  <2>1. /\ RegionOffset(header, Regions[k])' = o /\ RegionSize(header, Regions[k])' = n
        /\ header'.at[Regions[k]] = r
    BY <1>9
  <2>2. o \in Nat /\ n \in Nat /\ Len(r.hash) \in Nat
    BY <1>11
  <2>3. IF n = 0 THEN r = NoRegion
        ELSE /\ o = Len(image)
             /\ n <= Len(bytes) \/ (n = Align(Len(bytes), MediaUnit) /\ region # 1)
             /\ Len(r.hash) <= n /\ Hides(bytes, r.hash)
    BY <1>13 DEF Fits
  <2>4. End(Regions[k])' = o + n
    BY <2>1 DEF End
  <2>5. \A j \in 1 .. 5 :
            j < k /\ RegionSize(header, Regions[j])' # 0 => End(Regions[j])' <= Len(image)
    BY <1>9, <1>12, <1>13 DEF End
  <2> HIDE DEF o, n, r
  <2>6. CASE n = 0
    BY <2>1, <2>3, <2>6 DEF Placed
  <2>7. CASE n # 0
    <3>1. Len(image) + n <= Len(image')
      <4>1. CASE n <= Len(bytes)
        BY <1>3, <1>5, <2>2, <4>1
      <4>2. CASE n = Align(Len(bytes), MediaUnit) /\ region # 1
        <5>1. header.contentSize \in Int /\ header.contentSize * MediaUnit = Len(image)
          BY <1>1, <4>2 DEF Header
        <5>2. Len(image) % MediaUnit = 0
          BY <1>2, <5>1, ProductDivides
        <5> QED
          BY <1>2, <1>3, <1>5, <1>6, <4>2, <5>2, WholeUnits
      <4> QED
        BY <2>3, <2>7, <4>1, <4>2
    <3>2. o = Len(image) /\ Len(r.hash) <= n /\ Len(r.hash) <= Len(bytes)
      BY <2>3, <2>7 DEF Hides
    <3>3. ASSUME NEW i \in 1 .. Len(r.hash)
          PROVE  Clear(image'[o + i]) = r.hash[i]
      <4>1. i \in 1 .. Len(bytes) /\ Clear(bytes[i]) = r.hash[i]
        BY <1>3, <2>2, <2>3, <2>7, <3>2 DEF Hides
      <4> QED
        BY <1>4, <3>2, <4>1
    <3> QED
      BY <1>1, <2>1, <2>4, <2>5, <2>7, <3>1, <3>2, <3>3 DEF Placed
  <2> QED
    BY <2>6, <2>7
<1>14. ASSUME NEW k \in 1 .. 5, k < region + 1
       PROVE  Placed(k)'
  <2>1. k < region \/ k = region
    BY <1>14
  <2> QED
    BY <1>12, <1>13, <2>1 DEF Placed, End
<1>15. ImageInv'
  <2>1. region' \in 1 .. 6 /\ region' # 1
    BY <1>2
  <2>2. Len(image') >= HeaderBytes
    BY <1>1, <1>3, <1>5, ByteCounts
  <2>3. header'.contentSize * MediaUnit' = Len(image')
    BY <1>2, <1>8
  <2>4. \A k \in 1 .. 5 : k < region' => Placed(k)'
    BY <1>2, <1>14
  <2> QED
    BY <1>4, <2>1, <2>2, <2>3, <2>4 DEF ImageInv
<1> QED
    BY <1>2, <1>8, <1>15 DEF NInv, HeaderDescribesImage

-----------------------------------------------------------------------------
(* The steps of CreateFile *)

Filling == IInv /\ NInv /\ stage = "createNcch" /\ region \in 1 .. 5

LEMMA FillingFacts ==
    ASSUME Filling
    PROVE  /\ title \in Titles /\ header \in Header /\ IsSeq(image)
           /\ exeFile \in Seq(Byte) /\ superBlock \in [Sections -> Section]
           /\ Len(image) >= HeaderBytes
           /\ region = 1 => Len(image) = HeaderBytes
           /\ region # 1 => header.contentSize * MediaUnit = Len(image)
BY DEF Filling, IInv, NInv, Building, BlockType, ImageInv

LEMMA EmptyRegion == NoRegion \in Region /\ IsSeq(<< >>) /\ Len(<< >>) = 0
<1>1. << >> \in Seq(Byte) /\ Len(<< >>) = 0
    OBVIOUS
<1>2. IsSeq(<< >>)
    BY <1>1 DEF IsSeq
<1> QED
    BY <1>1, <1>2 DEF NoRegion, Region, NoHash

LEMMA LeftOutStep ==
    ASSUME Filling, NEW r, r = Regions[region],
           NEW a \in Nat \ {0}, a % MediaUnit = 0, LeftOut(r, a)
    PROVE  NInv'
<1> DEFINE h == [header EXCEPT !.at[r] = NoRegion]
<1>1. r \in RegionNames /\ region \in 1 .. 5
    BY RegionFacts DEF Filling
<1>2. /\ h \in Header /\ h.at = [header.at EXCEPT ![r] = NoRegion]
      /\ h.at[r] = NoRegion
    BY <1>1, EmptyRegion, FillingFacts DEF Header
<1> HIDE DEF h
<1>3. RegionSize(h, r) = 0
    BY <1>2, UnitFacts, FillingFacts DEF RegionSize, NoRegion
<1>4. Fits(h, r, << >>)
    BY <1>2, <1>3 DEF Fits
<1>5. image \o << >> = image
  <2>1. PICK S : image \in Seq(S)
    BY FillingFacts DEF IsSeq
  <2> QED
    BY <2>1, ConcatEmptySeq
<1>6. Written(h, image, a)
    BY DEF LeftOut, h
<1>7. Written(h, image \o << >>, a)
    BY <1>5, <1>6
<1> QED
    BY <1>1, <1>2, <1>4, <1>7, EmptyRegion, RegionStep DEF Filling

(* A region of a unit of its own, with a hash of its first bytes. *)
LEMMA WithRegionStep ==
    ASSUME Filling, NEW r, r = Regions[region], region # 1,
           NEW bytes, IsSeq(bytes), Len(bytes) \in Nat \ {0},
           NEW hashSize \in Nat, NEW hash \in Seq(Byte), Hides(bytes, hash),
           NEW a \in Nat \ {0}, a % MediaUnit = 0,
           Written(WithRegion(r, Units(Len(bytes)), hashSize, hash), image \o bytes, a)
    PROVE  NInv'
<1> DEFINE rec == [offset |-> header.contentSize, size |-> Units(Len(bytes)),
                   hashSize |-> hashSize, hash |-> hash]
           h == WithRegion(r, Units(Len(bytes)), hashSize, hash)
<1>1. r \in RegionNames /\ region \in 1 .. 5 /\ r # "extendedheader"
    BY RegionFacts DEF Filling
<1>2. /\ Units(Len(bytes)) \in Nat
      /\ Units(Len(bytes)) * MediaUnit = Align(Len(bytes), MediaUnit)
      /\ Units(Len(bytes)) * MediaUnit >= Len(bytes)
    BY UnitsProperties, FillingFacts
<1>3. rec \in Region
    BY <1>2, FillingFacts DEF Region, Header
<1>4. h = [header EXCEPT !.at[r] = rec]
    BY DEF WithRegion
<1> HIDE DEF h
<1>5. h \in Header /\ h.at = [header.at EXCEPT ![r] = rec] /\ h.at[r] = rec
    BY <1>1, <1>3, <1>4, FillingFacts DEF Header
<1>6. RegionOffset(h, r) = Len(image) /\ RegionSize(h, r) = Align(Len(bytes), MediaUnit)
    BY <1>1, <1>2, <1>5, FillingFacts DEF RegionOffset, RegionSize
<1>7. Len(hash) <= Len(bytes) /\ Len(hash) \in Nat
    BY LenProperties DEF Hides
<1>8. Fits(h, r, bytes)
  <2>1. h.at[r].hash = hash
    BY <1>5
  <2>2. Align(Len(bytes), MediaUnit) \in Nat /\ Align(Len(bytes), MediaUnit) >= Len(bytes)
    BY AlignProperties, UnitFacts, FillingFacts
  <2>3. RegionSize(h, r) # 0 /\ Len(hash) <= RegionSize(h, r)
    BY <1>6, <1>7, <2>2
  <2> HIDE DEF rec
  <2> QED
    BY <1>6, <2>1, <2>3 DEF Fits
<1> HIDE DEF rec
<1> QED
    BY <1>1, <1>3, <1>5, <1>8, RegionStep DEF Filling, h

LEMMA ExtendedHeaderStep == Filling /\ CreateExtendedHeader => NInv'
<1> SUFFICES ASSUME Filling, CreateExtendedHeader
             PROVE  NInv'
    OBVIOUS
<1> DEFINE r == "extendedheader"
           plain == FileBytes(r, ExtendedBytes)
           hash == SubSeq(plain, 1, ExtendedBytes \div 2)
           rec == [header.at[r] EXCEPT !.size = ExtendedBytes, !.hash = hash]
           h == [header EXCEPT !.at[r].size = ExtendedBytes, !.at[r].hash = hash]
           bytes == IF mode = "NotEncrypt" THEN plain
                    ELSE Crypted(plain, keys.old, Counter(h, r), 0)
<1>1. /\ r = Regions[region] /\ region = 1 /\ region \in 1 .. 5 /\ r \in RegionNames
    BY RegionFacts DEF CreateExtendedHeader, Creating, Filling, RegionNames
<1>2. MediaUnit \in Nat \ {0} /\ MediaUnit % MediaUnit = 0
    BY UnitFacts, FillingFacts
<1>3. LeftOut(r, MediaUnit) \/ Written(h, image \o bytes, MediaUnit)
    BY DEF CreateExtendedHeader
<1>4. CASE LeftOut(r, MediaUnit)
    BY <1>1, <1>2, <1>4, LeftOutStep
<1>5. CASE Written(h, image \o bytes, MediaUnit)
  <2>1. /\ plain \in Seq(Byte) /\ Len(plain) = ExtendedBytes
    <3>1. r \in Texts
      BY DEF Texts
    <3> QED
      BY <3>1, FileBytesType, ByteCounts
  <2> HIDE DEF plain
  <2>2. Shades(bytes, plain)
    BY <2>1, PlainShades, CryptedShades
  <2> HIDE DEF bytes
  <2>3. ExtendedBytes \div 2 \in Nat /\ ExtendedBytes \div 2 <= ExtendedBytes
    BY ByteCounts
  <2>4. hash \in Seq(Byte) /\ Len(hash) <= ExtendedBytes /\ Hides(bytes, hash)
    BY <2>1, <2>2, <2>3, ShadesHide
  <2> HIDE DEF hash
  <2>5. header \in Header /\ header.at[r] \in Region
    BY <1>1, FillingFacts DEF Header
  <2>6. rec \in Region /\ rec.size = ExtendedBytes /\ rec.hash = hash
    BY <2>4, <2>5, ByteCounts DEF Region
  <2>7. h = [header EXCEPT !.at[r] = rec]
    BY <1>1, <2>5 DEF Header, Region
  <2> HIDE DEF rec, h
  <2>8. h \in Header /\ h.at = [header.at EXCEPT ![r] = rec] /\ h.at[r] = rec
    BY <1>1, <2>5, <2>6, <2>7 DEF Header
  <2>9. /\ RegionSize(h, r) = ExtendedBytes /\ RegionOffset(h, r) = Len(image)
    BY <1>1, <2>6, <2>8, FillingFacts DEF RegionOffset, RegionSize
  <2>10. Len(bytes) = ExtendedBytes /\ IsSeq(bytes)
    BY <2>1, <2>2 DEF Shades
  <2>11. Fits(h, r, bytes)
    BY <2>4, <2>6, <2>8, <2>9, <2>10, ByteCounts DEF Fits
  <2> QED
    BY <1>1, <1>2, <1>5, <2>6, <2>8, <2>10, <2>11, RegionStep DEF Filling
<1> QED
    BY <1>3, <1>4, <1>5

LEMMA GivenFile ==
    ASSUME title \in Titles, NEW r \in {"logo", "plain", "romfs"}, State(r) = "there"
    PROVE  /\ Size(r) \in Nat \ {0}
           /\ FileBytes(r, Size(r)) \in Seq(Byte) /\ Len(FileBytes(r, Size(r))) = Size(r)
<1>1. Size(r) \in Nat \ {0}
    BY NcchAssumption DEF State, Size
<1>2. r \in Texts
    BY DEF Texts
<1> QED
    BY <1>1, <1>2, FileBytesType

LEMMA LogoStep == Filling /\ CreateLogoRegion => NInv'
<1> SUFFICES ASSUME Filling, CreateLogoRegion
             PROVE  NInv'
    OBVIOUS
<1> DEFINE plain == FileBytes("logo", Size("logo"))
           bytes == AlignedTo(plain, MediaUnit)
<1>1. "logo" = Regions[region] /\ region # 1
    BY RegionFacts DEF CreateLogoRegion, Creating, Filling
<1>2. /\ MediaUnit \in Nat \ {0} /\ MediaUnit % MediaUnit = 0 /\ title \in Titles
    BY UnitFacts, FillingFacts
<1>3. CASE State("logo") # "there"
    BY <1>1, <1>2, <1>3, LeftOutStep DEF CreateLogoRegion
<1>4. CASE State("logo") = "there"
  <2>1. /\ Size("logo") \in Nat \ {0}
        /\ plain \in Seq(Byte) /\ Len(plain) = Size("logo")
    BY <1>2, <1>4, GivenFile
  <2>2. Written(WithRegion("logo", Units(Size("logo")), 0, bytes), image \o bytes, MediaUnit)
    BY <1>4 DEF CreateLogoRegion
  <2> HIDE DEF plain
  <2>3. bytes \in Seq(Byte) /\ Len(bytes) >= Len(plain) /\ Len(bytes) \in Nat
    BY <1>2, <2>1, AlignedToProperties, LenProperties
  <2>4. Len(bytes) = Align(Size("logo"), MediaUnit)
    BY <1>2, <2>1, AlignedToProperties
  <2>5. Units(Len(bytes)) = Units(Size("logo"))
    BY <1>2, <2>1, <2>4, AlignedTwice DEF Units
  <2> HIDE DEF bytes
  <2>6. Shades(bytes, bytes)
    BY <2>3, PlainShades
  <2>7. IsSeq(bytes) /\ Hides(bytes, bytes)
    BY <2>3, <2>6 DEF Shades, Hides
  <2> QED
    BY <1>1, <1>2, <2>1, <2>2, <2>3, <2>5, <2>7, WithRegionStep
<1> QED
    BY <1>3, <1>4

LEMMA PlainStep == Filling /\ CreatePlainRegion => NInv'
<1> SUFFICES ASSUME Filling, CreatePlainRegion
             PROVE  NInv'
    OBVIOUS
<1> DEFINE bytes == FileBytes("plain", Size("plain"))
<1>1. "plain" = Regions[region] /\ region # 1
    BY RegionFacts DEF CreatePlainRegion, Creating, Filling
<1>2. /\ MediaUnit \in Nat \ {0} /\ MediaUnit % MediaUnit = 0 /\ title \in Titles
    BY UnitFacts, FillingFacts
<1>3. CASE State("plain") # "there"
    BY <1>1, <1>2, <1>3, LeftOutStep DEF CreatePlainRegion
<1>4. CASE State("plain") = "there"
  <2>1. /\ Size("plain") \in Nat \ {0}
        /\ bytes \in Seq(Byte) /\ Len(bytes) = Size("plain")
    BY <1>2, <1>4, GivenFile
  <2>2. Written(WithRegion("plain", Units(Len(bytes)), 0, NoHash), image \o bytes, MediaUnit)
    BY <1>4, <2>1 DEF CreatePlainRegion
  <2> HIDE DEF bytes
  <2>3. NoHash \in Seq(Byte) /\ Hides(bytes, NoHash)
    BY <2>1 DEF NoHash, Hides
  <2>4. IsSeq(bytes)
    BY <2>1 DEF IsSeq
  <2> QED
    BY <1>1, <1>2, <2>1, <2>2, <2>3, <2>4, WithRegionStep
<1> QED
    BY <1>3, <1>4

(* The ExeFS and the RomFS: a hash of the units their beginning lies in. *)
LEMMA BigRegionStep ==
    ASSUME Filling, NEW r, r = Regions[region], region # 1,
           NEW plain \in Seq(Byte), NEW bytes, Shades(bytes, plain),
           NEW n \in Nat \ {0}, Len(plain) >= Align(n, MediaUnit),
           Written(WithRegion(r, Units(Len(plain)), Units(n),
                              SubSeq(plain, 1, Align(n, MediaUnit))),
                   image \o bytes, BigAlignment)
    PROVE  NInv'
<1>1. /\ MediaUnit \in Nat \ {0} /\ title \in Titles
      /\ BigAlignment \in Nat \ {0} /\ BigAlignment % MediaUnit = 0
    BY UnitFacts, FillingFacts
<1>2. Align(n, MediaUnit) \in Nat \ {0}
    BY <1>1, AlignProperties
<1> DEFINE hash == SubSeq(plain, 1, Align(n, MediaUnit))
<1>3. hash \in Seq(Byte) /\ Hides(bytes, hash)
    BY <1>2, ShadesHide
<1>4. IsSeq(bytes) /\ Len(bytes) = Len(plain) /\ Len(plain) \in Nat \ {0}
    BY <1>2, LenProperties DEF Shades
<1>5. Units(n) \in Nat
    BY <1>1, UnitsProperties
<1> HIDE DEF hash
<1>6. Written(WithRegion(r, Units(Len(bytes)), Units(n), hash), image \o bytes, BigAlignment)
    BY <1>4 DEF hash
<1> QED
    BY <1>1, <1>3, <1>4, <1>5, <1>6, WithRegionStep

LEMMA RomFsStep == Filling /\ CreateRomFs => NInv'
<1> SUFFICES ASSUME Filling, CreateRomFs
             PROVE  NInv'
    OBVIOUS
<1> DEFINE plain == FileBytes("romfs", Size("romfs"))
           h == WithRegion("romfs", Units(Len(plain)), Units(RomFsSuperBytes),
                           SubSeq(plain, 1, Align(RomFsSuperBytes, MediaUnit)))
           bytes == IF mode = "NotEncrypt" THEN plain
                    ELSE Crypted(plain, keys.new, Counter(h, "romfs"), 0)
<1>1. "romfs" = Regions[region] /\ region # 1
    BY RegionFacts DEF CreateRomFs, Creating, Filling
<1>2. /\ BigAlignment \in Nat \ {0} /\ BigAlignment % MediaUnit = 0 /\ title \in Titles
    BY UnitFacts, FillingFacts
<1>3. \/ LeftOut("romfs", BigAlignment)
      \/ /\ State("romfs") = "there" /\ Len(plain) >= Align(RomFsSuperBytes, MediaUnit)
         /\ Written(h, image \o bytes, BigAlignment)
    BY DEF CreateRomFs
<1>4. CASE LeftOut("romfs", BigAlignment)
    BY <1>1, <1>2, <1>4, LeftOutStep
<1>5. CASE /\ State("romfs") = "there" /\ Len(plain) >= Align(RomFsSuperBytes, MediaUnit)
           /\ Written(h, image \o bytes, BigAlignment)
  <2>1. plain \in Seq(Byte)
    BY <1>2, <1>5, GivenFile
  <2> HIDE DEF plain
  <2>2. Shades(bytes, plain)
    BY <2>1, PlainShades, CryptedShades
  <2> HIDE DEF bytes
  <2> QED
    BY <1>1, <1>5, <2>1, <2>2, BigRegionStep, ByteCounts
<1> QED
    BY <1>3, <1>4, <1>5

LEMMA ExeFsStep == Filling /\ CreateExeFs => NInv'
<1> SUFFICES ASSUME Filling, CreateExeFs
             PROVE  NInv'
    OBVIOUS
<1> DEFINE plain == ExeFsBytes
           super == Align(SuperBlockSize, MediaUnit)
           h == WithRegion("exefs", Units(Len(plain)), Units(SuperBlockSize),
                           SubSeq(plain, 1, super))
           bytes == IF mode = "NotEncrypt" THEN plain
                    ELSE ExeFsCrypted(plain, superBlock[1].size, Counter(h, "exefs"))
<1>1. "exefs" = Regions[region] /\ region # 1
    BY RegionFacts DEF CreateExeFs, Creating, Filling
<1>2. /\ BigAlignment \in Nat \ {0} /\ BigAlignment % MediaUnit = 0
      /\ MediaUnit \in Nat \ {0} /\ exeFile \in Seq(Byte)
    BY UnitFacts, FillingFacts
<1>3. \/ LeftOut("exefs", BigAlignment)
      \/ Len(plain) >= super /\ Written(h, image \o bytes, BigAlignment)
    BY DEF CreateExeFs
<1>4. CASE LeftOut("exefs", BigAlignment)
    BY <1>1, <1>2, <1>4, LeftOutStep
<1>5. CASE Len(plain) >= super /\ Written(h, image \o bytes, BigAlignment)
  <2>1. super \in Nat \ {0}
    <3>1. /\ Align(SuperBlockSize, MediaUnit) \in Nat
          /\ Align(SuperBlockSize, MediaUnit) >= SuperBlockSize
      BY <1>2, SizeFacts, AlignProperties
    <3> QED
      BY <3>1, SizeFacts
  <2>2. title.exeFsHeader
    BY <1>5, <2>1 DEF ExeFsBytes
  <2>3. plain \in Seq(Byte) /\ Len(plain) = SuperBlockSize + Len(exeFile)
    <3>1. "superblock" \in Texts
      BY DEF Texts
    <3>2. /\ FileBytes("superblock", SuperBlockSize) \in Seq(Byte)
          /\ Len(FileBytes("superblock", SuperBlockSize)) = SuperBlockSize
      BY <3>1, SizeFacts, FileBytesType
    <3> QED
      BY <1>2, <2>2, <3>2, ConcatProperties DEF ExeFsBytes
  (* The first section ends within the file. *)
  <2>4. superBlock[1].size \in Nat /\ superBlock[1].size <= Len(exeFile)
    <3>1. 1 \in Sections
      BY SizeFacts DEF Sections
    <3>2. superBlock[1] \in Section /\ Len(exeFile) \in Nat
      BY <1>2, <3>1, FillingFacts, LenProperties
    <3>3. Described(1)
      BY <3>1 DEF Filling, IInv, Building, Complete
    <3>4. superBlock[1].offset \in Nat /\ superBlock[1].size \in Nat
      BY <3>2 DEF Section
    <3>5. CASE superBlock[1].name = NoName
      BY <3>2, <3>3, <3>5 DEF Described, NoSection
    <3>6. CASE superBlock[1].name # NoName
      BY <3>2, <3>3, <3>4, <3>6 DEF Described
    <3> QED
      BY <3>4, <3>5, <3>6
  <2>5. SuperBlockSize + superBlock[1].size <= Len(plain)
    BY <1>2, <2>3, <2>4, SizeFacts, LenProperties
  <2> HIDE DEF plain
  <2>6. Shades(bytes, plain)
    BY <2>3, <2>4, <2>5, PlainShades, ExeFsCryptedShades
  <2> HIDE DEF bytes
  <2> QED
    BY <1>1, <1>5, <2>3, <2>6, BigRegionStep, SizeFacts
<1> QED
    BY <1>3, <1>4, <1>5

LEMMA HeaderStep == IInv /\ NInv /\ CreateNcchHeader => NInv'
<1> SUFFICES ASSUME IInv, NInv, CreateNcchHeader
             PROVE  NInv'
    OBVIOUS
<1>1. /\ title \in Titles /\ header \in Header /\ stage = "createNcch"
    BY DEF IInv, NInv, Building, BlockType, CreateNcchHeader
<1>2. CASE ~title.ncchHeader
    BY <1>2 DEF CreateNcchHeader, NInv, Building, HeaderDescribesImage
<1>3. CASE title.ncchHeader
  <2>1. /\ image' = FileBytes("header", HeaderBytes) /\ region' = 1
        /\ stage' = "createNcch"
    BY <1>1, <1>3 DEF CreateNcchHeader
  <2>2. IsSeq(image') /\ Len(image') = HeaderBytes
    <3>1. "header" \in Texts
      BY DEF Texts
    <3> QED
      BY <2>1, <3>1, ByteCounts, FileBytesType DEF IsSeq
  <2>3. header' \in Header
    <3>1. OldRegion \in Region
      <4>1. OldByte \in Byte
        BY DEF OldByte, Byte, Texts
      <4> QED
        BY <4>1 DEF OldRegion, Region
    <3> DEFINE noCrypto == title.mode = "NotEncrypt"
               fixedKey == IF title.mode = "NotEncrypt" THEN title.fixedKeyFlag
                           ELSE title.mode = "FixedKey"
               extKey == title.extKeyFlag /\ ~(title.mode = "Auto" /\ title.removeExtKey)
               at == [r \in DOMAIN header.at |-> OldRegion]
    <3>2. noCrypto \in BOOLEAN /\ fixedKey \in BOOLEAN /\ extKey \in BOOLEAN
      BY <1>1, NcchAssumption
    <3>3. at \in [RegionNames -> Region]
      BY <1>1, <3>1 DEF Header
    <3>4. header' = [header EXCEPT !.at = at, !.noCrypto = noCrypto,
                                   !.fixedKey = fixedKey, !.extKey = extKey]
      BY <1>3 DEF CreateNcchHeader
    <3> HIDE DEF noCrypto, fixedKey, extKey, at
    <3> QED
      BY <1>1, <3>2, <3>3, <3>4 DEF Header
  <2>4. ImageInv'
    <3>1. ASSUME NEW k \in 1 .. 5
          PROVE  ~(k < region')
      BY <2>1
    <3> QED
      BY <2>1, <2>2, <3>1, ByteCounts DEF ImageInv, IsSeq
  <2> QED
    BY <2>1, <2>3, <2>4 DEF NInv, HeaderDescribesImage
<1> QED
    BY <1>2, <1>3

(* When all regions are placed the header describes the image. *)
LEMMA NcchDoneStep == IInv /\ NInv /\ CreateNcchDone => NInv'
<1> SUFFICES ASSUME IInv, NInv, CreateNcchDone
             PROVE  NInv'
    OBVIOUS
<1>1. /\ title \in Titles /\ header \in Header /\ region > 5
      /\ UNCHANGED <<title, header, image>> /\ stage' = "extractNcch"
    BY RegionFacts DEF IInv, NInv, Building, BlockType, CreateNcchDone
<1>2. ImageInv
    BY <1>1 DEF NInv, CreateNcchDone, Building
<1>3. /\ header.contentSize * MediaUnit = Len(image)
      /\ \A k \in 1 .. 5 : Placed(k)
    BY <1>1, <1>2 DEF ImageInv
<1>4. RegionNames = DOMAIN header.at
    BY <1>1 DEF Header
<1>5. ASSUME NEW r \in RegionNames
      PROVE  IF r \notin Present THEN header.at[r] = NoRegion
             ELSE /\ RegionOffset(header, r) >= HeaderBytes
                  /\ RegionOffset(header, r) + RegionSize(header, r) <= Len(image)
                  /\ header.at[r].hash # NoHash =>
                         \A k \in DOMAIN header.at[r].hash :
                             Clear(image[RegionOffset(header, r) + k])
                                 = header.at[r].hash[k]
  <2>1. PICK i \in 1 .. 5 : r = Regions[i]
    BY RegionFacts
  <2>2. r \in Present <=> RegionSize(header, r) # 0
    BY <1>4 DEF Present
  <2>3. DOMAIN header.at[r].hash = 1 .. Len(header.at[r].hash)
    BY <1>1, LenProperties DEF Header, Region
  <2>4. Placed(i)
    BY <1>3
  <2> QED
    BY <2>1, <2>2, <2>3, <2>4 DEF Placed, End
<1>6. ASSUME NEW r \in Present, NEW q \in Present, r # q
      PROVE  \/ RegionOffset(header, r) + RegionSize(header, r) <= RegionOffset(header, q)
             \/ RegionOffset(header, q) + RegionSize(header, q) <= RegionOffset(header, r)
  <2>1. PICK i \in 1 .. 5 : r = Regions[i]
    BY <1>4, RegionFacts DEF Present
  <2>2. PICK j \in 1 .. 5 : q = Regions[j]
    BY <1>4, RegionFacts DEF Present
  <2>3. i # j
    BY <1>6, <2>1, <2>2
  <2>4. RegionSize(header, r) # 0 /\ RegionSize(header, q) # 0
    BY DEF Present
  <2>5. CASE i < j
    BY <1>3, <2>1, <2>2, <2>4, <2>5 DEF Placed, End
  <2>6. CASE j < i
    BY <1>3, <2>1, <2>2, <2>4, <2>6 DEF Placed, End
  <2> QED
    BY <2>3, <2>5, <2>6
<1>7. ASSUME NEW r \in Present, NEW q \in Present
      PROVE  /\ RegionOffset(header, r) < RegionOffset(header, q) =>
                    RegionOffset(header, r) + RegionSize(header, r)
                        <= RegionOffset(header, q)
             /\ RegionOffset(header, r) = RegionOffset(header, q) => r = q
  <2>1. /\ RegionOffset(header, r) \in Nat /\ RegionSize(header, r) \in Nat \ {0}
        /\ RegionOffset(header, q) \in Nat /\ RegionSize(header, q) \in Nat \ {0}
    BY <1>1, <1>4, RegionPlaces DEF Present
  <2>2. CASE r = q
    BY <2>1, <2>2
  <2>3. CASE r # q
    BY <1>6, <2>1, <2>3
  <2> QED
    BY <2>2, <2>3
<1>8. HeaderDescribesImage'
    BY <1>1, <1>3, <1>4, <1>5, <1>7 DEF HeaderDescribesImage, Clear, MediaUnit,
        Present, RegionOffset, RegionSize
<1> QED
    BY <1>1, <1>8 DEF NInv, Building

-----------------------------------------------------------------------------
(* All other steps *)

LEMMA SameImage ==
    ASSUME NInv, UNCHANGED <<title, header, image>>,
           stage' = "extractNcch" => stage = "extractNcch", ~Building'
    PROVE  NInv'
BY DEF NInv, HeaderDescribesImage, Present, RegionOffset, RegionSize, MediaUnit

LEMMA ExeFsNextStep == NInv /\ ExeFsNext /\ UNCHANGED ncchVars => NInv'
<1> SUFFICES ASSUME NInv, ExeFsNext, UNCHANGED ncchVars
             PROVE  NInv'
    OBVIOUS
<1>1. UNCHANGED <<title, header, image, region>>
    BY DEF ncchVars, ExeFsNext, ExeFsCreateHeader, SkipSection, ClearSection,
        CreateSection, CreateExeFsDone, ExtractSection, ExtractExeFsDone
<1>2. CASE stage = "createExeFs" /\ stage' \in {"createExeFs", "createNcch"}
    BY <1>1, <1>2 DEF NInv, Building, HeaderDescribesImage
<1>3. CASE stage = "extractExeFs" /\ stage' \in {"extractExeFs", "end"}
    BY <1>1, <1>3, SameImage DEF Building
<1>4. \/ stage = "createExeFs" /\ stage' \in {"createExeFs", "createNcch"}
      \/ stage = "extractExeFs" /\ stage' \in {"extractExeFs", "end"}
    BY DEF ExeFsNext, ExeFsCreateHeader, SkipSection, ClearSection, CreatingSection,
        CreateSection, CreateExeFsDone, ExtractSection, ExtractExeFsDone
<1> QED
    BY <1>2, <1>3, <1>4

LEMMA NcchExtractStep ==
    NInv /\ (ExtractRegion \/ ExtractExeFs \/ ExtractNcchDone) => NInv'
<1> SUFFICES ASSUME NInv, ExtractRegion \/ ExtractExeFs \/ ExtractNcchDone
             PROVE  NInv'
    OBVIOUS
<1>1. /\ UNCHANGED <<title, header, image>> /\ stage = "extractNcch" /\ ~Building'
    BY DEF ExtractRegion, ExtractExeFs, ExtractNcchDone, Building, ncchVars
<1> QED
    BY <1>1, SameImage

LEMMA StutterStep == NInv /\ UNCHANGED titleVars => NInv'
<1> SUFFICES ASSUME NInv, UNCHANGED titleVars
             PROVE  NInv'
    OBVIOUS
<1>1. UNCHANGED <<title, stage, header, image, region>>
    BY DEF titleVars, exeFsVars, ncchVars
<1>2. MediaUnit' = MediaUnit
    BY <1>1 DEF MediaUnit
<1>3. \A k \in 1 .. 5 : Placed(k)' = Placed(k)
    BY <1>1, <1>2 DEF Placed, End, RegionOffset, RegionSize
<1>4. ImageInv => ImageInv'
    BY <1>1, <1>2, <1>3 DEF ImageInv, IsSeq
<1>5. HeaderDescribesImage'
    BY <1>1, <1>2 DEF NInv, HeaderDescribesImage, Present, RegionOffset, RegionSize
<1> QED
    BY <1>1, <1>4, <1>5 DEF NInv, Building

LEMMA NcchInitCorrect == TitleInit => NInv
<1> SUFFICES ASSUME TitleInit
             PROVE  NInv
    OBVIOUS
<1>1. {Regions[k] : k \in DOMAIN Regions} = RegionNames
    BY RegionFacts
<1>2. [r \in RegionNames |-> NoRegion] \in [RegionNames -> Region]
    BY EmptyRegion
<1>3. header \in Header
    BY <1>1, <1>2 DEF TitleInit, NcchInit, Header
<1> QED
    BY <1>3 DEF TitleInit, NcchInit, ExeFsInit, NInv, Building, HeaderDescribesImage

LEMMA NcchStepCorrect == IInv /\ NInv /\ [TitleNext]_titleVars => NInv'
<1> SUFFICES ASSUME IInv, NInv, [TitleNext]_titleVars
             PROVE  NInv'
    OBVIOUS
<1>1. CASE ExeFsNext /\ UNCHANGED ncchVars
    BY <1>1, ExeFsNextStep
<1>2. CASE CreateNcchHeader
    BY <1>2, HeaderStep
<1>3. Creating("extendedheader") \/ Creating("logo") \/ Creating("plain")
          \/ Creating("exefs") \/ Creating("romfs") => Filling
    BY DEF Creating, Filling
<1>4. CASE CreateExtendedHeader
    BY <1>3, <1>4, ExtendedHeaderStep DEF CreateExtendedHeader
<1>5. CASE CreateLogoRegion
    BY <1>3, <1>5, LogoStep DEF CreateLogoRegion
<1>6. CASE CreatePlainRegion
    BY <1>3, <1>6, PlainStep DEF CreatePlainRegion
<1>7. CASE CreateExeFs
    BY <1>3, <1>7, ExeFsStep DEF CreateExeFs
<1>8. CASE CreateRomFs
    BY <1>3, <1>8, RomFsStep DEF CreateRomFs
<1>9. CASE CreateNcchDone
    BY <1>9, NcchDoneStep
<1>10. CASE ExtractRegion \/ ExtractExeFs \/ ExtractNcchDone
    BY <1>10, NcchExtractStep
<1>11. CASE UNCHANGED titleVars
    BY <1>11, StutterStep
<1> QED
    BY <1>1, <1>2, <1>4, <1>5, <1>6, <1>7, <1>8, <1>9, <1>10, <1>11 DEF TitleNext, NcchNext

(* When CNcch::CreateFile is done, the regions that are there follow each  *)
(* other without overlapping, each on a unit of its own, up to the content *)
(* size, with the hash of the bytes under the key stream; nothing is left  *)
(* in the header of those that are not, whatever files were missing.       *)
THEOREM HeaderAlwaysDescribesImage == TitleSpec => []HeaderDescribesImage
<1>1. IInv /\ NInv /\ [TitleNext]_titleVars => (IInv /\ NInv)'
    BY StepCorrect, NcchStepCorrect
<1>2. TitleInit => IInv /\ NInv
    BY InitCorrect, NcchInitCorrect
<1>3. NInv => HeaderDescribesImage
    BY DEF NInv
<1> QED
    BY <1>1, <1>2, <1>3, PTL DEF TitleSpec

-----------------------------------------------------------------------------
(* The sections *)

(* The bytes of a section: its file, packed when it is the code. *)
MadeBytes(i) ==
    LET path == Path(superBlock[i].name, i)
        n == title.dir[path]
    IN  IF /\ IsTopSection(superBlock[i].name, i)
           /\ title.compress /\ n >= PackableSize
        THEN PackedBytes(path, n) ELSE FileBytes(path, n)

Made(i) ==
    superBlock[i].name # NoName =>
        /\ Path(superBlock[i].name, i) \in DOMAIN title.dir
        /\ superBlock[i].hash = MadeBytes(i)

SectionsInv ==
    /\ title \in Titles
    /\ \A i \in Sections : i # 1 => superBlock[i].name # "code"
    /\ \A i \in Sections : stage # "createExeFs" \/ i < section => Made(i)

(* What ExtractFile of CNcch finds. *)
ImageKept ==
    stage = "extractNcch" =>
        /\ header \in Header /\ IsSeq(image)
        /\ superBlock \in [Sections -> Section] /\ exeFile \in Seq(Byte)
        /\ \A i \in Sections : Described(i)

-----------------------------------------------------------------------------
(* The regions *)

(* What a region is made from, and what of it is in the image. *)
FileSize(r) == IF r = "extendedheader" THEN ExtendedBytes ELSE Size(r)
RegionFile(r) == IF r = "exefs" THEN ExeFsBytes ELSE FileBytes(r, FileSize(r))
Known(r) == IF r = "exefs" THEN title.exeFsHeader ELSE FileSize(r) \in Nat

Stored(h, r) ==
    IF mode = "NotEncrypt" \/ r \in {"logo", "plain"} THEN RegionFile(r)
    ELSE IF r = "exefs"
    THEN ExeFsCrypted(RegionFile(r), superBlock[1].size, Counter(h, r))
    ELSE Crypted(RegionFile(r), IF r = "romfs" THEN keys.new ELSE keys.old,
                 Counter(h, r), 0)

Holds(r) ==
    RegionSize(header, r) # 0 =>
        /\ RegionFile(r) \in Seq(Byte) /\ Len(RegionFile(r)) <= RegionSize(header, r)
        /\ Known(r) /\ Shades(Stored(header, r), RegionFile(r))
        /\ StandAt(Stored(header, r), image, RegionOffset(header, r))

(* The keys the image is made with, which its header tells a reader. *)
KeysSet ==
    /\ header.extKey \in BOOLEAN
    /\ header.noCrypto = (title.mode = "NotEncrypt")
    /\ title.mode # "NotEncrypt" => header.fixedKey = (title.mode = "FixedKey")
    /\ mode = title.mode
    /\ keys = KeysFor(title.mode, header.extKey, title.extKey)

KeysInv == stage = "createNcch" /\ region # 0 => KeysSet

RegionsInv ==
    \A k \in 1 .. 5 :
        \/ stage = "createNcch" /\ k < region
        \/ stage = "extractNcch" /\ KeysAgree
        => Holds(Regions[k])

-----------------------------------------------------------------------------
(* What is extracted *)

BeginsWith(bytes, plain) ==
    /\ IsSeq(bytes) /\ Len(plain) <= Len(bytes)
    /\ \A k \in 1 .. Len(plain) : bytes[k] = plain[k]

(* No region that is there is passed over. *)
AllExtracted ==
    /\ Building => DOMAIN extracted = {}
    /\ stage = "extractNcch" =>
           /\ region \in 1 .. 6
           /\ DOMAIN extracted \subseteq RegionNames
           /\ \A k \in 1 .. 5 :
                  k < region /\ RegionSize(header, Regions[k]) # 0 =>
                      Regions[k] \in DOMAIN extracted

Given(r) ==
    /\ RegionFile(r) \in Seq(Byte) /\ Known(r)
    /\ BeginsWith(extracted[r], RegionFile(r))

ExtractedInv ==
    stage = "extractNcch" /\ KeysAgree => \A r \in DOMAIN extracted : Given(r)

Whole(r) ==
    /\ Len(extracted[r]) >= FileSize(r)
    /\ SubSeq(extracted[r], 1, FileSize(r)) = FileBytes(r, FileSize(r))

Back(i) ==
    superBlock[i].name # NoName =>
        /\ Path(superBlock[i].name, i) \in DOMAIN outDir
        /\ outDir[Path(superBlock[i].name, i)] = ComesBack(i)

Unpacking == stage \in {"extractExeFs", "end"} /\ KeysAgree

RegionsBack ==
    Unpacking =>
        /\ \A r \in DOMAIN extracted \ {"exefs"} : Whole(r)
        /\ \A r \in DOMAIN header.at :
               region > Len(Regions) /\ RegionSize(header, r) # 0 =>
                   r \in DOMAIN extracted

SectionsBack ==
    Unpacking =>
        /\ stage = "extractExeFs" =>
               /\ section \in Nat
               /\ \A i \in Sections :
                      superBlock[i].name # NoName => SectionBytes(i) = MadeBytes(i)
        /\ "exefs" \in DOMAIN extracted =>
               \A i \in Sections : stage = "end" \/ i < section => Back(i)

-----------------------------------------------------------------------------
(* Key streams *)

Toggled(b, stream) ==
    [b EXCEPT !.under = IF stream \in b.under THEN b.under \ {stream}
                        ELSE b.under \cup {stream}]

(* The same key stream twice leaves a byte as it was. *)
LEMMA ToggledTwice ==
    ASSUME NEW b \in Byte, NEW stream
    PROVE  Toggled(Toggled(b, stream), stream) = b
<1>1. b.under = {}
    BY DEF Byte
<1>2. Toggled(b, stream) = [b EXCEPT !.under = {stream}]
    BY <1>1 DEF Toggled
<1> DEFINE c == [b EXCEPT !.under = {stream}]
<1>3. c.under = {stream}
    BY DEF Byte
<1>4. Toggled(c, stream) = [c EXCEPT !.under = {}]
    BY <1>3 DEF Toggled
<1>5. [c EXCEPT !.under = {}] = b
    BY <1>1 DEF Byte
<1> QED
    BY <1>2, <1>4, <1>5

LEMMA CryptedPoints ==
    ASSUME NEW bytes, IsSeq(bytes), NEW key, NEW counter, NEW from \in Nat
    PROVE  /\ IsSeq(Crypted(bytes, key, counter, from))
           /\ Len(Crypted(bytes, key, counter, from)) = Len(bytes)
           /\ \A k \in 1 .. Len(bytes) :
                  Crypted(bytes, key, counter, from)[k]
                      = Toggled(bytes[k], <<key, counter, from + k>>)
<1> DEFINE crypted == Crypted(bytes, key, counter, from)
           point(k) == Toggled(bytes[k], <<key, counter, from + k>>)
<1>1. Len(bytes) \in Nat /\ DOMAIN bytes = 1 .. Len(bytes)
    BY LenProperties DEF IsSeq
<1>2. crypted = [k \in 1 .. Len(bytes) |-> point(k)]
    BY <1>1 DEF Crypted, Toggled
<1> HIDE DEF crypted, point
<1> DEFINE All == {point(k) : k \in 1 .. Len(bytes)}
<1>3. crypted \in [1 .. Len(bytes) -> All]
    BY <1>2
<1> HIDE DEF All
<1>4. crypted \in Seq(All) /\ Len(crypted) = Len(bytes)
    BY <1>1, <1>3
<1>5. \A k \in 1 .. Len(bytes) : crypted[k] = point(k)
    BY <1>2
<1> QED
    BY <1>4, <1>5 DEF IsSeq, crypted, point

(* The key of a byte of an ExeFS whose first section has n bytes. *)
ExeFsKey(n, k) ==
    IF k <= SuperBlockSize THEN keys.old
    ELSE IF k <= SuperBlockSize + n THEN keys.new ELSE keys.old

LEMMA ExeFsPoints ==
    ASSUME NEW bytes, IsSeq(bytes), NEW n \in Nat, NEW counter,
           SuperBlockSize + n <= Len(bytes)
    PROVE  /\ IsSeq(ExeFsCrypted(bytes, n, counter))
           /\ Len(ExeFsCrypted(bytes, n, counter)) = Len(bytes)
           /\ \A k \in 1 .. Len(bytes) :
                  ExeFsCrypted(bytes, n, counter)[k]
                      = Toggled(bytes[k], <<ExeFsKey(n, k), counter, k>>)
<1> DEFINE b == SuperBlockSize
           m == SuperBlockSize + n
           part(from, to, key) ==
               Crypted(SubSeq(bytes, from + 1, to), key, counter, from)
           x == part(0, b, keys.old)
           y == part(b, m, keys.new)
           z == part(m, Len(bytes), keys.old)
<1>0. PICK S0 : bytes \in Seq(S0)
    BY DEF IsSeq
<1>1. /\ b \in Nat \ {0} /\ m \in Nat /\ b <= m /\ m <= Len(bytes)
      /\ Len(bytes) \in Nat
    BY <1>0, SizeFacts, LenProperties
<1> HIDE DEF b, m
<1>2. ExeFsCrypted(bytes, n, counter) = x \o y \o z
    BY DEF ExeFsCrypted, b, m
<1>3. ASSUME NEW from \in Nat, NEW to \in Nat, from <= to, to <= Len(bytes), NEW key
      PROVE  /\ IsSeq(part(from, to, key)) /\ Len(part(from, to, key)) = to - from
             /\ \A k \in 1 .. to - from :
                    part(from, to, key)[k]
                        = Toggled(bytes[from + k], <<key, counter, from + k>>)
  <2> DEFINE piece == SubSeq(bytes, from + 1, to)
  <2>1. \A k \in from + 1 .. to : bytes[k] \in S0
    BY <1>0, <1>1, <1>3, ElementOfSeq
  <2>2. /\ piece \in Seq(S0) /\ Len(piece) = to - from
        /\ \A k \in 1 .. to - from : piece[k] = bytes[from + k]
    BY <1>0, <1>3, <2>1, SubSeqProperties
  <2> HIDE DEF piece
  <2>3. IsSeq(piece)
    BY <2>2 DEF IsSeq
  <2>4. /\ IsSeq(Crypted(piece, key, counter, from))
        /\ Len(Crypted(piece, key, counter, from)) = Len(piece)
        /\ \A k \in 1 .. Len(piece) :
               Crypted(piece, key, counter, from)[k]
                   = Toggled(piece[k], <<key, counter, from + k>>)
    BY <2>3, CryptedPoints
  <2> QED
    BY <2>2, <2>4 DEF piece
<1> HIDE DEF part
<1>4. /\ IsSeq(x) /\ Len(x) = b
      /\ \A k \in 1 .. b : x[k] = Toggled(bytes[k], <<keys.old, counter, k>>)
    BY <1>1, <1>3
<1>5. /\ IsSeq(y) /\ Len(y) = m - b
      /\ \A k \in 1 .. m - b : y[k] = Toggled(bytes[b + k], <<keys.new, counter, b + k>>)
    BY <1>1, <1>3
<1>6. /\ IsSeq(z) /\ Len(z) = Len(bytes) - m
      /\ \A k \in 1 .. Len(bytes) - m :
             z[k] = Toggled(bytes[m + k], <<keys.old, counter, m + k>>)
    BY <1>1, <1>3
<1> HIDE DEF x, y, z
<1>7. PICK S : x \in Seq(S) /\ y \in Seq(S) /\ z \in Seq(S)
  <2>1. PICK Sx : x \in Seq(Sx)
    BY <1>4 DEF IsSeq
  <2>2. PICK Sy : y \in Seq(Sy)
    BY <1>5 DEF IsSeq
  <2>3. PICK Sz : z \in Seq(Sz)
    BY <1>6 DEF IsSeq
  <2> DEFINE S == Sx \cup Sy \cup Sz
  <2>4. x \in Seq(S) /\ y \in Seq(S) /\ z \in Seq(S)
    BY <2>1, <2>2, <2>3
  <2> QED
    BY <2>4
<1> DEFINE xy == x \o y
           all == xy \o z
<1>8. /\ xy \in Seq(S) /\ Len(xy) = m
      /\ \A k \in 1 .. m : xy[k] = IF k <= b THEN x[k] ELSE y[k - b]
  <2>1. /\ xy \in Seq(S) /\ Len(xy) = Len(x) + Len(y)
        /\ \A k \in 1 .. Len(x) + Len(y) :
               xy[k] = IF k <= Len(x) THEN x[k] ELSE y[k - Len(x)]
    BY <1>7, ConcatProperties
  <2> HIDE DEF xy
  <2> QED
    BY <1>1, <1>4, <1>5, <2>1
<1> HIDE DEF xy
<1>9. /\ all \in Seq(S) /\ Len(all) = Len(bytes)
      /\ \A k \in 1 .. Len(bytes) : all[k] = IF k <= m THEN xy[k] ELSE z[k - m]
  <2>1. /\ all \in Seq(S) /\ Len(all) = Len(xy) + Len(z)
        /\ \A k \in 1 .. Len(xy) + Len(z) :
               all[k] = IF k <= Len(xy) THEN xy[k] ELSE z[k - Len(xy)]
    BY <1>7, <1>8, ConcatProperties
  <2> HIDE DEF all
  <2> QED
    BY <1>1, <1>6, <1>8, <2>1
<1> HIDE DEF all
<1>10. ASSUME NEW k \in 1 .. Len(bytes)
       PROVE  all[k] = Toggled(bytes[k], <<ExeFsKey(n, k), counter, k>>)
  <2>1. CASE k <= b
    <3>1. ExeFsKey(n, k) = keys.old
      BY <2>1 DEF ExeFsKey, b
    <3> QED
      BY <1>1, <1>4, <1>8, <1>9, <2>1, <3>1
  <2>2. CASE b < k /\ k <= m
    <3>1. all[k] = y[k - b] /\ k - b \in 1 .. m - b /\ b + (k - b) = k
      BY <1>1, <1>8, <1>9, <2>2
    <3>2. ExeFsKey(n, k) = keys.new
      BY <1>1, <2>2 DEF ExeFsKey, b, m
    <3> QED
      BY <1>5, <3>1, <3>2
  <2>3. CASE m < k
    <3>1. all[k] = z[k - m] /\ k - m \in 1 .. Len(bytes) - m /\ m + (k - m) = k
      BY <1>1, <1>9, <2>3
    <3>2. ExeFsKey(n, k) = keys.old
      BY <1>1, <2>3 DEF ExeFsKey, b, m
    <3> QED
      BY <1>6, <3>1, <3>2
  <2> QED
    BY <1>1, <2>1, <2>2, <2>3
<1> QED
    BY <1>2, <1>9, <1>10 DEF IsSeq, all, xy

(* What begins with a file under a key stream begins with the file when    *)
(* the same key stream is laid over it again.                              *)
LEMMA CryptedBack ==
    ASSUME NEW plain \in Seq(Byte), NEW bytes, NEW key, NEW counter,
           BeginsWith(bytes, Crypted(plain, key, counter, 0))
    PROVE  BeginsWith(Crypted(bytes, key, counter, 0), plain)
<1> DEFINE under == Crypted(plain, key, counter, 0)
           back == Crypted(bytes, key, counter, 0)
<1>1. IsSeq(plain) /\ IsSeq(bytes) /\ Len(plain) \in Nat /\ Len(bytes) \in Nat
    BY LenProperties DEF IsSeq, BeginsWith
<1>2. /\ Len(under) = Len(plain)
      /\ \A k \in 1 .. Len(plain) : under[k] = Toggled(plain[k], <<key, counter, 0 + k>>)
    BY <1>1, CryptedPoints
<1>3. /\ IsSeq(back) /\ Len(back) = Len(bytes)
      /\ \A k \in 1 .. Len(bytes) : back[k] = Toggled(bytes[k], <<key, counter, 0 + k>>)
    BY <1>1, CryptedPoints
<1>4. Len(under) <= Len(bytes) /\ \A k \in 1 .. Len(under) : bytes[k] = under[k]
    BY DEF BeginsWith
<1> HIDE DEF under, back
<1>5. ASSUME NEW k \in 1 .. Len(plain)
      PROVE  back[k] = plain[k]
  <2>1. plain[k] \in Byte
    BY ElementOfSeq
  <2>2. k \in 1 .. Len(bytes) /\ bytes[k] = under[k]
    BY <1>1, <1>2, <1>4
  <2> DEFINE stream == <<key, counter, 0 + k>>
  <2>3. Toggled(Toggled(plain[k], stream), stream) = plain[k]
    BY <2>1, ToggledTwice
  <2> QED
    BY <1>2, <1>3, <2>2, <2>3
<1>6. BeginsWith(back, plain)
    BY <1>2, <1>3, <1>4, <1>5 DEF BeginsWith
<1> QED
    BY <1>6 DEF back

LEMMA ExeFsCryptedBack ==
    ASSUME NEW plain \in Seq(Byte), NEW bytes, NEW n \in Nat, NEW counter,
           SuperBlockSize + n <= Len(plain),
           BeginsWith(bytes, ExeFsCrypted(plain, n, counter))
    PROVE  BeginsWith(ExeFsCrypted(bytes, n, counter), plain)
<1> DEFINE under == ExeFsCrypted(plain, n, counter)
           back == ExeFsCrypted(bytes, n, counter)
<1>1. /\ IsSeq(plain) /\ IsSeq(bytes) /\ Len(plain) \in Nat /\ Len(bytes) \in Nat
    BY LenProperties DEF IsSeq, BeginsWith
<1>2. /\ Len(under) = Len(plain)
      /\ \A k \in 1 .. Len(plain) :
             under[k] = Toggled(plain[k], <<ExeFsKey(n, k), counter, k>>)
    BY <1>1, ExeFsPoints
<1>3. Len(under) <= Len(bytes) /\ \A k \in 1 .. Len(under) : bytes[k] = under[k]
    BY DEF BeginsWith
<1>4. SuperBlockSize + n <= Len(bytes)
    BY <1>1, <1>2, <1>3, SizeFacts
<1>5. /\ IsSeq(back) /\ Len(back) = Len(bytes)
      /\ \A k \in 1 .. Len(bytes) :
             back[k] = Toggled(bytes[k], <<ExeFsKey(n, k), counter, k>>)
    BY <1>1, <1>4, ExeFsPoints
<1> HIDE DEF under, back
<1>6. ASSUME NEW k \in 1 .. Len(plain)
      PROVE  back[k] = plain[k]
  <2>1. plain[k] \in Byte
    BY ElementOfSeq
  <2>2. k \in 1 .. Len(bytes) /\ bytes[k] = under[k]
    BY <1>1, <1>2, <1>3
  <2> DEFINE stream == <<ExeFsKey(n, k), counter, k>>
  <2>3. Toggled(Toggled(plain[k], stream), stream) = plain[k]
    BY <2>1, ToggledTwice
  <2> QED
    BY <1>2, <1>5, <2>2, <2>3
<1>7. BeginsWith(back, plain)
    BY <1>2, <1>3, <1>5, <1>6 DEF BeginsWith
<1> QED
    BY <1>7 DEF back

-----------------------------------------------------------------------------
(* From the directory to the sections *)

LEMMA SectionsInit == TitleInit => SectionsInv
<1> SUFFICES ASSUME TitleInit
             PROVE  SectionsInv
    OBVIOUS
<1>1. /\ title \in Titles /\ stage = "createExeFs" /\ section = 0
      /\ superBlock = [i \in Sections |-> NoSection]
    BY DEF TitleInit, ExeFsInit
<1>2. \A i \in Sections : ~(i < 0)
    BY SizeFacts DEF Sections
<1> QED
    BY <1>1, <1>2 DEF SectionsInv, NoSection, NoName

LEMMA SectionsSame ==
    ASSUME SectionsInv, UNCHANGED <<title, superBlock>>,
           stage # "createExeFs" \/ UNCHANGED <<stage, section>>
    PROVE  SectionsInv'
BY DEF SectionsInv, Made, MadeBytes

LEMMA SectionsHeaderStep == IInv /\ SectionsInv /\ ExeFsCreateHeader => SectionsInv'
<1> SUFFICES ASSUME IInv, SectionsInv, ExeFsCreateHeader
             PROVE  SectionsInv'
    OBVIOUS
<1> USE DEF ExeFsCreateHeader
<1>1. title \in Titles /\ title' = title /\ Building /\ section = 0
    BY DEF SectionsInv, Building
<1>2. CASE ~title.exeFsHeader
  <2>1. superBlock' = superBlock /\ \A i \in Sections : superBlock[i] = NoSection
    BY <1>1, <1>2 DEF IInv
  <2> QED
    BY <1>1, <2>1 DEF SectionsInv, Made, NoSection
<1>3. CASE title.exeFsHeader
  <2>1. /\ section' = 1 /\ stage' = "createExeFs"
        /\ superBlock' = [i \in Sections |-> OldSection(title.names[i])]
    BY <1>3
  <2>2. \A i \in Sections : ~(i < 1)
    BY SizeFacts DEF Sections
  <2>3. \A i \in Sections : i # 1 => title.names[i] # "code"
    BY <1>1, TitleAssumption
  <2>4. \A i \in Sections : i # 1 => superBlock'[i].name # "code"
    BY <2>1, <2>3 DEF OldSection, NoSection, NoName
  <2> QED
    BY <1>1, <2>1, <2>2, <2>4 DEF SectionsInv
<1> QED
    BY <1>2, <1>3

LEMMA SectionsSkipStep == IInv /\ SectionsInv /\ SkipSection => SectionsInv'
<1> SUFFICES ASSUME IInv, SectionsInv, SkipSection
             PROVE  SectionsInv'
    OBVIOUS
<1>1. /\ UNCHANGED <<title, stage, superBlock>> /\ section' = section + 1
      /\ section \in Sections /\ superBlock[section].name = NoName
    BY DEF SkipSection, CreatingSection, Name
<1>2. ASSUME NEW i \in Sections, stage' # "createExeFs" \/ i < section'
      PROVE  Made(i)'
  <2>1. stage # "createExeFs" \/ i < section \/ i = section
    BY <1>1, <1>2, SizeFacts DEF Sections
  <2>2. Made(i)
    BY <1>1, <2>1 DEF SectionsInv, Made
  <2> QED
    BY <1>1, <2>2 DEF Made, MadeBytes
<1> QED
    BY <1>1, <1>2 DEF SectionsInv

LEMMA SectionsClearStep == IInv /\ SectionsInv /\ ClearSection => SectionsInv'
<1> SUFFICES ASSUME IInv, SectionsInv, ClearSection
             PROVE  SectionsInv'
    OBVIOUS
<1>1. /\ UNCHANGED <<title, stage, section>> /\ section \in Sections
      /\ superBlock' = WithoutSection(superBlock, section) /\ stage = "createExeFs"
    BY DEF ClearSection, CreatingSection
<1>2. ASSUME NEW i \in Sections, i # 1
      PROVE  superBlock'[i].name # "code"
  <2>1. superBlock'[i] = superBlock[i] \/ superBlock'[i] = NoSection
            \/ (i < SectionCount /\ superBlock'[i] = superBlock[i + 1])
    BY <1>1 DEF WithoutSection
  <2>2. i < SectionCount => i + 1 \in Sections /\ i + 1 # 1
    BY SizeFacts DEF Sections
  <2>3. ASSUME NEW j \in Sections, j # 1
        PROVE  superBlock[j].name # "code"
    BY <2>3 DEF SectionsInv
  <2>4. i < SectionCount => superBlock[i + 1].name # "code"
    BY <2>2, <2>3
  <2>5. NoSection.name # "code"
    BY DEF NoSection, NoName
  <2> QED
    BY <1>2, <2>1, <2>3, <2>4, <2>5
<1>3. ASSUME NEW i \in Sections, i < section
      PROVE  Made(i)'
  <2>1. superBlock'[i] = superBlock[i]
    BY <1>1, <1>3 DEF WithoutSection
  <2> QED
    BY <1>1, <1>3, <2>1 DEF SectionsInv, Made, MadeBytes
<1> QED
    BY <1>1, <1>2, <1>3 DEF SectionsInv

LEMMA SectionsCreateStep == IInv /\ SectionsInv /\ CreateSection => SectionsInv'
<1> SUFFICES ASSUME IInv, SectionsInv, CreateSection
             PROVE  SectionsInv'
    OBVIOUS
<1> DEFINE made == [name |-> Name, offset |-> Len(exeFile),
                    size |-> Len(Content), hash |-> Content]
<1>1. /\ BlockType /\ section \in Sections /\ Path(Name, section) \in DOMAIN title.dir
      /\ section' = section + 1 /\ UNCHANGED <<title, stage>>
    BY DEF IInv, Building, CreateSection, CreatingSection
<1>2. superBlock' = [superBlock EXCEPT ![section] = made]
    BY DEF CreateSection, Content
<1>3. /\ superBlock'[section] = made
      /\ \A i \in Sections : i # section => superBlock'[i] = superBlock[i]
    BY <1>1, <1>2 DEF BlockType
<1>4. made.name = superBlock[section].name /\ made.hash = Content
    BY DEF Name
<1> HIDE DEF made
<1>5. ASSUME NEW i \in Sections, i = section
      PROVE  Made(i)'
  <2>1. superBlock'[i].name = Name /\ superBlock'[i].hash = Content
    BY <1>3, <1>4, <1>5 DEF Name
  <2> QED
    BY <1>1, <1>5, <2>1 DEF Made, MadeBytes, Content
<1>6. ASSUME NEW i \in Sections, stage' # "createExeFs" \/ i < section'
      PROVE  Made(i)'
  <2>1. ((stage # "createExeFs" \/ i < section) /\ i # section) \/ i = section
    BY <1>1, <1>6, SizeFacts DEF Sections
  <2>2. CASE (stage # "createExeFs" \/ i < section) /\ i # section
    BY <1>1, <1>3, <2>2 DEF SectionsInv, Made, MadeBytes
  <2> QED
    BY <1>5, <2>1, <2>2
<1>7. \A i \in Sections : superBlock'[i].name = superBlock[i].name
    BY <1>3, <1>4
<1> QED
    BY <1>1, <1>6, <1>7 DEF SectionsInv

LEMMA SectionsDoneStep == IInv /\ SectionsInv /\ CreateExeFsDone => SectionsInv'
<1> SUFFICES ASSUME IInv, SectionsInv, CreateExeFsDone
             PROVE  SectionsInv'
    OBVIOUS
<1>1. /\ section > SectionCount /\ section \in Nat
      /\ UNCHANGED <<title, superBlock>>
    BY SizeFacts DEF CreateExeFsDone, IInv, Building, BlockType
<1>2. \A i \in Sections : i < section
    BY <1>1, SizeFacts DEF Sections
<1> QED
    BY <1>1, <1>2 DEF SectionsInv, Made, MadeBytes

LEMMA SectionsStep == IInv /\ SectionsInv /\ [TitleNext]_titleVars => SectionsInv'
<1> SUFFICES ASSUME IInv, SectionsInv, [TitleNext]_titleVars
             PROVE  SectionsInv'
    OBVIOUS
<1>1. CASE ExeFsCreateHeader \/ SkipSection \/ ClearSection \/ CreateSection
               \/ CreateExeFsDone
    BY <1>1, SectionsHeaderStep, SectionsSkipStep, SectionsClearStep,
        SectionsCreateStep, SectionsDoneStep
<1>2. CASE ExtractSection \/ ExtractExeFsDone
  <2>1. stage # "createExeFs" /\ UNCHANGED <<title, superBlock>>
    BY <1>2 DEF ExtractSection, ExtractExeFsDone
  <2> QED
    BY <2>1, SectionsSame
<1>3. CASE NcchNext
  <2>1. stage # "createExeFs" /\ UNCHANGED <<title, superBlock>>
    BY <1>3, Zenon DEF NcchNext, CreateNcchHeader, CreateExtendedHeader,
        CreateLogoRegion, CreatePlainRegion, CreateExeFs, CreateRomFs,
        CreateNcchDone, Creating, LeftOut, Written, ExtractRegion, ExtractExeFs,
        ExtractNcchDone
  <2> QED
    BY <2>1, SectionsSame
<1>4. CASE UNCHANGED titleVars
  <2>1. UNCHANGED <<title, superBlock, stage, section>>
    BY <1>4 DEF titleVars, exeFsVars
  <2> QED
    BY <2>1, SectionsSame
<1> QED
    BY <1>1, <1>2, <1>3, <1>4 DEF TitleNext, ExeFsNext

-----------------------------------------------------------------------------
(* From the region files to the image *)

LEMMA FirstSection ==
    ASSUME superBlock \in [Sections -> Section], exeFile \in Seq(Byte), Described(1),
           title.exeFsHeader
    PROVE  /\ superBlock[1].size \in Nat /\ ExeFsBytes \in Seq(Byte)
           /\ Len(ExeFsBytes) = SuperBlockSize + Len(exeFile)
           /\ SuperBlockSize + superBlock[1].size <= Len(ExeFsBytes)
<1>1. ExeFsBytes \in Seq(Byte) /\ Len(ExeFsBytes) = SuperBlockSize + Len(exeFile)
  <2>1. "superblock" \in Texts
    BY DEF Texts
  <2>2. /\ FileBytes("superblock", SuperBlockSize) \in Seq(Byte)
        /\ Len(FileBytes("superblock", SuperBlockSize)) = SuperBlockSize
    BY <2>1, SizeFacts, FileBytesType
  <2> QED
    BY <2>2, ConcatProperties DEF ExeFsBytes
<1>2. superBlock[1] \in Section
  <2>1. 1 \in Sections
    BY SizeFacts DEF Sections
  <2> QED
    BY <2>1
<1>3. superBlock[1].offset \in Nat /\ superBlock[1].size \in Nat /\ Len(exeFile) \in Nat
    BY <1>2, LenProperties DEF Section
<1>4. superBlock[1].size <= Len(exeFile)
  <2>1. CASE superBlock[1].name = NoName
    BY <1>3, <2>1 DEF Described, NoSection
  <2>2. CASE superBlock[1].name # NoName
    BY <1>3, <2>2 DEF Described
  <2> QED
    BY <2>1, <2>2
<1> QED
    BY <1>1, <1>3, <1>4, SizeFacts

LEMMA SameStored ==
    ASSUME UNCHANGED <<title, superBlock, exeFile, mode, keys>>,
           NEW h, header'.at = h.at, NEW r
    PROVE  /\ RegionFile(r)' = RegionFile(r) /\ Known(r)' = Known(r)
           /\ Stored(header, r)' = Stored(h, r)
<1>1. RegionFile(r)' = RegionFile(r) /\ Known(r)' = Known(r)
    BY DEF RegionFile, ExeFsBytes, Known, FileSize, Size
<1>2. Counter(header, r)' = Counter(h, r)
    BY SamePlaces DEF Counter
<1>3. \A bytes, n, counter :
          ExeFsCrypted(bytes, n, counter)' = ExeFsCrypted(bytes, n, counter)
    BY DEF ExeFsCrypted
<1> QED
    BY <1>1, <1>2, <1>3 DEF Stored, ExeFsCrypted

(* What is written for a region begins with what it is to hold. *)
Filled(h, r, bytes) ==
    RegionSize(h, r) # 0 =>
        /\ RegionFile(r) \in Seq(Byte) /\ Len(RegionFile(r)) <= RegionSize(h, r)
        /\ Known(r) /\ Shades(Stored(h, r), RegionFile(r))
        /\ RegionOffset(h, r) = Len(image) /\ BeginsWith(bytes, Stored(h, r))

LEMMA HeldStep ==
    ASSUME Filling, RegionsInv, NEW h \in Header, NEW rec \in Region,
           h.at = [header.at EXCEPT ![Regions[region]] = rec],
           NEW bytes, IsSeq(bytes), Filled(h, Regions[region], bytes),
           NEW a \in Nat \ {0}, Written(h, image \o bytes, a)
    PROVE  RegionsInv'
<1>1. /\ title \in Titles /\ header \in Header /\ IsSeq(image)
      /\ region \in 1 .. 5 /\ stage = "createNcch"
      /\ \A k \in 1 .. 5 : k < region => Placed(k) /\ Holds(Regions[k])
    BY FillingFacts DEF Filling, NInv, Building, ImageInv, RegionsInv
<1>2. /\ UNCHANGED <<title, stage, superBlock, exeFile, mode, keys>>
      /\ image' = AlignedTo(image \o bytes, a) /\ region' = region + 1
      /\ header' = [h EXCEPT !.contentSize = Len(image') \div MediaUnit]
    BY DEF Written
<1>3. header'.at = h.at
    BY <1>2 DEF Header
<1>4. Len(image) \in Nat /\ Len(bytes) \in Nat
    BY <1>1, LenProperties DEF IsSeq
<1>5. /\ \A k \in 1 .. Len(image) : image'[k] = image[k]
      /\ \A k \in 1 .. Len(bytes) : image'[Len(image) + k] = bytes[k]
  <2>1. StandAt(image, image', 0) /\ StandAt(bytes, image', Len(image))
    BY <1>1, <1>2, AppendedRegion
  <2>2. \A k \in 1 .. Len(image) : 0 + k = k
    BY <1>4
  <2> QED
    BY <2>1, <2>2 DEF StandAt
<1>6. ASSUME NEW r \in RegionNames
      PROVE  /\ RegionOffset(header, r)' = RegionOffset(h, r)
             /\ RegionSize(header, r)' = RegionSize(h, r)
             /\ RegionFile(r)' = RegionFile(r) /\ Known(r)' = Known(r)
             /\ Stored(header, r)' = Stored(h, r)
    BY <1>2, <1>3, SamePlaces, SameStored
<1>7. ASSUME NEW k \in 1 .. 5, k < region, NEW r, r = Regions[k]
      PROVE  Holds(r)'
  <2>1. r # Regions[region] /\ r \in RegionNames
    BY <1>1, <1>7, RegionFacts
  <2>2. h.at[r] = header.at[r]
    BY <1>1, <2>1 DEF Header
  <2>3. /\ RegionOffset(h, r) = RegionOffset(header, r)
        /\ RegionSize(h, r) = RegionSize(header, r)
    BY <2>2 DEF RegionOffset, RegionSize
  <2>4. Stored(h, r) = Stored(header, r)
    BY <2>3 DEF Stored, Counter
  <2>5. Placed(k) /\ Holds(r)
    BY <1>1, <1>7
  <2>6. RegionOffset(header, r) \in Nat /\ RegionSize(header, r) \in Nat
    BY <1>1, <2>1, RegionPlaces
  <2>7. CASE RegionSize(header, r) # 0
    <3> DEFINE o == RegionOffset(header, r)
               s == Stored(header, r)
    <3>1. o + RegionSize(header, r) <= Len(image)
      BY <1>7, <2>5, <2>7 DEF Placed, End
    <3>2. Len(s) = Len(RegionFile(r)) /\ Len(RegionFile(r)) <= RegionSize(header, r)
      BY <2>5, <2>7 DEF Holds, Shades
    <3>3. Len(RegionFile(r)) \in Nat
      BY <2>5, <2>7, LenProperties DEF Holds
    <3>4. StandAt(s, image, o)
      BY <2>5, <2>7 DEF Holds
    <3> HIDE DEF o, s
    <3>5. \A i \in 1 .. Len(s) : o + i \in 1 .. Len(image)
      BY <1>4, <2>6, <3>1, <3>2, <3>3 DEF o
    <3>6. StandAt(s, image', o)
      BY <1>5, <3>4, <3>5 DEF StandAt
    <3>7. /\ RegionOffset(header, r)' = o /\ RegionSize(header, r)' = RegionSize(header, r)
          /\ Stored(header, r)' = s /\ RegionFile(r)' = RegionFile(r)
          /\ Known(r)' = Known(r)
      BY <1>6, <2>1, <2>3, <2>4 DEF o, s
    <3>8. /\ RegionFile(r) \in Seq(Byte) /\ Len(RegionFile(r)) <= RegionSize(header, r)
          /\ Known(r) /\ Shades(s, RegionFile(r))
      BY <2>5, <2>7 DEF Holds, s
    <3>9. /\ Shades(Stored(header, r), RegionFile(r))'
          /\ StandAt(Stored(header, r), image, RegionOffset(header, r))'
      <4>1. /\ Shades(Stored(header, r)', RegionFile(r)')
            /\ StandAt(Stored(header, r)', image', RegionOffset(header, r)')
        BY <3>6, <3>7, <3>8
      <4> QED
        BY <4>1 DEF Shades, IsSeq, StandAt
    <3> QED
      BY <1>2, <3>7, <3>8, <3>9 DEF Holds
  <2>8. CASE RegionSize(header, r) = 0
    BY <1>6, <2>1, <2>3, <2>8 DEF Holds
  <2> QED
    BY <2>6, <2>7, <2>8
<1>8. ASSUME NEW k \in 1 .. 5, k = region, NEW r, r = Regions[k]
      PROVE  Holds(r)'
  <2>1. r \in RegionNames
    BY <1>8, RegionFacts
  <2>2. Filled(h, r, bytes)
    BY <1>8
  <2>3. CASE RegionSize(h, r) # 0
    <3> DEFINE s == Stored(h, r)
    <3>1. /\ RegionFile(r) \in Seq(Byte) /\ Len(RegionFile(r)) <= RegionSize(h, r)
          /\ Known(r) /\ Shades(s, RegionFile(r)) /\ RegionOffset(h, r) = Len(image)
          /\ BeginsWith(bytes, s)
      BY <2>2, <2>3 DEF Filled
    <3> HIDE DEF s
    <3>2. \A i \in 1 .. Len(s) : i \in 1 .. Len(bytes) /\ bytes[i] = s[i]
      <4>1. Len(s) \in Nat
        BY <3>1, LenProperties DEF Shades
      <4> QED
        BY <1>4, <3>1, <4>1 DEF BeginsWith
    <3>3. StandAt(s, image', Len(image))
      BY <1>5, <3>2 DEF StandAt
    <3>4. /\ Shades(Stored(header, r), RegionFile(r))'
          /\ StandAt(Stored(header, r), image, RegionOffset(header, r))'
      <4>1. /\ Shades(Stored(header, r)', RegionFile(r)')
            /\ StandAt(Stored(header, r)', image', RegionOffset(header, r)')
        BY <1>6, <2>1, <3>1, <3>3 DEF s
      <4> QED
        BY <4>1 DEF Shades, IsSeq, StandAt
    <3> QED
      BY <1>2, <1>6, <2>1, <2>3, <3>1, <3>4 DEF Holds
  <2>4. CASE RegionSize(h, r) = 0
    BY <1>6, <2>1, <2>4 DEF Holds
  <2> QED
    BY <2>3, <2>4
<1>9. ASSUME NEW k \in 1 .. 5, k < region'
      PROVE  Holds(Regions[k])'
  <2>1. k < region \/ k = region
    BY <1>1, <1>2, <1>9
  <2> QED
    BY <1>7, <1>8, <2>1
<1> QED
    BY <1>1, <1>2, <1>9 DEF RegionsInv

LEMMA BeginsSame == ASSUME NEW bytes, NEW plain, Shades(bytes, plain)
                    PROVE  BeginsWith(bytes, bytes) /\ IsSeq(bytes)
<1>1. IsSeq(bytes) /\ Len(bytes) \in Nat
    BY LenProperties DEF Shades, IsSeq
<1> QED
    BY <1>1 DEF BeginsWith

LEMMA HeldLeftOut ==
    ASSUME Filling, RegionsInv, NEW r, r = Regions[region],
           NEW a \in Nat \ {0}, LeftOut(r, a)
    PROVE  RegionsInv'
<1> DEFINE h == [header EXCEPT !.at[r] = NoRegion]
<1>1. r \in RegionNames /\ region \in 1 .. 5
    BY RegionFacts DEF Filling
<1>2. /\ h \in Header /\ h.at = [header.at EXCEPT ![r] = NoRegion]
      /\ h.at[r] = NoRegion
    BY <1>1, EmptyRegion, FillingFacts DEF Header
<1> HIDE DEF h
<1>3. RegionSize(h, r) = 0
    BY <1>2, UnitFacts, FillingFacts DEF RegionSize, NoRegion
<1>4. Filled(h, r, << >>)
    BY <1>3 DEF Filled
<1>5. image \o << >> = image
  <2>1. PICK S : image \in Seq(S)
    BY FillingFacts DEF IsSeq
  <2> QED
    BY <2>1, ConcatEmptySeq
<1>6. Written(h, image \o << >>, a)
    BY <1>5 DEF LeftOut, h
<1> QED
    BY <1>1, <1>2, <1>4, <1>6, EmptyRegion, HeldStep

LEMMA WithRegionFacts ==
    ASSUME Filling, NEW r, r = Regions[region], region # 1, NEW n \in Nat,
           NEW hashSize \in Nat, NEW hash \in Seq(Byte),
           NEW h, h = WithRegion(r, Units(n), hashSize, hash)
    PROVE  /\ h \in Header /\ h.at[r] \in Region
           /\ h.at = [header.at EXCEPT ![r] = h.at[r]]
           /\ RegionOffset(h, r) = Len(image) /\ RegionSize(h, r) >= n
<1> DEFINE rec == [offset |-> header.contentSize, size |-> Units(n),
                   hashSize |-> hashSize, hash |-> hash]
<1>1. r \in RegionNames /\ r # "extendedheader"
    BY RegionFacts DEF Filling
<1>2. Units(n) \in Nat /\ Units(n) * MediaUnit >= n
    BY UnitsProperties, FillingFacts
<1>3. rec \in Region
    BY <1>2, FillingFacts DEF Region, Header
<1>4. h = [header EXCEPT !.at[r] = rec]
    BY DEF WithRegion
<1>5. rec.offset = header.contentSize /\ rec.size = Units(n)
    OBVIOUS
<1> HIDE DEF rec
<1>6. h \in Header /\ h.at = [header.at EXCEPT ![r] = rec] /\ h.at[r] = rec
    BY <1>1, <1>3, <1>4, FillingFacts DEF Header
<1> QED
    BY <1>1, <1>2, <1>3, <1>5, <1>6, FillingFacts DEF RegionOffset, RegionSize

LEMMA HeldWithRegion ==
    ASSUME Filling, RegionsInv, NEW r, r = Regions[region], region # 1, NEW n \in Nat,
           NEW hashSize \in Nat, NEW hash \in Seq(Byte),
           NEW h, h = WithRegion(r, Units(n), hashSize, hash),
           RegionFile(r) \in Seq(Byte), Len(RegionFile(r)) <= n,
           Known(r),
           Shades(Stored(h, r), RegionFile(r)),
           NEW bytes, BeginsWith(bytes, Stored(h, r)),
           NEW a \in Nat \ {0}, Written(h, image \o bytes, a)
    PROVE  RegionsInv'
<1>1. /\ h \in Header /\ h.at[r] \in Region
      /\ h.at = [header.at EXCEPT ![r] = h.at[r]]
      /\ RegionOffset(h, r) = Len(image) /\ RegionSize(h, r) >= n
    BY WithRegionFacts
<1>2. RegionSize(h, r) \in Nat /\ Len(RegionFile(r)) \in Nat
  <2>1. r \in RegionNames
    BY RegionFacts DEF Filling
  <2> QED
    BY <1>1, <2>1, RegionPlaces, FillingFacts, LenProperties
<1>3. Len(RegionFile(r)) <= RegionSize(h, r)
    BY <1>1, <1>2
<1>4. Filled(h, r, bytes)
    BY <1>1, <1>3 DEF Filled
<1>5. IsSeq(bytes)
    BY DEF BeginsWith
<1> QED
    BY <1>1, <1>4, <1>5, HeldStep

LEMMA HeldExtendedHeader == Filling /\ RegionsInv /\ CreateExtendedHeader => RegionsInv'
<1> SUFFICES ASSUME Filling, RegionsInv, CreateExtendedHeader
             PROVE  RegionsInv'
    OBVIOUS
<1> DEFINE r == "extendedheader"
           plain == FileBytes(r, ExtendedBytes)
           hash == SubSeq(plain, 1, ExtendedBytes \div 2)
           rec == [header.at[r] EXCEPT !.size = ExtendedBytes, !.hash = hash]
           h == [header EXCEPT !.at[r].size = ExtendedBytes, !.at[r].hash = hash]
           bytes == IF mode = "NotEncrypt" THEN plain
                    ELSE Crypted(plain, keys.old, Counter(h, r), 0)
<1>1. /\ r = Regions[region] /\ region = 1 /\ r \in RegionNames
    BY RegionFacts DEF CreateExtendedHeader, Creating, Filling, RegionNames
<1>2. MediaUnit \in Nat \ {0}
    BY UnitFacts, FillingFacts
<1>3. LeftOut(r, MediaUnit) \/ Written(h, image \o bytes, MediaUnit)
    BY DEF CreateExtendedHeader
<1>4. CASE LeftOut(r, MediaUnit)
    BY <1>1, <1>2, <1>4, HeldLeftOut
<1>5. CASE Written(h, image \o bytes, MediaUnit)
  <2>1. plain \in Seq(Byte) /\ Len(plain) = ExtendedBytes /\ RegionFile(r) = plain
        /\ Known(r)
    <3>1. r \in Texts
      BY DEF Texts
    <3> QED
      BY <3>1, FileBytesType, ByteCounts DEF RegionFile, FileSize, Known
  <2>2. bytes = Stored(h, r)
    BY <2>1 DEF Stored
  <2> HIDE DEF plain
  <2>3. Shades(bytes, plain)
    BY <2>1, PlainShades, CryptedShades
  <2> HIDE DEF bytes
  <2>4. hash \in Seq(Byte)
    <3>1. ExtendedBytes \div 2 \in Nat /\ ExtendedBytes \div 2 <= ExtendedBytes
      BY ByteCounts
    <3> QED
      BY <2>1, <2>3, <3>1, ShadesHide
  <2> HIDE DEF hash
  <2>5. header \in Header /\ header.at[r] \in Region
    BY <1>1, FillingFacts DEF Header
  <2>6. rec \in Region /\ rec.size = ExtendedBytes
    BY <2>4, <2>5, ByteCounts DEF Region
  <2>7. h = [header EXCEPT !.at[r] = rec]
    BY <1>1, <2>5 DEF Header, Region
  <2> HIDE DEF rec, h
  <2>8. h \in Header /\ h.at = [header.at EXCEPT ![r] = rec] /\ h.at[r] = rec
    BY <1>1, <2>5, <2>6, <2>7 DEF Header
  <2>9. RegionSize(h, r) = ExtendedBytes /\ RegionOffset(h, r) = Len(image)
    BY <1>1, <2>6, <2>8, FillingFacts DEF RegionOffset, RegionSize
  <2>10. BeginsWith(bytes, bytes) /\ IsSeq(bytes)
    BY <2>3, BeginsSame
  <2>11. Filled(h, r, bytes)
    BY <2>1, <2>2, <2>3, <2>9, <2>10, ByteCounts DEF Filled
  <2> QED
    BY <1>1, <1>2, <1>5, <2>6, <2>8, <2>10, <2>11, HeldStep
<1> QED
    BY <1>3, <1>4, <1>5

LEMMA HeldLogo == Filling /\ RegionsInv /\ CreateLogoRegion => RegionsInv'
<1> SUFFICES ASSUME Filling, RegionsInv, CreateLogoRegion
             PROVE  RegionsInv'
    OBVIOUS
<1> DEFINE plain == FileBytes("logo", Size("logo"))
           bytes == AlignedTo(plain, MediaUnit)
           h == WithRegion("logo", Units(Size("logo")), 0, bytes)
<1>1. "logo" = Regions[region] /\ region # 1
    BY RegionFacts DEF CreateLogoRegion, Creating, Filling
<1>2. MediaUnit \in Nat \ {0} /\ title \in Titles
    BY UnitFacts, FillingFacts
<1>3. CASE State("logo") # "there"
    BY <1>1, <1>2, <1>3, HeldLeftOut DEF CreateLogoRegion
<1>4. CASE State("logo") = "there"
  <2>1. Size("logo") \in Nat /\ plain \in Seq(Byte) /\ Len(plain) = Size("logo")
    BY <1>2, <1>4, GivenFile
  <2>2. Written(h, image \o bytes, MediaUnit)
    BY <1>4 DEF CreateLogoRegion
  <2>3. /\ RegionFile("logo") = plain /\ Stored(h, "logo") = plain
        /\ Known("logo")
    BY <2>1 DEF RegionFile, Stored, FileSize, Known
  <2> HIDE DEF plain
  <2>4. /\ bytes \in Seq(Byte) /\ Len(bytes) >= Len(plain)
        /\ \A k \in 1 .. Len(plain) : bytes[k] = plain[k]
    BY <1>2, <2>1, AlignedToProperties
  <2> HIDE DEF bytes, h
  <2>5. BeginsWith(bytes, plain)
    BY <2>4 DEF BeginsWith, IsSeq
  <2>6. Shades(plain, plain)
    BY <2>1, PlainShades
  <2>7. h = WithRegion("logo", Units(Size("logo")), 0, bytes)
    BY DEF h
  <2>8. Len(RegionFile("logo")) <= Size("logo")
    BY <2>1, <2>3
  <2> QED
    BY <1>1, <1>2, <2>1, <2>2, <2>3, <2>4, <2>5, <2>6, <2>7, <2>8, HeldWithRegion
<1> QED
    BY <1>3, <1>4

LEMMA HeldPlain == Filling /\ RegionsInv /\ CreatePlainRegion => RegionsInv'
<1> SUFFICES ASSUME Filling, RegionsInv, CreatePlainRegion
             PROVE  RegionsInv'
    OBVIOUS
<1> DEFINE plain == FileBytes("plain", Size("plain"))
           h == WithRegion("plain", Units(Size("plain")), 0, NoHash)
<1>1. "plain" = Regions[region] /\ region # 1
    BY RegionFacts DEF CreatePlainRegion, Creating, Filling
<1>2. MediaUnit \in Nat \ {0} /\ title \in Titles
    BY UnitFacts, FillingFacts
<1>3. CASE State("plain") # "there"
    BY <1>1, <1>2, <1>3, HeldLeftOut DEF CreatePlainRegion
<1>4. CASE State("plain") = "there"
  <2>1. Size("plain") \in Nat /\ plain \in Seq(Byte) /\ Len(plain) = Size("plain")
    BY <1>2, <1>4, GivenFile
  <2>2. Written(h, image \o plain, MediaUnit)
    BY <1>4 DEF CreatePlainRegion
  <2>3. /\ RegionFile("plain") = plain /\ Stored(h, "plain") = plain
        /\ Known("plain")
    BY <2>1 DEF RegionFile, Stored, FileSize, Known
  <2> HIDE DEF plain, h
  <2>4. Shades(plain, plain) /\ BeginsWith(plain, plain)
    BY <2>1, PlainShades, BeginsSame
  <2>5. h = WithRegion("plain", Units(Size("plain")), 0, NoHash) /\ NoHash \in Seq(Byte)
    BY DEF h, NoHash
  <2>6. Len(RegionFile("plain")) <= Size("plain")
    BY <2>1, <2>3
  <2> QED
    BY <1>1, <1>2, <2>1, <2>2, <2>3, <2>4, <2>5, <2>6, HeldWithRegion
<1> QED
    BY <1>3, <1>4

LEMMA HeldRomFs == Filling /\ RegionsInv /\ CreateRomFs => RegionsInv'
<1> SUFFICES ASSUME Filling, RegionsInv, CreateRomFs
             PROVE  RegionsInv'
    OBVIOUS
<1> DEFINE plain == FileBytes("romfs", Size("romfs"))
           hash == SubSeq(plain, 1, Align(RomFsSuperBytes, MediaUnit))
           h == WithRegion("romfs", Units(Len(plain)), Units(RomFsSuperBytes), hash)
           bytes == IF mode = "NotEncrypt" THEN plain
                    ELSE Crypted(plain, keys.new, Counter(h, "romfs"), 0)
<1>1. "romfs" = Regions[region] /\ region # 1
    BY RegionFacts DEF CreateRomFs, Creating, Filling
<1>2. /\ BigAlignment \in Nat \ {0} /\ MediaUnit \in Nat \ {0} /\ title \in Titles
    BY UnitFacts, FillingFacts
<1>3. \/ LeftOut("romfs", BigAlignment)
      \/ /\ State("romfs") = "there" /\ Len(plain) >= Align(RomFsSuperBytes, MediaUnit)
         /\ Written(h, image \o bytes, BigAlignment)
    BY DEF CreateRomFs
<1>4. CASE LeftOut("romfs", BigAlignment)
    BY <1>1, <1>2, <1>4, HeldLeftOut
<1>5. CASE /\ State("romfs") = "there" /\ Len(plain) >= Align(RomFsSuperBytes, MediaUnit)
           /\ Written(h, image \o bytes, BigAlignment)
  <2>1. plain \in Seq(Byte) /\ Len(plain) \in Nat /\ Size("romfs") \in Nat
    BY <1>2, <1>5, GivenFile
  <2>2. /\ RegionFile("romfs") = plain /\ Stored(h, "romfs") = bytes
        /\ Known("romfs")
    BY <2>1 DEF RegionFile, Stored, FileSize, Known
  <2>3. Align(RomFsSuperBytes, MediaUnit) \in Nat /\ Units(RomFsSuperBytes) \in Nat
    BY <1>2, ByteCounts, AlignProperties, UnitsProperties
  <2> HIDE DEF plain
  <2>4. Shades(bytes, plain) /\ Shades(plain, plain)
    BY <2>1, PlainShades, CryptedShades
  <2>5. hash \in Seq(Byte)
    BY <1>5, <2>1, <2>3, <2>4, ShadesHide
  <2>6. h = WithRegion("romfs", Units(Len(plain)), Units(RomFsSuperBytes), hash)
    OBVIOUS
  <2>7. BeginsWith(bytes, bytes) /\ Len(plain) <= Len(plain)
    BY <2>1, <2>4, BeginsSame
  <2> HIDE DEF hash, h, bytes
  <2> QED
    BY <1>1, <1>2, <1>5, <2>1, <2>2, <2>3, <2>4, <2>5, <2>6, <2>7, HeldWithRegion
<1> QED
    BY <1>3, <1>4, <1>5

LEMMA HeldExeFs == Filling /\ RegionsInv /\ CreateExeFs => RegionsInv'
<1> SUFFICES ASSUME Filling, RegionsInv, CreateExeFs
             PROVE  RegionsInv'
    OBVIOUS
<1> DEFINE plain == ExeFsBytes
           super == Align(SuperBlockSize, MediaUnit)
           hash == SubSeq(plain, 1, super)
           h == WithRegion("exefs", Units(Len(plain)), Units(SuperBlockSize), hash)
           bytes == IF mode = "NotEncrypt" THEN plain
                    ELSE ExeFsCrypted(plain, superBlock[1].size, Counter(h, "exefs"))
<1>1. "exefs" = Regions[region] /\ region # 1
    BY RegionFacts DEF CreateExeFs, Creating, Filling
<1>2. /\ BigAlignment \in Nat \ {0} /\ MediaUnit \in Nat \ {0} /\ title \in Titles
      /\ exeFile \in Seq(Byte) /\ superBlock \in [Sections -> Section]
    BY UnitFacts, FillingFacts
<1>3. \/ LeftOut("exefs", BigAlignment)
      \/ Len(plain) >= super /\ Written(h, image \o bytes, BigAlignment)
    BY DEF CreateExeFs
<1>4. CASE LeftOut("exefs", BigAlignment)
    BY <1>1, <1>2, <1>4, HeldLeftOut
<1>5. CASE Len(plain) >= super /\ Written(h, image \o bytes, BigAlignment)
  <2>1. super \in Nat \ {0} /\ Units(SuperBlockSize) \in Nat
    <3>1. /\ Align(SuperBlockSize, MediaUnit) \in Nat
          /\ Align(SuperBlockSize, MediaUnit) >= SuperBlockSize
      BY <1>2, SizeFacts, AlignProperties
    <3> QED
      BY <1>2, <3>1, SizeFacts, UnitsProperties
  <2>2. title.exeFsHeader
    BY <1>5, <2>1 DEF ExeFsBytes
  <2>3. Described(1)
    <3>1. 1 \in Sections
      BY SizeFacts DEF Sections
    <3> QED
      BY <3>1 DEF Filling, IInv, Building, Complete
  <2>4. /\ superBlock[1].size \in Nat /\ plain \in Seq(Byte)
        /\ SuperBlockSize + superBlock[1].size <= Len(plain)
    BY <1>2, <2>2, <2>3, FirstSection
  <2>5. /\ RegionFile("exefs") = plain /\ Stored(h, "exefs") = bytes
        /\ Known("exefs")
    BY <2>2 DEF RegionFile, Stored, Known
  <2> HIDE DEF plain
  <2>6. Shades(bytes, plain) /\ Shades(plain, plain) /\ Len(plain) \in Nat
    BY <2>4, PlainShades, ExeFsCryptedShades, LenProperties
  <2> HIDE DEF super
  <2>7. hash \in Seq(Byte)
    BY <1>5, <2>1, <2>4, <2>6, ShadesHide
  <2>8. h = WithRegion("exefs", Units(Len(plain)), Units(SuperBlockSize), hash)
    OBVIOUS
  <2>9. BeginsWith(bytes, bytes) /\ Len(plain) <= Len(plain)
    BY <2>6, BeginsSame
  <2> HIDE DEF hash, h, bytes
  <2> QED
    BY <1>1, <1>2, <1>5, <2>1, <2>2, <2>4, <2>5, <2>6, <2>7, <2>8, <2>9, HeldWithRegion
<1> QED
    BY <1>3, <1>4, <1>5

FillStep ==
    \/ CreateExtendedHeader \/ CreateLogoRegion \/ CreatePlainRegion
    \/ CreateExeFs \/ CreateRomFs

LEMMA FillStepFills == IInv /\ NInv /\ FillStep => Filling
BY DEF FillStep, CreateExtendedHeader, CreateLogoRegion, CreatePlainRegion,
    CreateExeFs, CreateRomFs, Creating, Filling

(* A region is put in; nothing else of the header changes. *)
LEMMA FillStepKeeps ==
    ASSUME Filling, FillStep
    PROVE  /\ UNCHANGED <<title, stage, superBlock, exeFile, mode, keys, extracted>>
           /\ region' = region + 1
           /\ header'.noCrypto = header.noCrypto /\ header'.fixedKey = header.fixedKey
           /\ header'.extKey = header.extKey
<1>1. header \in Header
    BY FillingFacts
<1>2. \A r, x : \A h :
          h = [header EXCEPT !.at[r] = x] =>
              /\ h.noCrypto = header.noCrypto /\ h.fixedKey = header.fixedKey
              /\ h.extKey = header.extKey /\ DOMAIN h = DOMAIN header
    BY <1>1 DEF Header
<1>3. ASSUME NEW h, NEW bytes, NEW a, Written(h, bytes, a),
             h.noCrypto = header.noCrypto, h.fixedKey = header.fixedKey,
             h.extKey = header.extKey, DOMAIN h = DOMAIN header
      PROVE  /\ UNCHANGED <<title, stage, superBlock, exeFile, mode, keys, extracted>>
             /\ region' = region + 1
             /\ header'.noCrypto = header.noCrypto /\ header'.fixedKey = header.fixedKey
             /\ header'.extKey = header.extKey
  <2>1. header' = [h EXCEPT !.contentSize = Len(image') \div MediaUnit]
    BY <1>3 DEF Written
  <2>2. DOMAIN header = {"at", "contentSize", "noCrypto", "fixedKey", "extKey"}
    BY <1>1 DEF Header
  <2> QED
    BY <1>3, <2>1, <2>2 DEF Written
<1>4. CASE CreateExtendedHeader
  <2> DEFINE r == "extendedheader"
             hash == SubSeq(FileBytes(r, ExtendedBytes), 1, ExtendedBytes \div 2)
             h == [header EXCEPT !.at[r].size = ExtendedBytes, !.at[r].hash = hash]
  <2>1. \/ LeftOut(r, MediaUnit)
        \/ \E bytes : Written(h, bytes, MediaUnit)
    BY <1>4 DEF CreateExtendedHeader
  <2>2. /\ h.noCrypto = header.noCrypto /\ h.fixedKey = header.fixedKey
        /\ h.extKey = header.extKey /\ DOMAIN h = DOMAIN header
    BY <1>1 DEF Header
  <2> HIDE DEF h
  <2>3. CASE LeftOut(r, MediaUnit)
    BY <1>2, <1>3, <2>3 DEF LeftOut
  <2> QED
    BY <1>3, <2>1, <2>2, <2>3
<1>5. CASE CreateLogoRegion
    BY <1>2, <1>3, <1>5 DEF CreateLogoRegion, LeftOut, WithRegion
<1>6. CASE CreatePlainRegion
    BY <1>2, <1>3, <1>6 DEF CreatePlainRegion, LeftOut, WithRegion
<1>7. CASE CreateExeFs
    BY <1>2, <1>3, <1>7 DEF CreateExeFs, LeftOut, WithRegion
<1>8. CASE CreateRomFs
    BY <1>2, <1>3, <1>8 DEF CreateRomFs, LeftOut, WithRegion
<1> QED
    BY <1>4, <1>5, <1>6, <1>7, <1>8 DEF FillStep

(* The steps of TitleNext, by what they do to the stage. *)
LEMMA Stages ==
    ASSUME [TitleNext]_titleVars
    PROVE  \/ /\ ExeFsNext /\ UNCHANGED ncchVars
              /\ \/ stage = "createExeFs" /\ stage' \in {"createExeFs", "createNcch"}
                 \/ stage = "extractExeFs" /\ stage' \in {"extractExeFs", "end"}
           \/ CreateNcchHeader /\ stage = "createNcch" /\ region = 0
           \/ FillStep
           \/ CreateNcchDone /\ stage = "createNcch" /\ stage' = "extractNcch"
           \/ ExtractRegion /\ stage = "extractNcch" /\ stage' = stage
           \/ ExtractExeFs /\ stage = "extractNcch" /\ stage' = stage
           \/ /\ ExtractNcchDone /\ stage = "extractNcch"
              /\ stage' \in {"extractExeFs", "end"}
           \/ UNCHANGED titleVars
<1>1. CASE ExeFsNext /\ UNCHANGED ncchVars
  <2>1. \/ stage = "createExeFs" /\ stage' \in {"createExeFs", "createNcch"}
        \/ stage = "extractExeFs" /\ stage' \in {"extractExeFs", "end"}
    BY <1>1 DEF ExeFsNext, ExeFsCreateHeader, SkipSection, ClearSection,
        CreatingSection, CreateSection, CreateExeFsDone, ExtractSection,
        ExtractExeFsDone
  <2> QED
    BY <1>1, <2>1
<1>2. CASE NcchNext
    BY <1>2 DEF NcchNext, FillStep, CreateNcchHeader, CreateNcchDone, ExtractRegion,
        ExtractExeFs, ExtractNcchDone
<1> QED
    BY <1>1, <1>2 DEF TitleNext

LEMMA KeysStep == IInv /\ NInv /\ KeysInv /\ [TitleNext]_titleVars => KeysInv'
<1> SUFFICES ASSUME IInv, NInv, KeysInv, [TitleNext]_titleVars,
                    stage' = "createNcch", region' # 0
             PROVE  KeysSet'
    BY DEF KeysInv
<1>0. ASSUME UNCHANGED title, header'.extKey \in BOOLEAN,
             header'.noCrypto = (title.mode = "NotEncrypt"),
             title.mode # "NotEncrypt" => header'.fixedKey = (title.mode = "FixedKey"),
             mode' = title.mode,
             keys' = KeysFor(title.mode, header'.extKey, title.extKey)
      PROVE  KeysSet'
    BY <1>0 DEF KeysSet, KeysFor
<1>1. CASE ExeFsNext /\ UNCHANGED ncchVars /\ stage = "createExeFs"
  <2>1. region' = 0
    BY <1>1 DEF NInv, Building, ncchVars
  <2> QED
    BY <2>1
<1>2. CASE CreateNcchHeader
  <2>1. title.ncchHeader /\ header \in Header /\ UNCHANGED title /\ title \in Titles
    BY <1>2 DEF CreateNcchHeader, NInv, IInv, Building, BlockType
  <2>0. title.extKeyFlag \in BOOLEAN
    BY <2>1, NcchAssumption
  <2> DEFINE fixedKey == IF title.mode = "NotEncrypt" THEN title.fixedKeyFlag
                         ELSE title.mode = "FixedKey"
             extKey == title.extKeyFlag /\ ~(title.mode = "Auto" /\ title.removeExtKey)
             at == [r \in DOMAIN header.at |-> OldRegion]
             noCrypto == title.mode = "NotEncrypt"
  <2>2. header' = [header EXCEPT !.at = at, !.noCrypto = noCrypto,
                                 !.fixedKey = fixedKey, !.extKey = extKey]
    BY <1>2, <2>1 DEF CreateNcchHeader
  <2>3. /\ mode' = title.mode
        /\ keys' = KeysFor(title.mode, header'.extKey, title.extKey)
    BY <1>2, <2>1 DEF CreateNcchHeader
  <2>4. title.mode # "NotEncrypt" => fixedKey = (title.mode = "FixedKey")
    OBVIOUS
  <2>6. extKey \in BOOLEAN
    BY <2>0
  <2> HIDE DEF fixedKey, extKey, at, noCrypto
  <2>5. /\ header'.noCrypto = noCrypto /\ header'.fixedKey = fixedKey
        /\ header'.extKey = extKey
    BY <2>1, <2>2 DEF Header
  <2> QED
    BY <1>0, <2>1, <2>3, <2>4, <2>5, <2>6 DEF noCrypto
<1>3. CASE FillStep
  <2>1. Filling
    BY <1>3, FillStepFills
  <2>2. /\ UNCHANGED <<title, stage, mode, keys>>
        /\ header'.noCrypto = header.noCrypto /\ header'.fixedKey = header.fixedKey
        /\ header'.extKey = header.extKey
    BY <1>3, <2>1, FillStepKeeps
  <2>3. stage = "createNcch" /\ region # 0
    BY <2>1 DEF Filling
  <2> QED
    BY <1>0, <2>2, <2>3 DEF KeysInv, KeysSet
<1>4. CASE UNCHANGED titleVars
  <2>1. UNCHANGED <<title, stage, region, header, mode, keys>>
    BY <1>4 DEF titleVars, exeFsVars, ncchVars
  <2> QED
    BY <1>0, <2>1 DEF KeysInv, KeysSet
<1> QED
    BY <1>1, <1>2, <1>3, <1>4, Stages

LEMMA HoldsSame ==
    ASSUME UNCHANGED <<title, superBlock, exeFile, mode, keys, header, image>>,
           NEW r, Holds(r)
    PROVE  Holds(r)'
<1>1. /\ RegionOffset(header, r)' = RegionOffset(header, r)
      /\ RegionSize(header, r)' = RegionSize(header, r)
    BY SamePlaces
<1>2. /\ RegionFile(r)' = RegionFile(r) /\ Known(r)' = Known(r)
      /\ Stored(header, r)' = Stored(header, r)
    BY SameStored
<1>3. CASE RegionSize(header, r) # 0
  <2>1. /\ Shades(Stored(header, r)', RegionFile(r)')
        /\ StandAt(Stored(header, r)', image', RegionOffset(header, r)')
    BY <1>1, <1>2, <1>3 DEF Holds
  <2>2. /\ Shades(Stored(header, r), RegionFile(r))'
        /\ StandAt(Stored(header, r), image, RegionOffset(header, r))'
    BY <2>1 DEF Shades, IsSeq, StandAt
  <2> QED
    BY <1>1, <1>2, <1>3, <2>2 DEF Holds
<1>4. CASE RegionSize(header, r) = 0
    BY <1>1, <1>4 DEF Holds
<1> QED
    BY <1>3, <1>4

(* A reader finds out the mode and, with the same ext key, makes the same keys. *)
LEMMA SameKeys ==
    ASSUME SectionsInv, KeysInv, CreateNcchDone, region # 0, KeysAgree
    PROVE  mode' = mode /\ keys' = keys
<1>1. title.mode \in {"Auto", "NotEncrypt", "FixedKey"}
    BY TitleAssumption DEF SectionsInv
<1>2. /\ header.noCrypto = (title.mode = "NotEncrypt")
      /\ title.mode # "NotEncrypt" => header.fixedKey = (title.mode = "FixedKey")
      /\ mode = title.mode /\ header.extKey \in BOOLEAN
      /\ keys = KeysFor(title.mode, header.extKey, title.extKey)
    BY DEF KeysInv, KeysSet, CreateNcchDone
<1>3. mode' = mode
    BY <1>1, <1>2 DEF CreateNcchDone
<1>4. keys' = KeysFor(mode, header.extKey, title.extKeyLater)
    BY <1>3 DEF CreateNcchDone
<1>5. CASE header.extKey = FALSE
  <2>1. \A m, x, y : KeysFor(m, FALSE, x) = KeysFor(m, FALSE, y)
    BY DEF KeysFor
  <2>2. KeysFor(mode, FALSE, title.extKeyLater) = KeysFor(mode, FALSE, title.extKey)
    BY <2>1
  <2> QED
    BY <1>2, <1>3, <1>4, <1>5, <2>2
<1>6. CASE title.extKey = title.extKeyLater
    BY <1>2, <1>3, <1>4, <1>6
<1> QED
    BY <1>2, <1>5, <1>6 DEF KeysAgree

LEMMA RegionsStep ==
    IInv /\ NInv /\ SectionsInv /\ KeysInv /\ RegionsInv /\ [TitleNext]_titleVars
        => RegionsInv'
<1> SUFFICES ASSUME IInv, NInv, SectionsInv, KeysInv, RegionsInv, [TitleNext]_titleVars
             PROVE  RegionsInv'
    OBVIOUS
<1> DEFINE Same == UNCHANGED <<title, superBlock, exeFile, mode, keys, header, image>>
<1>1. CASE ExeFsNext /\ UNCHANGED ncchVars
  <2>1. CASE stage = "createExeFs" /\ stage' \in {"createExeFs", "createNcch"}
    <3>1. region' = 0
      BY <1>1, <2>1 DEF NInv, Building, ncchVars
    <3> QED
      BY <2>1, <3>1 DEF RegionsInv
  <2>2. CASE stage' \in {"extractExeFs", "end"}
    BY <2>2 DEF RegionsInv
  <2> QED
    BY <1>1, <2>1, <2>2 DEF ExeFsNext, ExeFsCreateHeader, SkipSection, ClearSection,
        CreatingSection, CreateSection, CreateExeFsDone, ExtractSection,
        ExtractExeFsDone
<1>2. CASE CreateNcchHeader
  <2>1. stage' = "end" \/ (stage' = "createNcch" /\ region' = 1)
    BY <1>2 DEF CreateNcchHeader
  <2> QED
    BY <2>1 DEF RegionsInv
<1>3. CASE FillStep
  <2>1. Filling
    BY <1>3, FillStepFills
  <2> QED
    BY <1>3, <2>1, HeldExtendedHeader, HeldLogo, HeldPlain, HeldRomFs, HeldExeFs
        DEF FillStep
<1>4. CASE CreateNcchDone
  <2>1. /\ stage = "createNcch" /\ region > 5 /\ stage' = "extractNcch"
        /\ UNCHANGED <<title, superBlock, exeFile, header, image>>
    BY <1>4, RegionFacts DEF CreateNcchDone
  <2>2. KeysAgree' = KeysAgree
    BY <2>1 DEF KeysAgree
  <2>3. CASE KeysAgree
    <3>1. Same
      BY <1>4, <2>1, <2>3, SameKeys
    <3>2. ASSUME NEW k \in 1 .. 5
          PROVE  Holds(Regions[k])'
      <4>1. k < region
        <5>1. region \in Nat
          BY <2>1 DEF NInv, Building, ImageInv
        <5> QED
          BY <2>1, <5>1
      <4>2. Holds(Regions[k])
        BY <2>1, <4>1 DEF RegionsInv
      <4> QED
        BY <3>1, <4>2, HoldsSame
    <3> QED
      BY <3>2 DEF RegionsInv
  <2>4. CASE ~KeysAgree
    BY <2>1, <2>2, <2>4 DEF RegionsInv
  <2> QED
    BY <2>3, <2>4
<1>5. ASSUME Same, stage' = stage,
             UNCHANGED region \/ stage = "extractNcch"
      PROVE  RegionsInv'
  <2>1. Same /\ KeysAgree' = KeysAgree
    BY <1>5 DEF KeysAgree
  <2>2. ASSUME NEW k \in 1 .. 5,
               \/ stage' = "createNcch" /\ k < region'
               \/ stage' = "extractNcch" /\ KeysAgree'
        PROVE  Holds(Regions[k])'
    <3>1. Holds(Regions[k])
      BY <1>5, <2>1, <2>2 DEF RegionsInv
    <3> QED
      BY <2>1, <3>1, HoldsSame
  <2> QED
    BY <2>2 DEF RegionsInv
<1>6. CASE (ExtractRegion \/ ExtractExeFs) /\ stage = "extractNcch" /\ stage' = stage
  <2>1. Same
    BY <1>6 DEF ExtractRegion, ExtractExeFs
  <2> QED
    BY <1>5, <1>6, <2>1
<1>7. CASE ExtractNcchDone
    BY <1>7 DEF ExtractNcchDone, RegionsInv
<1>8. CASE UNCHANGED titleVars
  <2>1. Same /\ UNCHANGED <<stage, region>>
    BY <1>8 DEF titleVars, exeFsVars, ncchVars
  <2> QED
    BY <1>5, <2>1
<1> QED
    BY <1>1, <1>2, <1>3, <1>4, <1>6, <1>7, <1>8, Stages

LEMMA ImageKeptStep == IInv /\ NInv /\ ImageKept /\ [TitleNext]_titleVars => ImageKept'
<1> SUFFICES ASSUME IInv, NInv, ImageKept, [TitleNext]_titleVars,
                    stage' = "extractNcch"
             PROVE  ImageKept'
    BY DEF ImageKept
<1> DEFINE Same == UNCHANGED <<superBlock, exeFile, header, image>>
<1>1. ASSUME Same, header \in Header, IsSeq(image),
             superBlock \in [Sections -> Section], exeFile \in Seq(Byte),
             \A i \in Sections : Described(i)
      PROVE  ImageKept'
    BY <1>1 DEF ImageKept, IsSeq, Described, SectionBytes, InOrder
<1>2. CASE CreateNcchDone
  <2>1. Same /\ stage = "createNcch" /\ region > 5
    BY <1>2, RegionFacts DEF CreateNcchDone
  <2>2. header \in Header /\ IsSeq(image)
    BY <2>1 DEF NInv, Building, ImageInv
  <2>3. /\ superBlock \in [Sections -> Section] /\ exeFile \in Seq(Byte)
        /\ \A i \in Sections : Described(i)
    BY <2>1 DEF IInv, Building, BlockType, Complete
  <2> QED
    BY <1>1, <2>1, <2>2, <2>3
<1>3. CASE (ExtractRegion \/ ExtractExeFs) /\ stage = "extractNcch"
  <2>1. Same
    BY <1>3 DEF ExtractRegion, ExtractExeFs
  <2> QED
    BY <1>1, <1>3, <2>1 DEF ImageKept
<1>4. CASE UNCHANGED titleVars
  <2>1. Same /\ stage = "extractNcch"
    BY <1>4 DEF titleVars, exeFsVars, ncchVars
  <2> QED
    BY <1>1, <2>1 DEF ImageKept
<1>5. ~FillStep
    <2>1. ASSUME FillStep PROVE FALSE
      <3>1. Filling /\ stage' = stage
        BY <2>1, FillStepFills, FillStepKeeps
      <3> QED
        BY <3>1 DEF Filling
    <2> QED
      BY <2>1
<1>6. ~CreateNcchHeader
    BY DEF CreateNcchHeader
<1> QED
    BY <1>2, <1>3, <1>4, <1>5, <1>6, Stages

-----------------------------------------------------------------------------
(* From the image to the extracted regions *)

LEMMA BeginPiece ==
    ASSUME NEW plain, IsSeq(plain), NEW bytes, BeginsWith(bytes, plain),
           NEW from \in Nat \ {0}, NEW to \in Nat, to <= Len(plain)
    PROVE  SubSeq(bytes, from, to) = SubSeq(plain, from, to) /\ to <= Len(bytes)
<1>1. PICK S : plain \in Seq(S) /\ bytes \in Seq(S)
  <2>1. PICK P : plain \in Seq(P)
    BY DEF IsSeq
  <2>2. PICK B : bytes \in Seq(B)
    BY DEF BeginsWith, IsSeq
  <2> DEFINE S == P \cup B
  <2>3. plain \in Seq(S) /\ bytes \in Seq(S)
    BY <2>1, <2>2
  <2> QED
    BY <2>3
<1>2. Len(plain) \in Nat /\ Len(bytes) \in Nat
    BY <1>1, LenProperties
<1>3. to <= Len(bytes) /\ \A k \in 1 .. to : bytes[k] = plain[k]
    BY <1>2 DEF BeginsWith
<1> QED
    BY <1>1, <1>3, SamePiece

LEMMA ClearStart ==
    ASSUME NEW plain \in Seq(Byte), NEW bytes, BeginsWith(bytes, plain),
           NEW n \in Nat, n <= Len(plain)
    PROVE  IsClear(SubSeq(bytes, 1, n))
<1> DEFINE start == SubSeq(plain, 1, n)
<1>1. SubSeq(bytes, 1, n) = start
    BY BeginPiece DEF IsSeq
<1>2. \A k \in 1 .. n : plain[k] \in Byte
    BY ElementOfSeq, LenProperties
<1>3. start \in Seq(Byte)
    BY <1>2, SubSeqProperties
<1> HIDE DEF start
<1>4. \A k \in DOMAIN start : start[k] \in Byte
    BY <1>3, LenProperties, ElementOfSeq
<1> QED
    BY <1>1, <1>4 DEF IsClear, Byte

LEMMA RegionRead ==
    ASSUME stage = "extractNcch", SectionsInv, NInv, ImageKept,
           NEW r \in RegionNames, RegionSize(header, r) # 0
    PROVE  /\ IsSeq(RegionBytes(r)) /\ Len(RegionBytes(r)) = RegionSize(header, r)
           /\ RegionBytes(r) # << >>
           /\ \A i \in 1 .. RegionSize(header, r) :
                  RegionBytes(r)[i] = image[RegionOffset(header, r) + i]
<1> DEFINE o == RegionOffset(header, r)
           n == RegionSize(header, r)
           bytes == SubSeq(image, o + 1, o + n)
<1>1. header \in Header /\ IsSeq(image) /\ title \in Titles
    BY DEF ImageKept, SectionsInv
<1>2. o \in Nat /\ n \in Nat /\ n # 0
    BY <1>1, RegionPlaces
<1>3. o + n <= Len(image)
  <2>1. r \in DOMAIN header.at
    BY <1>1 DEF Header
  <2> QED
    BY <2>1 DEF NInv, HeaderDescribesImage, Present
<1> HIDE DEF o, n
<1>4. PICK S : image \in Seq(S)
    BY <1>1 DEF IsSeq
<1>5. \A i \in o + 1 .. o + n : image[i] \in S
    BY <1>2, <1>3, <1>4, LenProperties, ElementOfSeq
<1>6. /\ bytes \in Seq(S) /\ Len(bytes) = n
      /\ \A i \in 1 .. n : bytes[i] = image[o + i]
  <2>1. /\ bytes \in Seq(S)
        /\ Len(bytes) = IF o + 1 <= o + n THEN (o + n) - (o + 1) + 1 ELSE 0
        /\ \A i \in 1 .. (o + n) - (o + 1) + 1 : bytes[i] = image[(o + 1) + i - 1]
    BY <1>2, <1>5, SubSeqProperties
  <2> HIDE DEF bytes
  <2>2. (o + n) - (o + 1) + 1 = n /\ o + 1 <= o + n
    BY <1>2
  <2>3. \A i \in 1 .. n : (o + 1) + i - 1 = o + i
    BY <1>2
  <2> QED
    BY <2>1, <2>2, <2>3
<1>7. bytes # << >>
    BY <1>2, <1>6
<1>8. RegionBytes(r) = bytes
    BY DEF RegionBytes, o, n
<1> QED
    BY <1>6, <1>7, <1>8 DEF IsSeq, o, n

LEMMA RegionHeld ==
    ASSUME stage = "extractNcch", SectionsInv, NInv, ImageKept, RegionsInv, KeysAgree,
           NEW r \in RegionNames, RegionSize(header, r) # 0
    PROVE  /\ RegionFile(r) \in Seq(Byte) /\ Known(r)
           /\ BeginsWith(RegionBytes(r), Stored(header, r))
<1>1. Holds(r)
    BY RegionFacts DEF RegionsInv
<1>2. RegionSize(header, r) \in Nat /\ RegionFile(r) \in Seq(Byte)
    BY <1>1, RegionPlaces DEF Holds, ImageKept, SectionsInv
<1>3. /\ Len(Stored(header, r)) = Len(RegionFile(r))
      /\ Len(RegionFile(r)) <= RegionSize(header, r) /\ Known(r)
      /\ \A k \in 1 .. Len(Stored(header, r)) :
             image[RegionOffset(header, r) + k] = Stored(header, r)[k]
    BY <1>1 DEF Holds, Shades, StandAt
<1>4. Len(RegionFile(r)) \in Nat
    BY <1>2, LenProperties
<1> QED
    BY <1>2, <1>3, <1>4, RegionRead DEF BeginsWith

LEMMA AllExtractedStep ==
    IInv /\ NInv /\ SectionsInv /\ ImageKept /\ AllExtracted /\ [TitleNext]_titleVars
        => AllExtracted'
<1> SUFFICES ASSUME IInv, NInv, SectionsInv, ImageKept, AllExtracted,
                    [TitleNext]_titleVars
             PROVE  AllExtracted'
    OBVIOUS
<1>1. CASE /\ UNCHANGED extracted /\ Building /\ stage' # "extractNcch"
    BY <1>1 DEF AllExtracted
<1>2. CASE CreateNcchDone
  <2>1. /\ Building /\ stage' = "extractNcch" /\ region' = 1 /\ extracted' = extracted
    BY <1>2 DEF CreateNcchDone, Building
  <2>2. \A k \in 1 .. 5 : ~(k < 1)
    OBVIOUS
  <2> QED
    BY <2>1, <2>2 DEF AllExtracted, Building
<1>3. ASSUME stage = "extractNcch", UNCHANGED <<title, stage, header>>,
             region \in 1 .. 5, region' = region + 1,
             \/ UNCHANGED extracted /\ RegionSize(header, Regions[region]) = 0
             \/ DOMAIN extracted' = DOMAIN extracted \cup {Regions[region]}
      PROVE  AllExtracted'
  <2>1. region' \in 1 .. 6 /\ ~Building' /\ Regions[region] \in RegionNames
    BY <1>3, RegionFacts DEF Building
  <2>2. ASSUME NEW k \in 1 .. 5, k < region', RegionSize(header, Regions[k])' # 0
        PROVE  Regions[k] \in DOMAIN extracted'
    <3>1. RegionSize(header, Regions[k]) # 0
      BY <1>3, <2>2, SamePlaces
    <3>2. k < region \/ k = region
      BY <1>3, <2>2
    <3> QED
      BY <1>3, <3>1, <3>2 DEF AllExtracted
  <2> QED
    BY <1>3, <2>1, <2>2 DEF AllExtracted
<1>4. CASE ExtractRegion
    BY <1>3, <1>4 DEF ExtractRegion, Extracted
<1>5. CASE ExtractExeFs
  <2>1. Regions[4] = "exefs" /\ "exefs" \in RegionNames
    BY DEF Regions, RegionNames
  <2>2. RegionSize(header, "exefs") # 0 => RegionBytes("exefs") # << >>
    BY <1>5, <2>1, RegionRead DEF ExtractExeFs
  <2> QED
    BY <1>3, <1>5, <2>1, <2>2 DEF ExtractExeFs, Extracted
<1>6. CASE stage' \in {"extractExeFs", "end"}
    BY <1>6 DEF AllExtracted, Building
<1>7. CASE UNCHANGED titleVars
  <2>1. UNCHANGED <<title, stage, region, header, extracted>>
    BY <1>7 DEF titleVars, exeFsVars, ncchVars
  <2>2. \A k \in 1 .. 5 :
            RegionSize(header, Regions[k])' = RegionSize(header, Regions[k])
    BY <2>1, SamePlaces
  <2> QED
    BY <2>1, <2>2 DEF AllExtracted, Building
<1>8. CASE FillStep
  <2>1. Filling /\ UNCHANGED <<stage, extracted>>
    BY <1>8, FillStepFills, FillStepKeeps
  <2> QED
    BY <1>1, <2>1 DEF Filling, Building
<1>9. CASE CreateNcchHeader
    BY <1>1, <1>9 DEF CreateNcchHeader, Building
<1>10. CASE ExeFsNext /\ UNCHANGED ncchVars /\ stage = "createExeFs"
           /\ stage' \in {"createExeFs", "createNcch"}
    BY <1>1, <1>10 DEF ncchVars, Building
<1> QED
    BY <1>2, <1>4, <1>5, <1>6, <1>7, <1>8, <1>9, <1>10, Stages

LEMMA GivenStep ==
    ASSUME UNCHANGED <<title, superBlock, exeFile, mode, keys, header>>, NEW r,
           RegionFile(r) \in Seq(Byte), Known(r), BeginsWith(extracted'[r], RegionFile(r))
    PROVE  Given(r)'
<1>1. RegionFile(r)' = RegionFile(r) /\ Known(r)' = Known(r)
    BY SameStored
<1>2. BeginsWith(extracted'[r], RegionFile(r)')
    BY <1>1
<1>3. BeginsWith(extracted[r], RegionFile(r))'
    BY <1>2 DEF BeginsWith, IsSeq
<1> QED
    BY <1>1, <1>3 DEF Given

LEMMA RegionGiven ==
    ASSUME IInv, NInv, SectionsInv, ImageKept, RegionsInv, ExtractRegion, KeysAgree,
           NEW r, r = Regions[region], RegionSize(header, r) # 0
    PROVE  Given(r)'
<1> DEFINE counter == Counter(header, r)
           key == IF r = "romfs" THEN keys.new ELSE keys.old
<1>1. r \in RegionNames /\ r # "exefs" /\ stage = "extractNcch"
    BY RegionFacts DEF ExtractRegion
<1>3. /\ RegionFile(r) \in Seq(Byte) /\ Known(r)
      /\ BeginsWith(RegionBytes(r), Stored(header, r))
    BY <1>1, RegionHeld
<1>4. extracted'[r] = IF r \in {"logo", "plain"} \/ mode = "NotEncrypt"
                      THEN RegionBytes(r)
                      ELSE Crypted(RegionBytes(r), key, counter, 0)
    BY DEF ExtractRegion, Extracted
<1>5. BeginsWith(extracted'[r], RegionFile(r))
  <2>1. CASE r \in {"logo", "plain"} \/ mode = "NotEncrypt"
    BY <1>3, <1>4, <2>1 DEF Stored
  <2>2. CASE ~(r \in {"logo", "plain"} \/ mode = "NotEncrypt")
    <3>1. Stored(header, r) = Crypted(RegionFile(r), key, counter, 0)
      BY <1>1, <2>2 DEF Stored
    <3> HIDE DEF key, counter
    <3>2. BeginsWith(Crypted(RegionBytes(r), key, counter, 0), RegionFile(r))
      BY <1>3, <3>1, CryptedBack
    <3> QED
      BY <1>4, <2>2, <3>2
  <2> QED
    BY <2>1, <2>2
<1>6. UNCHANGED <<title, superBlock, exeFile, mode, keys, header>>
    BY DEF ExtractRegion
<1> QED
    BY <1>3, <1>5, <1>6, GivenStep

LEMMA ExeFsGiven ==
    ASSUME IInv, NInv, SectionsInv, ImageKept, RegionsInv, ExtractExeFs, KeysAgree,
           RegionSize(header, "exefs") # 0
    PROVE  Given("exefs")'
<1> DEFINE bytes == RegionBytes("exefs")
           plain == ExeFsBytes
           n == superBlock[1].size
           counter == Counter(header, "exefs")
           clear == IF mode = "NotEncrypt" THEN bytes
                    ELSE ExeFsCrypted(bytes, n, counter)
<1>1. stage = "extractNcch" /\ "exefs" \in RegionNames
    BY DEF ExtractExeFs, RegionNames
<1>2. /\ RegionFile("exefs") = plain /\ Known("exefs") /\ bytes # << >>
      /\ BeginsWith(bytes, Stored(header, "exefs"))
    BY <1>1, RegionHeld, RegionRead DEF RegionFile
<1>3. title.exeFsHeader
    BY <1>2 DEF Known
<1>4. Described(1)
  <2>1. 1 \in Sections
    BY SizeFacts DEF Sections
  <2> QED
    BY <1>1, <2>1 DEF ImageKept
<1>5. /\ n \in Nat /\ plain \in Seq(Byte) /\ SuperBlockSize + n <= Len(plain)
    BY <1>1, <1>3, <1>4, FirstSection DEF ImageKept
<1>6. BeginsWith(clear, plain)
  <2>1. CASE mode = "NotEncrypt"
    BY <1>2, <2>1 DEF Stored
  <2>2. CASE mode # "NotEncrypt"
    <3>1. Stored(header, "exefs") = ExeFsCrypted(plain, n, counter)
      BY <1>2, <2>2 DEF Stored
    <3> HIDE DEF plain, n, counter, bytes
    <3>2. BeginsWith(ExeFsCrypted(bytes, n, counter), plain)
      BY <1>2, <1>5, <3>1, ExeFsCryptedBack
    <3> QED
      BY <2>2, <3>2
  <2> QED
    BY <2>1, <2>2
<1>7. extracted'["exefs"] = IF IsClear(SubSeq(clear, 1, SuperBlockSize))
                            THEN clear ELSE bytes
    BY <1>2 DEF ExtractExeFs, Extracted
<1> HIDE DEF clear, plain, n, bytes
<1>8. IsClear(SubSeq(clear, 1, SuperBlockSize))
  <2>1. SuperBlockSize \in Nat /\ SuperBlockSize <= Len(plain)
    BY <1>5, SizeFacts, LenProperties
  <2> QED
    BY <1>5, <1>6, <2>1, ClearStart
<1>9. UNCHANGED <<title, superBlock, exeFile, mode, keys, header>>
    BY DEF ExtractExeFs
<1> QED
    BY <1>2, <1>5, <1>6, <1>7, <1>8, <1>9, GivenStep

LEMMA ExtractedStep ==
    ASSUME IInv, NInv, SectionsInv, ImageKept, RegionsInv, AllExtracted,
           ExtractedInv, [TitleNext]_titleVars
    PROVE  ExtractedInv'
<1> SUFFICES ASSUME stage' = "extractNcch", KeysAgree'
             PROVE  ExtractedInv'
    BY DEF ExtractedInv
<1> DEFINE Same == UNCHANGED <<title, superBlock, exeFile, mode, keys, header>>
<1>1. CASE CreateNcchDone
  <2>1. Building /\ extracted' = extracted
    BY <1>1 DEF CreateNcchDone, Building
  <2> QED
    BY <2>1 DEF AllExtracted, ExtractedInv
<1>2. ASSUME Same, stage = "extractNcch", NEW r \in DOMAIN extracted,
             extracted'[r] = extracted[r]
      PROVE  Given(r)'
  <2>1. KeysAgree
    BY <1>2 DEF KeysAgree
  <2>2. Given(r)
    BY <1>2, <2>1 DEF ExtractedInv
  <2> QED
    BY <1>2, <2>2, GivenStep DEF Given
<1>3. ASSUME Same, stage = "extractNcch", NEW q, NEW bytes, Extracted(q, bytes),
             Given(q)'
      PROVE  ExtractedInv'
  <2>1. ASSUME NEW r \in DOMAIN extracted'
        PROVE  Given(r)'
    <3>1. CASE r = q
      BY <1>3, <3>1
    <3>2. CASE r # q
      <4>1. r \in DOMAIN extracted /\ extracted'[r] = extracted[r]
        BY <1>3, <2>1, <3>2 DEF Extracted
      <4> QED
        BY <1>2, <1>3, <4>1
    <3> QED
      BY <3>1, <3>2
  <2> QED
    BY <2>1 DEF ExtractedInv
<1>4. ASSUME Same, stage = "extractNcch", UNCHANGED extracted
      PROVE  ExtractedInv'
  <2>1. \A r \in DOMAIN extracted' : Given(r)'
    BY <1>2, <1>4
  <2> QED
    BY <2>1 DEF ExtractedInv
<1>5. CASE ExtractRegion
  <2>1. Same /\ stage = "extractNcch" /\ KeysAgree
    BY <1>5 DEF ExtractRegion, KeysAgree
  <2>2. PICK q : q = Regions[region]
    OBVIOUS
  <2>3. CASE RegionSize(header, q) = 0
    BY <1>4, <1>5, <2>1, <2>2, <2>3 DEF ExtractRegion
  <2>4. CASE RegionSize(header, q) # 0
    <3>1. Given(q)'
      BY <1>5, <2>1, <2>2, <2>4, RegionGiven
    <3>2. \E bytes : Extracted(q, bytes)
      BY <1>5, <2>2, <2>4 DEF ExtractRegion
    <3> QED
      BY <1>3, <2>1, <3>1, <3>2
  <2> QED
    BY <2>3, <2>4
<1>6. CASE ExtractExeFs
  <2>1. Same /\ stage = "extractNcch" /\ KeysAgree
    BY <1>6 DEF ExtractExeFs, KeysAgree
  <2>2. CASE RegionBytes("exefs") = << >>
    BY <1>4, <1>6, <2>1, <2>2 DEF ExtractExeFs
  <2>3. CASE RegionBytes("exefs") # << >>
    <3>1. RegionSize(header, "exefs") # 0
      <4>1. ASSUME RegionSize(header, "exefs") = 0
            PROVE  RegionBytes("exefs") = << >>
        <5>1. RegionOffset(header, "exefs") \in Nat
          BY <2>1, RegionPlaces DEF SectionsInv, ImageKept, RegionNames
        <5> QED
          BY <4>1, <5>1, SubSeqEmpty DEF RegionBytes
      <4> QED
        BY <2>3, <4>1
    <3>2. Given("exefs")'
      BY <1>6, <2>1, <3>1, ExeFsGiven
    <3>3. \E bytes : Extracted("exefs", bytes)
      BY <1>6, <2>3 DEF ExtractExeFs
    <3> QED
      BY <1>3, <2>1, <3>2, <3>3
  <2> QED
    BY <2>2, <2>3
<1>7. CASE UNCHANGED titleVars
  <2>1. Same /\ stage = "extractNcch" /\ UNCHANGED extracted
    BY <1>7 DEF titleVars, exeFsVars, ncchVars
  <2> QED
    BY <1>4, <2>1
<1>8. ~FillStep
  <2>1. ASSUME FillStep PROVE FALSE
    <3>1. Filling /\ stage' = stage
      BY <2>1, FillStepFills, FillStepKeeps
    <3> QED
      BY <3>1 DEF Filling
  <2> QED
    BY <2>1
<1>9. ~CreateNcchHeader
    BY DEF CreateNcchHeader
<1> QED
    BY <1>1, <1>5, <1>6, <1>7, <1>8, <1>9, Stages

-----------------------------------------------------------------------------
(* From the extracted regions to the files *)

(* A file of which all is there has its bytes at the start. *)
LEMMA WholeFile ==
    ASSUME NEW path \in Texts, NEW n \in Nat, NEW bytes,
           BeginsWith(bytes, FileBytes(path, n))
    PROVE  Len(bytes) >= n /\ SubSeq(bytes, 1, n) = FileBytes(path, n)
<1> DEFINE plain == FileBytes(path, n)
<1>1. plain \in Seq(Byte) /\ Len(plain) = n
    BY FileBytesType
<1> HIDE DEF plain
<1>2. IsSeq(plain) /\ BeginsWith(bytes, plain)
    BY <1>1 DEF IsSeq, plain
<1>3. SubSeq(bytes, 1, n) = SubSeq(plain, 1, n) /\ n <= Len(bytes)
    BY <1>1, <1>2, BeginPiece
<1>4. SubSeq(plain, 1, n) = plain
  <2>1. \A k \in 1 .. n : plain[k] \in Byte
    BY <1>1, ElementOfSeq
  <2> DEFINE part == SubSeq(plain, 1, n)
  <2>2. /\ part \in Seq(Byte) /\ Len(part) = IF 1 <= n THEN n - 1 + 1 ELSE 0
        /\ \A k \in 1 .. n - 1 + 1 : part[k] = plain[1 + k - 1]
    BY <2>1, SubSeqProperties
  <2> HIDE DEF part
  <2>3. Len(part) = Len(plain) /\ \A k \in 1 .. Len(part) : part[k] = plain[k]
    BY <1>1, <2>2
  <2>4. part = plain
    BY <1>1, <2>2, <2>3, SeqEqual
  <2> QED
    BY <2>4 DEF part
<1>5. Len(bytes) >= n
    BY <1>2, <1>3 DEF BeginsWith, IsSeq
<1> QED
    BY <1>3, <1>4, <1>5 DEF plain

LEMMA RegionWhole ==
    ASSUME NEW r \in RegionNames, r # "exefs", Given(r)
    PROVE  Whole(r)
<1>1. RegionFile(r) = FileBytes(r, FileSize(r)) /\ FileSize(r) \in Nat
    BY DEF Given, RegionFile, Known
<1>2. r \in Texts
    BY DEF RegionNames, Texts
<1> QED
    BY <1>1, <1>2, WholeFile DEF Given, Whole

LEMMA BeginBehind ==
    ASSUME NEW head \in Seq(Byte), NEW rest \in Seq(Byte), NEW bytes,
           BeginsWith(bytes, head \o rest)
    PROVE  BeginsWith(SubSeq(bytes, Len(head) + 1, Len(bytes)), rest)
<1> DEFINE b == Len(head)
           n == Len(rest)
           size == Len(bytes)
           both == head \o rest
           part == SubSeq(bytes, b + 1, size)
<1>1. PICK S : bytes \in Seq(S)
    BY DEF BeginsWith, IsSeq
<1>2. b \in Nat /\ n \in Nat /\ size \in Nat
    BY <1>1, LenProperties
<1>3. Len(both) = b + n /\ \A k \in 1 .. b + n : both[k] = IF k <= b THEN head[k]
                                                          ELSE rest[k - b]
    BY ConcatProperties
<1>4. Len(both) <= size /\ \A k \in 1 .. Len(both) : bytes[k] = both[k]
    BY DEF BeginsWith
<1>5. \A k \in b + 1 .. size : bytes[k] \in S
    BY <1>1, <1>2, ElementOfSeq
<1> HIDE DEF b, n, size, both
<1>6. /\ part \in Seq(S) /\ Len(part) = IF b + 1 <= size THEN size - (b + 1) + 1 ELSE 0
      /\ \A k \in 1 .. size - (b + 1) + 1 : part[k] = bytes[(b + 1) + k - 1]
    BY <1>2, <1>5, SubSeqProperties
<1> HIDE DEF part
<1>7. n <= Len(part)
    BY <1>2, <1>3, <1>4, <1>6
<1>8. ASSUME NEW k \in 1 .. n
      PROVE  part[k] = rest[k]
  <2>1. /\ k \in 1 .. size - (b + 1) + 1 /\ (b + 1) + k - 1 = b + k
        /\ b + k \in 1 .. b + n /\ ~(b + k <= b) /\ (b + k) - b = k
    BY <1>2, <1>3, <1>4
  <2>2. part[k] = bytes[b + k]
    BY <1>6, <2>1
  <2>3. bytes[b + k] = both[b + k] /\ both[b + k] = rest[k]
    BY <1>3, <1>4, <2>1
  <2> QED
    BY <2>2, <2>3
<1>9. BeginsWith(part, rest)
    BY <1>6, <1>7, <1>8 DEF BeginsWith, IsSeq, n
<1> QED
    BY <1>9 DEF part, b, size

(* The ExeFS that was extracted: what is behind its super block begins with *)
(* the file that CExeFs made, and so has every section of it.               *)
LEMMA SectionBack ==
    ASSUME ImageKept, SectionsInv, stage = "extractNcch", Given("exefs"),
           NEW i \in Sections, superBlock[i].name # NoName
    PROVE  SubSeq(SubSeq(extracted["exefs"], SuperBlockSize + 1, Len(extracted["exefs"])),
                  superBlock[i].offset + 1,
                  superBlock[i].offset + superBlock[i].size) = MadeBytes(i)
<1> DEFINE file == SubSeq(extracted["exefs"], SuperBlockSize + 1,
                          Len(extracted["exefs"]))
           head == FileBytes("superblock", SuperBlockSize)
           from == superBlock[i].offset + 1
           to == superBlock[i].offset + superBlock[i].size
<1>1. title.exeFsHeader /\ exeFile \in Seq(Byte)
    BY DEF Given, Known, ImageKept
<1>2. head \in Seq(Byte) /\ Len(head) = SuperBlockSize
  <2>1. "superblock" \in Texts
    BY DEF Texts
  <2> QED
    BY <2>1, SizeFacts, FileBytesType
<1>3. BeginsWith(extracted["exefs"], head \o exeFile)
    BY <1>1 DEF Given, RegionFile, ExeFsBytes
<1>4. superBlock[i] \in Section /\ Described(i)
    BY DEF ImageKept
<1>5. from \in Nat \ {0} /\ to \in Nat /\ to <= Len(exeFile)
  <2>1. superBlock[i].offset \in Nat /\ superBlock[i].size \in Nat
    BY <1>4 DEF Section
  <2>2. superBlock[i].offset + superBlock[i].size <= Len(exeFile)
    BY <1>4 DEF Described
  <2> QED
    BY <2>1, <2>2
<1>6. SubSeq(exeFile, from, to) = MadeBytes(i)
  <2>1. SubSeq(exeFile, from, to) = superBlock[i].hash
    BY <1>4 DEF Described, SectionBytes
  <2>2. Made(i)
    BY DEF SectionsInv
  <2> QED
    BY <2>1, <2>2 DEF Made
<1> HIDE DEF head, from, to
<1>7. BeginsWith(file, exeFile)
    BY <1>1, <1>2, <1>3, BeginBehind
<1> HIDE DEF file
<1>8. SubSeq(file, from, to) = SubSeq(exeFile, from, to) /\ to <= Len(file)
  <2>1. IsSeq(exeFile)
    BY <1>1 DEF IsSeq
  <2> QED
    BY <1>5, <1>7, <2>1, BeginPiece
<1> QED
    BY <1>6, <1>8 DEF from, to, file

LEMMA WholeSame ==
    ASSUME UNCHANGED <<title, extracted>>, NEW r, Whole(r)
    PROVE  Whole(r)'
BY DEF Whole, FileSize, Size, FileBytes

LEMMA RegionsBackStep ==
    ASSUME IInv, NInv, SectionsInv, ImageKept, AllExtracted, ExtractedInv, RegionsBack,
           [TitleNext]_titleVars
    PROVE  RegionsBack'
<1> SUFFICES ASSUME Unpacking'
             PROVE  RegionsBack'
    BY DEF RegionsBack
<1>1. CASE CreateNcchHeader
  <2>1. extracted' = extracted /\ Building
    BY <1>1 DEF CreateNcchHeader, Building
  <2>2. DOMAIN extracted' = {}
    BY <2>1 DEF AllExtracted
  <2>3. stage' = "end" => region' = 0
    BY <1>1 DEF CreateNcchHeader
  <2>4. stage' # "extractExeFs"
    BY <1>1 DEF CreateNcchHeader
  <2>5. ~(region' > Len(Regions))
    BY <2>3, <2>4, RegionFacts DEF Unpacking
  <2> QED
    BY <2>2, <2>5 DEF RegionsBack
<1>2. CASE ExtractNcchDone
  <2>1. /\ stage = "extractNcch" /\ region > 5
        /\ UNCHANGED <<title, header, region, extracted>>
    BY <1>2, RegionFacts DEF ExtractNcchDone, ncchVars
  <2>2. KeysAgree
    BY <2>1 DEF KeysAgree, Unpacking
  <2>3. ASSUME NEW r \in DOMAIN extracted' \ {"exefs"}
        PROVE  Whole(r)'
    <3>1. r \in RegionNames /\ Given(r)
      BY <2>1, <2>2 DEF AllExtracted, ExtractedInv
    <3> QED
      BY <2>1, <3>1, RegionWhole, WholeSame
  <2>4. ASSUME NEW r \in DOMAIN header'.at, RegionSize(header, r)' # 0
        PROVE  r \in DOMAIN extracted'
    <3>1. RegionSize(header, r) # 0
      BY <2>1, <2>4, SamePlaces
    <3>2. r \in RegionNames
      BY <2>1 DEF ImageKept, Header
    <3>3. PICK k \in 1 .. 5 : r = Regions[k]
      BY <3>2, RegionFacts
    <3>4. k < region
      BY <2>1 DEF AllExtracted
    <3> QED
      BY <2>1, <3>1, <3>3, <3>4 DEF AllExtracted
  <2> QED
    BY <2>3, <2>4 DEF RegionsBack
<1>3. CASE stage \in {"extractExeFs", "end"} /\ UNCHANGED <<title, header, region, extracted>>
  <2>1. Unpacking
    BY <1>3 DEF Unpacking, KeysAgree
  <2>2. \A r \in DOMAIN extracted' \ {"exefs"} : Whole(r)'
    BY <1>3, <2>1, WholeSame DEF RegionsBack
  <2>3. \A r : RegionSize(header, r)' = RegionSize(header, r)
    BY <1>3, SamePlaces
  <2> QED
    BY <1>3, <2>1, <2>2, <2>3 DEF RegionsBack
<1>4. CASE /\ ExeFsNext /\ UNCHANGED ncchVars /\ stage = "extractExeFs"
  <2>1. UNCHANGED <<title, header, region, extracted>>
    BY <1>4 DEF ncchVars, ExeFsNext, ExeFsCreateHeader, SkipSection, ClearSection,
        CreatingSection, CreateSection, CreateExeFsDone, ExtractSection,
        ExtractExeFsDone
  <2> QED
    BY <1>3, <1>4, <2>1
<1>5. CASE UNCHANGED titleVars
  <2>1. UNCHANGED <<title, stage, header, region, extracted>>
    BY <1>5 DEF titleVars, exeFsVars, ncchVars
  <2> QED
    BY <1>3, <2>1 DEF Unpacking
<1>6. FillStep => stage' = "createNcch"
  <2>1. ASSUME FillStep PROVE stage' = "createNcch"
    <3>1. Filling /\ stage' = stage
      BY <2>1, FillStepFills, FillStepKeeps
    <3> QED
      BY <3>1 DEF Filling
  <2> QED
    BY <2>1
<1>7. stage' \in {"extractExeFs", "end"}
    BY DEF Unpacking
<1> QED
    BY <1>1, <1>2, <1>4, <1>5, <1>6, <1>7, Stages

LEMMA PackedByte ==
    ASSUME NEW b \in Byte, NEW c \in Byte, NEW k, c.at = k,
           b.of = c.of, b.packed = TRUE, c.packed = TRUE
    PROVE  c = [b EXCEPT !.packed = TRUE, !.at = k, !.under = {}]
BY DEF Byte

(* What was made smaller is told from what was not. *)
LEMMA PackedIsPacked ==
    ASSUME NEW path \in Texts, NEW n \in Nat, n > 1
    PROVE  Len(PackedBytes(path, n)) + 1 = n /\ IsPacked(PackedBytes(path, n))
<1> DEFINE bytes == PackedBytes(path, n)
<1>1. bytes \in Seq(Byte)
    BY PackedBytesType
<1>2. DOMAIN bytes = 1 .. n - 1
    BY DEF PackedBytes
<1>3. Len(bytes) = n - 1
    BY <1>1, <1>2, LenProperties
<1>4. ASSUME NEW k \in 1 .. n - 1
      PROVE  bytes[k].of = path /\ bytes[k].at = k /\ bytes[k].packed = TRUE
    BY DEF PackedBytes
<1> HIDE DEF bytes
<1>5. ASSUME NEW k \in 1 .. n - 1
      PROVE  bytes[k] \in Byte
    BY <1>1, <1>3, ElementOfSeq
<1>6. 1 \in 1 .. n - 1 /\ bytes # << >>
    BY <1>3
<1>7. ASSUME NEW k \in 1 .. n - 1
      PROVE  bytes[k] = [bytes[1] EXCEPT !.packed = TRUE, !.at = k, !.under = {}]
  <2>1. /\ bytes[1] \in Byte /\ bytes[1].of = path /\ bytes[1].packed = TRUE
        /\ bytes[k] \in Byte /\ bytes[k].of = path /\ bytes[k].packed = TRUE
        /\ bytes[k].at = k
    BY <1>4, <1>5, <1>6
  <2> DEFINE b == bytes[1]
             c == bytes[k]
  <2>2. /\ b \in Byte /\ c \in Byte /\ c.at = k /\ b.of = c.of
        /\ b.packed = TRUE /\ c.packed = TRUE
    BY <2>1
  <2> HIDE DEF b, c
  <2>3. c = [b EXCEPT !.packed = TRUE, !.at = k, !.under = {}]
    BY <2>2, PackedByte
  <2> QED
    BY <2>3 DEF b, c
<1>8. DOMAIN bytes = 1 .. n - 1
    BY <1>2 DEF bytes
<1>9. IsPacked(bytes)
    BY <1>6, <1>7, <1>8 DEF IsPacked
<1>10. Len(bytes) + 1 = n
    BY <1>3
<1> QED
    BY <1>9, <1>10 DEF bytes

LEMMA FileIsNotPacked ==
    ASSUME NEW path \in Texts, NEW n \in Nat
    PROVE  ~IsPacked(FileBytes(path, n))
<1> DEFINE bytes == FileBytes(path, n)
<1>1. bytes \in Seq(Byte)
    BY FileBytesType
<1>2. ASSUME NEW k \in DOMAIN bytes
      PROVE  bytes[k].packed = FALSE
    BY DEF FileBytes
<1> HIDE DEF bytes
<1>3. SUFFICES ASSUME IsPacked(bytes)
               PROVE  FALSE
    BY DEF bytes
<1>4. 1 \in DOMAIN bytes /\ bytes[1] \in Byte
  <2>1. bytes # << >>
    BY <1>3 DEF IsPacked
  <2> QED
    BY <1>1, <2>1
<1>5. bytes[1] = [bytes[1] EXCEPT !.packed = TRUE, !.at = 1, !.under = {}]
    BY <1>3, <1>4 DEF IsPacked
<1> QED
    BY <1>2, <1>4, <1>5 DEF Byte

(* What ExtractFile makes of the bytes of a section: unpacked if it has to *)
(* be and was packed.                                                      *)
LEMMA MadeComesBack ==
    ASSUME SectionsInv, NEW i \in Sections, Made(i), superBlock[i].name # NoName,
           NEW path, path = Path(superBlock[i].name, i),
           NEW unpack, unpack = (IsTopSection(superBlock[i].name, i) /\ title.uncompress),
           NEW bytes, bytes = MadeBytes(i)
    PROVE  (IF unpack /\ IsPacked(bytes) THEN FileBytes(path, Len(bytes) + 1) ELSE bytes)
               = ComesBack(i)
<1> DEFINE n == title.dir[path]
           top == IsTopSection(superBlock[i].name, i)
<1>1. n \in Nat /\ path \in STRING
    BY ExeFsAssumption DEF SectionsInv, Made
<1>2. path \in Texts
    BY <1>1 DEF Texts
<1>3. CASE top /\ title.compress /\ n >= PackableSize
  <2>1. bytes = PackedBytes(path, n) /\ n > 1
    BY <1>1, <1>3, SizeFacts, TitleAssumption DEF MadeBytes
  <2> HIDE DEF n
  <2>2. IsPacked(bytes) /\ Len(bytes) + 1 = n
    BY <1>1, <1>2, <2>1, PackedIsPacked
  <2> QED
    BY <1>3, <2>1, <2>2 DEF ComesBack, n
<1>4. CASE ~(top /\ title.compress /\ n >= PackableSize)
  <2>1. bytes = FileBytes(path, n)
    BY <1>4 DEF MadeBytes
  <2>2. ~IsPacked(bytes)
    BY <1>1, <1>2, <2>1, FileIsNotPacked
  <2> QED
    BY <1>4, <2>1, <2>2 DEF ComesBack
<1> QED
    BY <1>3, <1>4

(* Two sections of one name come from one file, and both as it was. *)
LEMMA SamePath ==
    ASSUME SectionsInv, NEW i \in Sections, NEW j \in Sections, i < j,
           Path(superBlock[i].name, i) = Path(superBlock[j].name, j)
    PROVE  ComesBack(i) = ComesBack(j)
<1>1. j # 1
    BY SizeFacts DEF Sections
<1>2. ~IsTopSection(superBlock[j].name, j) /\ superBlock[j].name # "code"
    BY <1>1 DEF IsTopSection, SectionsInv
<1>3. ~IsTopSection(superBlock[i].name, i)
    BY <1>2 DEF Path
<1> QED
    BY <1>2, <1>3 DEF ComesBack

LEMMA BackSame ==
    ASSUME UNCHANGED <<title, superBlock>>, NEW i
    PROVE  ComesBack(i)' = ComesBack(i) /\ MadeBytes(i)' = MadeBytes(i)
BY DEF ComesBack, MadeBytes, PackedBytes, FileBytes, Path, IsTopSection

LEMMA UnpackStep ==
    ASSUME SectionsInv, SectionsBack, ExtractSection, Unpacking
    PROVE  \A i \in Sections : "exefs" \in DOMAIN extracted /\ i < section' => Back(i)'
<1> DEFINE name == superBlock[section].name
           path == Path(name, section)
           bytes == SectionBytes(section)
           unpack == IsTopSection(name, section) /\ title.uncompress
           out == IF unpack /\ IsPacked(bytes) THEN FileBytes(path, Len(bytes) + 1)
                  ELSE bytes
<1>1. /\ stage = "extractExeFs" /\ section \in Sections /\ section' = section + 1
      /\ UNCHANGED <<title, superBlock>>
    BY DEF ExtractSection
<1>2. ASSUME NEW i \in Sections, "exefs" \in DOMAIN extracted, i < section'
      PROVE  i = section \/ (i < section /\ Back(i))
    BY <1>1, <1>2, SizeFacts DEF Sections, SectionsBack
<1>3. ASSUME NEW i
      PROVE  /\ Path(superBlock[i].name, i)' = Path(superBlock[i].name, i)
             /\ ComesBack(i)' = ComesBack(i) /\ superBlock'[i] = superBlock[i]
    BY <1>1, BackSame DEF Path, IsTopSection
<1>4. CASE name = NoName
  <2>1. outDir' = outDir
    BY <1>4 DEF ExtractSection
  <2>2. ASSUME NEW i \in Sections, "exefs" \in DOMAIN extracted, i < section'
        PROVE  Back(i)'
    <3>1. Back(i)
      BY <1>2, <1>4, <2>2 DEF Back
    <3> QED
      BY <1>3, <2>1, <3>1 DEF Back
  <2> QED
    BY <2>2
<1>5. CASE name # NoName
  <2>1. outDir' = [p \in DOMAIN outDir \cup {path} |-> IF p # path THEN outDir[p] ELSE out]
    BY <1>5 DEF ExtractSection
  <2>2. out = ComesBack(section)
    <3>1. bytes = MadeBytes(section)
      BY <1>1, <1>5 DEF SectionsBack
    <3>2. Made(section)
      BY <1>1 DEF SectionsInv
    <3> HIDE DEF bytes, path, unpack
    <3>3. path = Path(superBlock[section].name, section)
          /\ unpack = (IsTopSection(superBlock[section].name, section) /\ title.uncompress)
      BY DEF path, unpack
    <3> QED
      BY <1>1, <1>5, <3>1, <3>2, <3>3, MadeComesBack
  <2> HIDE DEF out
  <2>3. ASSUME NEW i \in Sections, "exefs" \in DOMAIN extracted, i < section',
               superBlock[i].name # NoName
        PROVE  /\ Path(superBlock[i].name, i) \in DOMAIN outDir'
               /\ outDir'[Path(superBlock[i].name, i)] = ComesBack(i)
    <3>1. CASE Path(superBlock[i].name, i) = path
      <4>1. ComesBack(i) = ComesBack(section)
        BY <1>1, <1>2, <2>3, <3>1, SamePath
      <4> QED
        BY <2>1, <2>2, <3>1, <4>1
    <3>2. CASE Path(superBlock[i].name, i) # path
      <4>1. Back(i)
        BY <1>2, <2>3, <3>2
      <4> HIDE DEF path
      <4> QED
        BY <2>1, <2>3, <3>2, <4>1 DEF Back
    <3> QED
      BY <3>1, <3>2
  <2> QED
    BY <1>3, <2>3 DEF Back
<1> QED
    BY <1>4, <1>5

LEMMA SectionsBackStep ==
    ASSUME IInv, NInv, SectionsInv, ImageKept, AllExtracted, ExtractedInv, SectionsBack,
           [TitleNext]_titleVars
    PROVE  SectionsBack'
<1> SUFFICES ASSUME Unpacking'
             PROVE  SectionsBack'
    BY DEF SectionsBack
<1>1. CASE CreateNcchHeader
  <2>1. extracted' = extracted /\ Building /\ stage' # "extractExeFs"
    BY <1>1 DEF CreateNcchHeader, Building
  <2> QED
    BY <2>1 DEF AllExtracted, SectionsBack
<1>2. CASE ExtractNcchDone
  <2>1. /\ stage = "extractNcch"
        /\ UNCHANGED <<title, header, superBlock, extracted>>
    BY <1>2 DEF ExtractNcchDone, ncchVars
  <2>2. KeysAgree
    BY <2>1 DEF KeysAgree, Unpacking
  <2>3. CASE "exefs" \notin DOMAIN extracted
    BY <1>2, <2>1, <2>3 DEF ExtractNcchDone, SectionsBack
  <2>4. CASE "exefs" \in DOMAIN extracted
    <3>1. Given("exefs")
      BY <2>1, <2>2, <2>4 DEF ExtractedInv
    <3>2. IsClear(SubSeq(extracted["exefs"], 1, SuperBlockSize))
      <4>1. ExeFsBytes \in Seq(Byte) /\ BeginsWith(extracted["exefs"], ExeFsBytes)
            /\ title.exeFsHeader
        BY <3>1 DEF Given, RegionFile, Known
      <4>2. Described(1)
        <5>1. 1 \in Sections
          BY SizeFacts DEF Sections
        <5> QED
          BY <2>1, <5>1 DEF ImageKept
      <4>3. SuperBlockSize + superBlock[1].size <= Len(ExeFsBytes)
            /\ superBlock[1].size \in Nat
        BY <2>1, <4>1, <4>2, FirstSection DEF ImageKept
      <4>4. SuperBlockSize \in Nat /\ SuperBlockSize <= Len(ExeFsBytes)
        BY <4>1, <4>3, SizeFacts, LenProperties
      <4> QED
        BY <4>1, <4>4, ClearStart
    <3>3. /\ stage' = "extractExeFs" /\ section' = 1
          /\ exeFile' = SubSeq(extracted["exefs"], SuperBlockSize + 1,
                               Len(extracted["exefs"]))
      BY <1>2, <2>4, <3>2 DEF ExtractNcchDone
    <3>4. ASSUME NEW i \in Sections, superBlock'[i].name # NoName
          PROVE  SectionBytes(i)' = MadeBytes(i)'
      <4>1. SectionBytes(i)' = MadeBytes(i)
        BY <2>1, <3>1, <3>3, <3>4, SectionBack DEF SectionBytes
      <4> QED
        BY <2>1, <4>1, BackSame
    <3>5. \A i \in Sections : ~(i < 1)
      BY SizeFacts DEF Sections
    <3> QED
      BY <3>3, <3>4, <3>5 DEF SectionsBack
  <2> QED
    BY <2>3, <2>4
<1>3. ASSUME NEW i, UNCHANGED <<title, superBlock, exeFile, outDir>>
      PROVE  /\ SectionBytes(i)' = SectionBytes(i) /\ MadeBytes(i)' = MadeBytes(i)
             /\ Back(i)' = Back(i)
    BY <1>3, BackSame DEF SectionBytes, Back, Path, IsTopSection
<1>4. CASE ExtractSection /\ UNCHANGED ncchVars
  <2>1. /\ stage = "extractExeFs" /\ section \in Sections /\ section' = section + 1
        /\ UNCHANGED <<title, superBlock, exeFile, header, extracted, stage>>
    BY <1>4 DEF ExtractSection, ncchVars
  <2>2. Unpacking
    BY <2>1 DEF Unpacking, KeysAgree
  <2>3. \A i \in Sections : "exefs" \in DOMAIN extracted' /\ i < section' => Back(i)'
    BY <1>4, <2>1, <2>2, UnpackStep
  <2>4. \A i : SectionBytes(i)' = SectionBytes(i) /\ MadeBytes(i)' = MadeBytes(i)
    BY <2>1, BackSame DEF SectionBytes
  <2>5. section' \in Nat
    BY <2>1, SizeFacts DEF Sections
  <2> QED
    BY <2>1, <2>2, <2>3, <2>4, <2>5 DEF SectionsBack
<1>5. CASE ExtractExeFsDone /\ UNCHANGED ncchVars
  <2>1. /\ stage = "extractExeFs" /\ stage' = "end" /\ section > SectionCount
        /\ UNCHANGED <<title, superBlock, exeFile, outDir, header, extracted>>
    BY <1>5 DEF ExtractExeFsDone, ncchVars
  <2>2. Unpacking
    BY <2>1 DEF Unpacking, KeysAgree
  <2>3. \A i \in Sections : i < section
    BY <2>1, <2>2, SizeFacts DEF Sections, SectionsBack
  <2> QED
    BY <1>3, <2>1, <2>2, <2>3 DEF SectionsBack
<1>6. CASE UNCHANGED titleVars
  <2>1. UNCHANGED <<title, superBlock, exeFile, outDir, header, extracted, stage, section>>
    BY <1>6 DEF titleVars, exeFsVars, ncchVars
  <2>2. Unpacking
    BY <2>1 DEF Unpacking, KeysAgree
  <2> QED
    BY <1>3, <2>1, <2>2 DEF SectionsBack
<1>7. FillStep => stage' = "createNcch"
  <2>1. ASSUME FillStep PROVE stage' = "createNcch"
    <3>1. Filling /\ stage' = stage
      BY <2>1, FillStepFills, FillStepKeeps
    <3> QED
      BY <3>1 DEF Filling
  <2> QED
    BY <2>1
<1>8. ExeFsNext /\ stage = "extractExeFs" => ExtractSection \/ ExtractExeFsDone
    BY DEF ExeFsNext, ExeFsCreateHeader, SkipSection, ClearSection, CreatingSection,
        CreateSection, CreateExeFsDone
<1>9. stage' \in {"extractExeFs", "end"}
    BY DEF Unpacking
<1> QED
    BY <1>1, <1>2, <1>4, <1>5, <1>6, <1>7, <1>8, <1>9, Stages

-----------------------------------------------------------------------------
TitleInv ==
    /\ IInv /\ NInv /\ SectionsInv /\ ImageKept /\ KeysInv /\ RegionsInv
    /\ AllExtracted /\ ExtractedInv /\ RegionsBack /\ SectionsBack

LEMMA TitleInvInit == TitleInit => TitleInv
<1> SUFFICES ASSUME TitleInit
             PROVE  TitleInv
    OBVIOUS
<1>1. IInv /\ NInv /\ SectionsInv
    BY InitCorrect, NcchInitCorrect, SectionsInit
<1>2. stage = "createExeFs" /\ DOMAIN extracted = {}
    BY DEF TitleInit, ExeFsInit, NcchInit
<1> QED
    BY <1>1, <1>2 DEF TitleInv, ImageKept, KeysInv, RegionsInv, AllExtracted,
        ExtractedInv, RegionsBack, SectionsBack, Unpacking

LEMMA TitleInvStep == TitleInv /\ [TitleNext]_titleVars => TitleInv'
<1> SUFFICES ASSUME TitleInv, [TitleNext]_titleVars
             PROVE  TitleInv'
    OBVIOUS
<1>1. /\ IInv /\ NInv /\ SectionsInv /\ ImageKept /\ KeysInv /\ RegionsInv
      /\ AllExtracted /\ ExtractedInv /\ RegionsBack /\ SectionsBack
    BY DEF TitleInv
<1>2. IInv' /\ NInv' /\ SectionsInv' /\ ImageKept' /\ KeysInv'
    BY <1>1, StepCorrect, NcchStepCorrect, SectionsStep, ImageKeptStep, KeysStep
<1>3. RegionsInv' /\ AllExtracted' /\ ExtractedInv'
    BY <1>1, RegionsStep, AllExtractedStep, ExtractedStep
<1>4. RegionsBack' /\ SectionsBack'
    BY <1>1, RegionsBackStep, SectionsBackStep
<1> QED
    BY <1>2, <1>3, <1>4 DEF TitleInv

(* What was put into a title comes out of it: when the ext key is the same *)
(* both times, CNcch::ExtractFile writes every region of the header with   *)
(* the bytes of its file at its start, and CExeFs::ExtractFile every       *)
(* section with the bytes of the file it was made from, whatever other     *)
(* files were missing.                                                     *)
THEOREM ExtractedIsAlwaysGiven == TitleSpec => []ExtractedIsGiven
<1>1. TitleInv => ExtractedIsGiven
  <2> SUFFICES ASSUME TitleInv, stage = "end", KeysAgree
               PROVE  ExtractedIsGiven
    BY DEF ExtractedIsGiven
  <2>1. Unpacking
    BY DEF Unpacking
  <2>2. ASSUME NEW r \in DOMAIN extracted \ {"exefs"}
        PROVE  LET n == IF r = "extendedheader" THEN ExtendedBytes ELSE Size(r)
               IN  /\ Len(extracted[r]) >= n
                   /\ SubSeq(extracted[r], 1, n) = FileBytes(r, n)
    <3>1. Whole(r)
      BY <2>1 DEF TitleInv, RegionsBack
    <3> QED
      BY <3>1 DEF Whole, FileSize
  <2>3. "exefs" \in DOMAIN extracted =>
            \A i \in Sections :
                superBlock[i].name # NoName =>
                    outDir[Path(superBlock[i].name, i)] = ComesBack(i)
    BY <2>1 DEF TitleInv, SectionsBack, Back
  <2>4. \A r \in DOMAIN header.at :
            region > Len(Regions) /\ RegionSize(header, r) # 0 => r \in DOMAIN extracted
    BY <2>1 DEF TitleInv, RegionsBack
  <2> QED
    BY <2>2, <2>3, <2>4 DEF ExtractedIsGiven
<1> QED
    BY <1>1, TitleInvInit, TitleInvStep, PTL DEF TitleSpec
=============================================================================
