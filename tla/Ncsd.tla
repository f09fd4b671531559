--------------------------------- MODULE Ncsd ---------------------------------
(***************************************************************************)
(* The images of game cards (src/src/ncsd.cpp).  CreateFile() puts up to   *)
(* eight partitions, each an NCCH file, behind a header and fills the card *)
(* with 0xFF, TrimFile() cuts the filling off and may drop the last        *)
(* partitions, PadFile() fills the card again, ExtractFile() takes the     *)
(* image apart for another CreateFile().  Trimming and padding change the  *)
(* image in place: the program may be killed with the header, the card     *)
(* info and the length of the file written or not, in any combination,     *)
(* since stdio holds the first two back.                                   *)
(*                                                                         *)
(* Offsets and lengths count scaled bytes; those in the partition table    *)
(* count media units, as in the header.                                    *)
(*                                                                         *)
(* Operators named ...Mutant are what the definition after them would be   *)
(* with a plausible slip in the code.                                      *)
(***************************************************************************)
EXTENDS Integers, SequencesExt

CONSTANTS
  LastPartition,   \* the partitions are 0 .. LastPartition: 7 in the code
  Sizes,           \* the sizes an NCCH file may have
  MaxNcch,         \* bound: whole blocks that hold any NCCH file
  MediaUnits,      \* the media units that a flag of the header can tell: 0x200, 0x400, ...
  BlockSize,       \* s_nBlockSize
  UnitsPerBlock,   \* media units in a block of a card with the smallest: 8
  FirstNcch,       \* s_nOffsetFirstNcch
  NcchHeader,      \* the size of the header of an NCCH
  Card1, Card2,    \* the capacities of the two types of card: 1 << 27, 1 << 28, ...
  MaxKills,        \* bound: how often the program is killed
  MaxRebuilds      \* bound: how often an image is taken apart

Partitions == 0 .. LastPartition

ASSUME NcsdAssumption ==
  /\ LastPartition \in Nat /\ {MaxKills, MaxRebuilds} \subseteq Nat
  /\ {BlockSize, UnitsPerBlock, FirstNcch, NcchHeader} \subseteq Nat \ {0}
  \* Blocks, the first partition and cards are aligned for every media unit.
  /\ MediaUnits \subseteq Nat \ {0}
  /\ \A u \in MediaUnits : BlockSize % u = 0 /\ (UnitsPerBlock * u) % BlockSize = 0
  /\ FirstNcch % BlockSize = 0
  /\ \A c \in Card1 \cup Card2 : c \in Nat /\ c % BlockSize = 0
  \* The largest card holds all partitions, however large.
  /\ MaxNcch \in Nat /\ MaxNcch % BlockSize = 0
  /\ Sizes \subseteq 1 .. MaxNcch
  /\ \A cards \in {Card1, Card2} :
       \E c \in cards : FirstNcch + (LastPartition + 1) * MaxNcch <= c

VARIABLES
  header,          \* the header file of CreateFile
  ncch,            \* the NCCH files, <<>> where there is none
  phase,
  notPad,          \* m_bNotPad
  alignToBlock,    \* m_bAlignToBlockSize
  part,            \* the partition that CreateFile puts next
  image,           \* the image
  form,            \* how the last operation left it: "padded", "trimmed", "killed"
  made,            \* history: the image and its form when it was created
  source,          \* history: the NCCH files that are in it
  reserved,        \* history: the last partition that no trim dropped
  origin,          \* history: the image and its form that the NCCH files are from
  kills, rebuilds

inputVars == <<header, ncch, origin>>
createVars == <<notPad, alignToBlock, part>>
historyVars == <<made, source, reserved>>
vars == <<inputVars, phase, createVars, image, form, historyVars, kills, rebuilds>>

Absent == [Offset |-> 0, Size |-> 0]
NoImage == [Bytes |-> <<>>]
Nothing == [Image |-> NoImage, Form |-> "none"]

Align(n, alignment) == ((n + alignment - 1) \div alignment) * alignment

Length(img) == FirstNcch + Len(img.Bytes)

\* The filling of the card, and the byte k of the NCCH file of partition p.
Filling == 255
NcchByte(p, k) == 10 * (p + 1) + k

Filler(n, byte) == [k \in 1 .. n |-> byte]

-----------------------------------------------------------------------------
(* CreateFile                                                              *)

\* Only the first partition decides.
AlignToBlockSizeMutant(h) ==
  h.Table[0].Offset % UnitsPerBlock = 0 /\ h.Table[0].Size % UnitsPerBlock = 0

\* The partitions of the header file tell whether the new ones fill whole blocks.
AlignToBlockSize(h) ==
  \A p \in Partitions :
    h.Table[p].Offset % UnitsPerBlock = 0 /\ h.Table[p].Size % UnitsPerBlock = 0

BeginCreate ==
  /\ phase = "idle"
  /\ notPad' \in BOOLEAN
  /\ alignToBlock' = AlignToBlockSize(header)
  /\ part' = 0
  /\ image' = header
  /\ source' = [p \in Partitions |-> <<>>]
  /\ phase' = "create"
  /\ form' = "none" /\ made' = Nothing /\ reserved' = LastPartition
  /\ UNCHANGED <<inputVars, kills, rebuilds>>

\* clearNcch
Cleared(img, p) ==
  [img EXCEPT !.Table[p] = Absent, !.Ncch = IF p = 0 THEN 0 ELSE @]

\* No padding behind a partition.
AppendedMutant(bytes, file, alignment) == bytes \o file

Appended(bytes, file, alignment) ==
  LET all == bytes \o file IN
  all \o Filler(Align(FirstNcch + Len(all), alignment) - (FirstNcch + Len(all)), 0)

PutNcch ==
  LET p == part
      file == ncch[p]
      alignment == IF alignToBlock THEN BlockSize ELSE image.MediaUnit
      entry == [Offset |-> Length(image) \div image.MediaUnit,
                Size   |-> Align(Len(file), alignment) \div image.MediaUnit]
  IN /\ image' = [image EXCEPT !.Table[p] = entry,
                               !.Ncch  = IF p = 0 THEN file[NcchHeader] ELSE @,
                               !.Bytes = Appended(@, file, alignment)]
     /\ source' = [source EXCEPT ![p] = file]

\* A file that cannot be opened, or the first one if it is too short, is left out.
CreateNcch ==
  /\ phase = "create"
  /\ part \in Partitions
  /\ \/ /\ ncch[part] # <<>>
        /\ part = 0 => Len(ncch[part]) >= NcchHeader
        /\ PutNcch
     \/ /\ image' = Cleared(image, part)
        /\ UNCHANGED source
  /\ part' = part + 1
  /\ UNCHANGED <<inputVars, phase, notPad, alignToBlock, form, made, reserved, kills, rebuilds>>

Capacities(img) == IF img.Card = "CARD1" THEN Card1 ELSE Card2

\* The smallest card for n bytes.
CardFor(capacities, n) == Min({c \in capacities : n <= c})

\* A writable card is always filled.
CloseImage ==
  /\ phase = "create"
  /\ part \notin Partitions
  /\ LET size == Length(image)
         card == CardFor(Capacities(image), size)
         trimmed == notPad /\ image.Card = "CARD1"
     IN /\ image' = [image EXCEPT !.Valid = size,
                       !.MediaSize = (IF trimmed THEN size ELSE card) \div image.MediaUnit,
                       !.Bytes = IF trimmed THEN @ ELSE @ \o Filler(card - size, Filling)]
        /\ form' = IF trimmed THEN "trimmed" ELSE "padded"
  /\ made' = [Image |-> image', Form |-> form']
  /\ part' = 0 /\ notPad' = FALSE /\ alignToBlock' = FALSE
  /\ phase' = "idle"
  /\ UNCHANGED <<inputVars, source, reserved, kills, rebuilds>>

-----------------------------------------------------------------------------
(* TrimFile and PadFile                                                    *)

\* An image without partitions may be cut down to nothing.
ValidSizeMutant(img) ==
  Max({0} \cup {(img.Table[p].Offset + img.Table[p].Size) * img.MediaUnit : p \in Partitions})

ValidSize(img) ==
  Max({FirstNcch} \cup
      {(img.Table[p].Offset + img.Table[p].Size) * img.MediaUnit : p \in Partitions})

\* The file with n bytes: Chsize.
Resized(bytes, n) ==
  [k \in 1 .. (n - FirstNcch) |-> IF k \in DOMAIN bytes THEN bytes[k] ELSE 0]

\* The last partition to reserve goes too.
DroppedMutant(last) == {p \in Partitions : p >= last}

Dropped(last) == {p \in Partitions : p > last}

\* What TrimFile makes of an image.
Trimmed(img, last) ==
  LET drop == Dropped(last)
      cut == [img EXCEPT !.Table = [p \in Partitions |-> IF p \in drop THEN Absent ELSE @[p]],
                         !.Ncch  = IF 0 \in drop THEN 0 ELSE @]
      size == ValidSize(cut)
  IN [cut EXCEPT !.Valid = size, !.MediaSize = size \div cut.MediaUnit, !.Bytes = Resized(@, size)]

\* The filling goes behind what is there.
PadFromMutant(img) == Length(img)

PadFrom(img) == ValidSize(img)

\* The bytes of an image that are filled from PadFrom up to the end n.
Filled(img, n) ==
  LET bytes == Resized(img.Bytes, Max({n, Length(img)})) IN
  [k \in DOMAIN bytes |->
     IF PadFrom(img) < FirstNcch + k /\ FirstNcch + k <= n THEN Filling ELSE bytes[k]]

\* What PadFile makes of it.
Padded(img) ==
  LET size == ValidSize(img)
      card == CardFor(Card1, size)
  IN [img EXCEPT !.Valid = size, !.MediaSize = card \div img.MediaUnit,
                 !.Bytes = Resized(Filled(img, card), card)]

\* The header and the card info of either image.
Mixed(img, result, bytes) ==
  {[img EXCEPT !.Table = h.Table, !.MediaSize = h.MediaSize,
               !.Valid = c.Valid, !.Ncch = c.Ncch, !.Bytes = bytes] :
     h \in {img, result}, c \in {img, result}}

KilledTrims(img, last) ==
  LET result == Trimmed(img, last) IN
  Mixed(img, result, img.Bytes) \cup Mixed(img, result, result.Bytes)

\* The header is written when the filling is.
KilledPads(img) ==
  LET result == Padded(img)
      card == Length(result)
  IN {[img EXCEPT !.Bytes = Filled(img, n)] : n \in ValidSize(img) .. card}
     \cup Mixed(img, result, Filled(img, card)) \cup Mixed(img, result, result.Bytes)

InPlace(result, killed, name) ==
  /\ phase = "idle"
  /\ image # NoImage /\ image.Card # "CARD2"
  /\ \/ image' = result /\ form' = name /\ UNCHANGED kills
     \/ /\ kills < MaxKills
        /\ image' \in killed /\ form' = "killed" /\ kills' = kills + 1
  /\ UNCHANGED <<inputVars, phase, createVars, made, source, rebuilds>>

TrimFile ==
  \E last \in Partitions :
    /\ InPlace(Trimmed(image, last), KilledTrims(image, last), "trimmed")
    /\ reserved' = Min({reserved, last})

PadFile ==
  /\ InPlace(Padded(image), KilledPads(image), "padded")
  /\ UNCHANGED reserved

-----------------------------------------------------------------------------
(* ExtractFile                                                             *)

\* The header file is the head of the image as it is; a partition without
\* offset and size gives no file.
ExtractFile ==
  /\ phase = "idle"
  /\ form \in {"padded", "trimmed"}
  /\ rebuilds < MaxRebuilds
  /\ rebuilds' = rebuilds + 1
  /\ header' = [image EXCEPT !.Bytes = <<>>]
  /\ ncch' = [p \in Partitions |->
                LET entry == image.Table[p]
                    from == entry.Offset * image.MediaUnit - FirstNcch
                IN SubSeq(image.Bytes, from + 1, from + entry.Size * image.MediaUnit)]
  /\ origin' = [Image |-> image, Form |-> form]
  /\ UNCHANGED <<phase, createVars, image, form, historyVars, kills>>

-----------------------------------------------------------------------------

NcchFiles(p) == {<<>>} \cup {[k \in 1 .. s |-> NcchByte(p, k)] : s \in Sizes}

\* A header file of another image, with a table of whole blocks or not.  It has no
\* bytes of partitions.
Headers ==
  {[Card |-> card, MediaUnit |-> unit, Valid |-> 0, MediaSize |-> 0, Ncch |-> 0, Bytes |-> <<>>,
    Table |-> [p \in Partitions |-> entry]] :
      card \in {"CARD1", "CARD2"}, unit \in MediaUnits,
      entry \in {Absent, [Offset |-> UnitsPerBlock, Size |-> 1]}}

Init ==
  /\ header \in Headers
  /\ ncch \in {f \in [Partitions -> UNION {NcchFiles(p) : p \in Partitions}] :
                 \A p \in Partitions : f[p] \in NcchFiles(p)}
  /\ phase = "idle"
  /\ notPad = FALSE /\ alignToBlock = FALSE /\ part = 0
  /\ image = NoImage /\ form = "none"
  /\ made = Nothing
  /\ source = [p \in Partitions |-> <<>>]
  /\ reserved = LastPartition
  /\ origin = Nothing
  /\ kills = 0 /\ rebuilds = 0

Next ==
  \/ BeginCreate \/ CreateNcch \/ CloseImage
  \/ TrimFile \/ PadFile
  \/ ExtractFile

Spec == Init /\ [][Next]_vars

-----------------------------------------------------------------------------
(* Properties                                                              *)

TypeOK ==
  /\ phase \in {"idle", "create"}
  /\ notPad \in BOOLEAN /\ alignToBlock \in BOOLEAN
  /\ part \in 0 .. (LastPartition + 1)
  /\ form \in {"none", "padded", "trimmed", "killed"}
  /\ reserved \in Partitions
  /\ kills \in 0 .. MaxKills /\ rebuilds \in 0 .. MaxRebuilds
  /\ phase = "idle" /\ image # NoImage =>
       /\ image.Valid >= FirstNcch
       /\ \A p \in Partitions : image.Table[p].Offset \in Nat /\ image.Table[p].Size \in Nat

Top(p) == image.Table[p].Offset * image.MediaUnit
Bottom(p) == Top(p) + image.Table[p].Size * image.MediaUnit
Present == {p \in Partitions : image.Table[p] # Absent}

\* An image that an operation has left complete agrees with its header: partitions lie in
\* order behind each other and behind the header, the valid size is the end of the last,
\* the media size the length of the file, and the rest of the card is filled (ncsd.cpp
\* CreateFile, TrimFile, PadFile), whatever was killed before.
ImageWellFormed ==
  phase = "idle" /\ form \in {"padded", "trimmed"} =>
    /\ \A p \in Present : FirstNcch <= Top(p) /\ Bottom(p) <= image.Valid
    /\ \A p, q \in Present : p < q => Bottom(p) <= Top(q)
    /\ image.Valid = Max({FirstNcch} \cup {Bottom(p) : p \in Present})
    /\ image.MediaSize * image.MediaUnit = Length(image)
    /\ \A k \in DOMAIN image.Bytes : FirstNcch + k > image.Valid => image.Bytes[k] = Filling

\* No trim, pad or kill costs a byte of a partition that was to be reserved: it is in the
\* table and holds its NCCH file, of which the first one's header is in the card info
\* (ncsd.cpp createNcch, clearNcch, TrimFile, PadFile).
PartitionsKept ==
  phase = "idle" /\ image # NoImage =>
    \A p \in 0 .. reserved : source[p] # <<>> =>
      /\ Bottom(p) - Top(p) >= Len(source[p])
      /\ SubSeq(image.Bytes, Top(p) - FirstNcch + 1, Top(p) - FirstNcch + Len(source[p]))
           = source[p]
      /\ p = 0 => image.Ncch = source[0][NcchHeader]

\* Trimming and padding undo each other: as long as no partition is dropped, the image is
\* the one that was created whenever it has its form again (ncsd.cpp TrimFile, PadFile).
PadUndoesTrim ==
  phase = "idle" /\ reserved = LastPartition /\ form = made.Form => image = made.Image

\* What ExtractFile saved makes the same image again, if all of it can be opened and the
\* same is asked for: the alignment that CreateFile reads off the old table is the one
\* the old image was made with (ncsd.cpp calculateAlignment, ExtractFile, CreateFile).
RebuiltIsSame ==
  /\ phase = "idle" /\ origin # Nothing
  /\ source = ncch /\ made.Form = origin.Form
  => made.Image = origin.Image
=============================================================================
