-------------------------------- MODULE Patch --------------------------------
(***************************************************************************)
(* The patch files of 3dstool (src/src/patch.cpp): "--diff" compares an    *)
(* old with a new file and writes a list of commands, "--patch" executes   *)
(* them on a copy of the old file in place.  For an NCCH the parts that    *)
(* changed their offset are moved as a whole first and only what differs   *)
(* is stored; the parts are taken in an order in which no move overwrites  *)
(* a part that is still to be moved.  In an NCSD the partitions, each an   *)
(* NCCH, are moved in the same way before their parts are compared.        *)
(*                                                                         *)
(* A byte stands for a media unit.  A file is a function on 0 .. n - 1.    *)
(* CreatePatchFile runs in the phases "diff", "partition", "part" and      *)
(* "close", one step per partition and part; ApplyPatchFile in the phases  *)
(* "check" and "apply", one step per command and per chunk of a move.      *)
(* Being killed while it applies is a step of its own.                     *)
(*                                                                         *)
(* Operators named ...Mutant are what the definition after them would be   *)
(* with a plausible slip in the code.                                      *)
(***************************************************************************)
EXTENDS Integers, Sequences, FiniteSets, SequencesExt

CONSTANTS
  LastPart,        \* kOffsetSizeIndexRomFs: the parts are 0 .. LastPart
  LastPartition,   \* the partitions of an NCSD are 0 .. LastPartition: 7 in the code
  Sizes,           \* the sizes a part may have
  Cards,           \* the sizes of the parts of the partitions that a card may have
  Hashed,          \* the parts of which the NCCH header holds a hash
  Kinds,           \* the types of file compared: "cci", "cxi", "cfa", "file"
  CardSize,        \* the size of a card image
  LastAlignment,   \* alignment of the last part (the RomFS) in the file
  WriteBuffer,     \* uBufferSize of createPatchFile
  MoveBuffer,      \* nBufferSize of executeMove
  MaxInterrupts    \* bound: how often ApplyPatchFile is killed

ASSUME PatchAssumption ==
  /\ LastPart \in Nat \ {0} /\ LastPartition \in Nat
  /\ Sizes \subseteq Nat
  /\ \A all \in Cards : all \in [0 .. LastPartition -> [0 .. LastPart -> Nat]]
  /\ Hashed \subseteq 0 .. LastPart
  /\ Kinds \subseteq {"cci", "cxi", "cfa", "file"}
  /\ {CardSize, LastAlignment, WriteBuffer, MoveBuffer} \subseteq Nat \ {0}
  /\ MaxInterrupts \in Nat

Parts == 0 .. LastPart
Partitions == 0 .. LastPartition

VARIABLES
  kind,            \* m_eFileType, "file" when the files are not both of that type
  old, new,        \* the two files: where their partitions are, and their bytes
  phase,
  moved,           \* bsOver of createNcsdPatchFile: the partitions that are done
  partition,       \* the one that createNcchPatchFile is at; 0 without an NCSD
  over,            \* bsOver of createNcchPatchFile: the parts that are done
  patch,           \* the commands in the patch file
  target,          \* the bytes of the file that is patched
  next, pos,       \* position in the patch file and in the target
  chunk,           \* how many chunks of a move executeMove has copied
  claimed,         \* "was already patched" was reported
  interrupts       \* how often ApplyPatchFile was killed

filesVars == <<kind, old, new>>
diffVars == <<moved, partition, over>>
vars == <<filesVars, phase, diffVars, patch, target, next, pos, chunk, claimed, interrupts>>

-----------------------------------------------------------------------------
(* The files                                                               *)

\* Values of bytes: no two bytes of the old file are equal but for what fills it,
\* changed bytes differ from all of them.
OldByte(p, i, k) == <<"old", p, i, k>>
NewByte(p, i, k) == <<"new", p, i, k>>
OldHeader(p) == <<"old", p>>
NewHeader(p) == <<"new", p>>
OldNcsd == <<"old">>
NewNcsd == <<"new">>
Filler == <<"00">>
Filling == <<"FF">>

\* The headers: what all files begin with, and the fields, which a check covers.
HeaderSize == 2
Magic == <<"magic">>

AlignLast(n) == ((n + LastAlignment - 1) \div LastAlignment) * LastAlignment

\* CNcch::CreateFile puts the parts one behind the other after the header; an
\* absent part has offset and size 0, but for the first, whose offset is fixed.
PlaceOfPart(sizes) ==
  LET place[i \in Parts] ==
        IF i = 0 THEN HeaderSize
        ELSE LET end == place[i - 1] + sizes[i - 1] IN
             IF i = LastPart THEN AlignLast(end) ELSE end
  IN place

NoEntry == [Offset |-> 0, Size |-> 0]

\* What is absent is given the offset of the next one that is there, or else the end
\* of the last (both Analyze).
Completed(raw, last) ==
  LET there == {j \in 0 .. last : raw[j] # NoEntry}
      offset(i) ==
        IF \E j \in there : i < j THEN raw[Min({j \in there : i < j})].Offset
        ELSE IF there # {} THEN raw[Max(there)].Offset + raw[Max(there)].Size
        ELSE 0
  IN [i \in 0 .. last |-> IF i \in there THEN raw[i] ELSE [Offset |-> offset(i), Size |-> 0]]

\* CNcch::Analyze: a CFA is taken to have no part but the last.
Analyze(sizes, k) ==
  LET place == PlaceOfPart(sizes) IN
  Completed([i \in Parts |->
               IF (k = "cfa" /\ i # LastPart) \/ (sizes[i] = 0 /\ i # 0) THEN NoEntry
               ELSE [Offset |-> place[i], Size |-> sizes[i]]], LastPart)

\* An NCCH is aligned before and after the last part, be it there or not.
EndOfNcch(sizes) == AlignLast(PlaceOfPart(sizes)[LastPart] + sizes[LastPart])

\* A partition but the first may be absent: one without any part is.
IsThere(all, p) == p = 0 \/ \E i \in Parts : all[p][i] # 0
NcchSize(all, p) == IF IsThere(all, p) THEN EndOfNcch(all[p]) ELSE 0

\* CNcsd::CreateFile puts the partitions one behind the other.
PlaceOfPartition(k, all) ==
  LET place[p \in Partitions] ==
        IF p = 0 THEN (IF k = "cci" THEN HeaderSize ELSE 0)
        ELSE place[p - 1] + NcchSize(all, p - 1)
  IN place

\* CNcsd::Analyze
AnalyzeNcsd(k, all) ==
  Completed([p \in Partitions |->
               IF IsThere(all, p)
               THEN [Offset |-> PlaceOfPartition(k, all)[p], Size |-> NcchSize(all, p)]
               ELSE NoEntry], LastPartition)

KindOf(k, p) == IF k = "cci" THEN (IF p = 0 THEN "cxi" ELSE "cfa") ELSE k

\* The partitions fit the card (CNcsd::CreateFile takes one that is large enough).
ASSUME CardsFit ==
  \A all \in Cards :
    PlaceOfPartition("cci", all)[LastPartition] + NcchSize(all, LastPartition) <= CardSize

\* The table of the parts of an NCCH that is expected where the table of the NCSD has
\* partition p; for one that is absent that is where the next one lies.
PartsAt(k, all, p) ==
  LET there == {q \in p .. LastPartition : IsThere(all, q)} IN
  IF there = {} THEN [i \in Parts |-> NoEntry]
  ELSE Analyze(all[Min(there)], KindOf(k, p))

\* A byte of a part is that of the old file if it has one there, unless the part is
\* changed: then all but the second differ.
PartByte(allOld, changes, p, i, k) ==
  IF k >= allOld[p][i] \/ (<<p, i>> \in changes /\ k # 1) THEN NewByte(p, i, k) ELSE OldByte(p, i, k)

\* The byte x of the NCCH of partition p.
NcchByte(p, sizes, header, allOld, changes, x) ==
  LET place == PlaceOfPart(sizes)
      here == {i \in Parts : place[i] <= x /\ x < place[i] + sizes[i]}
  IN IF x = 0 THEN Magic
     ELSE IF x = 1 THEN header
     ELSE IF here = {} THEN Filler
     ELSE LET i == CHOOSE i \in here : TRUE IN PartByte(allOld, changes, p, i, x - place[i])

\* The file of the given kind, with the headers of its NCSD and of its partitions, that
\* was made of the old one by the changes.
FileOf(k, all, ncsd, header, allOld, changes) ==
  LET place == PlaceOfPartition(k, all)
      here(x) == {p \in Partitions : place[p] <= x /\ x < place[p] + NcchSize(all, p)}
      size == IF k = "cci" THEN CardSize ELSE NcchSize(all, 0)
  IN [Table |-> AnalyzeNcsd(k, all),
      Parts |-> [p \in Partitions |-> PartsAt(k, all, p)],
      Sizes |-> all,
      Bytes |-> [x \in 0 .. (size - 1) |->
        IF here(x) # {}
        THEN LET p == CHOOSE p \in here(x) : TRUE IN
             NcchByte(p, all[p], header[p], allOld, changes, x - place[p])
        ELSE IF x = 0 THEN Magic ELSE IF x = 1 THEN ncsd ELSE Filling]]

\* The header of an NCCH is another one if a size or a hashed part changed, that of
\* the NCSD if its table did.
HeaderOf(allOld, allNew, changes) ==
  [p \in Partitions |->
     IF allOld[p] = allNew[p] /\ \A i \in Hashed : <<p, i>> \in changes => allNew[p][i] = 0
     THEN OldHeader(p) ELSE NewHeader(p)]

NcsdHeaderOf(allOld, allNew) ==
  IF AnalyzeNcsd("cci", allOld) = AnalyzeNcsd("cci", allNew) THEN OldNcsd ELSE NewNcsd

-----------------------------------------------------------------------------
(* The commands                                                            *)

Check(at, hash) == [Command |-> "Check", Offset |-> at, Hash |-> hash]
Move(from, to, size) == [Command |-> "Move", From |-> from, To |-> to, Size |-> size]
Set(at, size, data) == [Command |-> "Set", Offset |-> at, Size |-> size, Byte |-> data]
ChangeSize(size) == [Command |-> "ChangeSize", Size |-> size]
SeekWrite(set, offset, data) ==
  [Command |-> "SeekWrite", SeekSet |-> set, Offset |-> offset, Data |-> data]
Over == [Command |-> "Over"]

\* The position after a write is taken for that of its last byte.
SeekOffsetMutant(at, end, first) == IF first THEN at ELSE at - (end - 1)

\* The first seek is absolute, the others start where the piece before ended.
SeekOffset(at, end, first) == IF first THEN at ELSE at - end

\* The writes that turn the sizeOld bytes at "from" of the old file into the sizeNew
\* bytes at "to" of the new one, where the old ones have been moved already.
\* createPatchFile collects the bytes that differ, and then what the new file has more;
\* it writes them when a byte is the same, where the old bytes end and when its buffer
\* is full.
Writes(from, sizeOld, to, sizeNew) ==
  LET common == IF sizeOld < sizeNew THEN sizeOld ELSE sizeNew
      differs(k) == k >= common \/ old.Bytes[from + k] # new.Bytes[to + k]
      buffered[k \in 0 .. sizeNew] ==  \* uBufferPos after k bytes
        IF k \in {0, common, sizeNew} \/ ~differs(k - 1) THEN 0
        ELSE (buffered[k - 1] + 1) % WriteBuffer
      length(k) ==                     \* how many bytes are written after the k-th
        IF ~differs(k - 1) THEN buffered[k - 1]
        ELSE IF buffered[k] = 0 THEN buffered[k - 1] + 1 ELSE 0
      end(k) == to + (IF differs(k - 1) THEN k ELSE k - 1)
      base[k \in 0 .. sizeNew] ==      \* nBaseOffset, 0 before the first write
        IF k = 0 THEN 0 ELSE IF length(k) # 0 THEN end(k) ELSE base[k - 1]
      write(k) ==
        LET at == end(k) - length(k)
            first == base[k - 1] = 0
        IN SeekWrite(first, SeekOffset(at, base[k - 1], first),
                     [m \in 1 .. length(k) |-> new.Bytes[at + m - 1]])
      upTo[k \in 0 .. sizeNew] ==
        IF k = 0 THEN <<>> ELSE upTo[k - 1] \o (IF length(k) # 0 THEN <<write(k)>> ELSE <<>>)
  IN upTo[sizeNew]

-----------------------------------------------------------------------------
(* CreatePatchFile                                                         *)

\* Always the last one that is not done.
WaitingMutant(from, to, done) == {}

\* The first one waits for one before it, too.
WaitingFirstMutant(from, to, done) ==
  {i \in DOMAIN to : to[i].Offset < from[i].Offset /\ i - 1 \notin done}

\* Both loops go down from the last, pass over what moves towards the head while
\* the one before it is not done, and start again after every one.
Waiting(from, to, done) ==
  {i \in DOMAIN to : i # 0 /\ to[i].Offset < from[i].Offset /\ i - 1 \notin done}

Ready(from, to, done) == (DOMAIN to \ done) \ Waiting(from, to, done)

Turn(ready) == CHOOSE i \in ready : \A j \in ready : j <= i

\* The move from entry o to entry n of a table, whose files begin at from and to.
MoveTo(from, o, to, n) ==
  LET common == IF o.Size < n.Size THEN o.Size ELSE n.Size IN
  IF n.Offset # o.Offset /\ common # 0
  THEN <<Move(from + o.Offset, to + n.Offset, common)>> ELSE <<>>

PartCommands(from, o, to, n) ==
  MoveTo(from, o, to, n)
     \o (IF n.Size # 0
         THEN Writes(from + o.Offset, o.Size, to + n.Offset, n.Size) ELSE <<>>)
     \o (IF n.Size < o.Size
         THEN <<Set(to + n.Offset + n.Size, o.Size - n.Size, Filler)>> ELSE <<>>)

Length(file) == Cardinality(DOMAIN file)

\* The checks of the headers that the new file has.
Checks ==
  LET at(p) == new.Table[p].Offset + 1
      check(p) == IF IsThere(new.Sizes, p) THEN <<Check(at(p), new.Bytes[at(p)])>> ELSE <<>>
      upTo[p \in 0 .. (LastPartition + 1)] == IF p = 0 THEN <<>> ELSE upTo[p - 1] \o check(p - 1)
  IN (IF kind = "cci" THEN <<Check(1, new.Bytes[1])>> ELSE <<>>) \o upTo[LastPartition + 1]

\* The header is compared when the first part is due.
BeginDiffMutant ==
  /\ phase = "diff"
  /\ \/ /\ kind # "file"
        /\ patch' = Checks \o Writes(0, HeaderSize, 0, HeaderSize)
        /\ phase' = IF kind = "cci" THEN "partition" ELSE "part"
     \/ /\ kind = "file"
        /\ patch' = Writes(0, Length(old.Bytes), 0, Length(new.Bytes))
        /\ phase' = "close"
  /\ UNCHANGED <<filesVars, diffVars, target, next, pos, chunk, claimed, interrupts>>

\* The checks come first, for the typed files.
BeginDiff ==
  /\ phase = "diff"
  /\ \/ /\ kind # "file"
        /\ patch' = Checks
        /\ phase' = IF kind = "cci" THEN "partition" ELSE "part"
     \/ /\ kind = "file"
        /\ patch' = Writes(0, Length(old.Bytes), 0, Length(new.Bytes))
        /\ phase' = "close"
  /\ UNCHANGED <<filesVars, diffVars, target, next, pos, chunk, claimed, interrupts>>

\* A turn of the loop of createNcsdPatchFile: the partition is moved as a whole, its
\* parts are compared next.
DiffPartition ==
  /\ phase = "partition"
  /\ LET ready == Ready(old.Table, new.Table, moved)
         p == Turn(ready)
     IN /\ ready # {}
        /\ patch' = patch \o MoveTo(0, old.Table[p], 0, new.Table[p])
        /\ moved' = moved \cup {p}
        /\ partition' = p
        /\ over' = {}
        /\ phase' = IF new.Table[p].Size # 0 THEN "part" ELSE "partition"
  /\ UNCHANGED <<filesVars, target, next, pos, chunk, claimed, interrupts>>

FromPlace == old.Table[partition].Offset
ToPlace == new.Table[partition].Offset

\* A turn of the loop of createNcchPatchFile.
DiffPart ==
  /\ phase = "part"
  /\ LET from == old.Parts[partition]
         to == new.Parts[partition]
         ready == Ready(from, to, over)
         i == Turn(ready)
     IN /\ ready # {}
        /\ patch' = patch \o PartCommands(FromPlace, from[i], ToPlace, to[i])
        /\ over' = over \cup {i}
  /\ UNCHANGED <<filesVars, phase, moved, partition, target, next, pos, chunk, claimed, interrupts>>

\* The header of an NCCH is compared when all its parts are done.
DiffHeader ==
  /\ phase = "part"
  /\ over = Parts
  /\ patch' = patch \o Writes(FromPlace, HeaderSize, ToPlace, HeaderSize)
  /\ phase' = IF kind = "cci" THEN "partition" ELSE "close"
  /\ UNCHANGED <<filesVars, diffVars, target, next, pos, chunk, claimed, interrupts>>

EndOfPartitions(file) == file.Table[LastPartition].Offset + file.Table[LastPartition].Size

\* The header of the NCSD comes last; what the partitions have left is filled.
DiffNcsdHeader ==
  /\ phase = "partition"
  /\ moved = Partitions
  /\ LET end == EndOfPartitions(new)
         rest == EndOfPartitions(old) - end
     IN patch' = patch \o Writes(0, HeaderSize, 0, HeaderSize)
                   \o (IF rest > 0 THEN <<Set(end, rest, Filling)>> ELSE <<>>)
  /\ phase' = "close"
  /\ UNCHANGED <<filesVars, diffVars, target, next, pos, chunk, claimed, interrupts>>

\* The end mark is written only with a new size.
ClosePatchMutant ==
  /\ phase = "close"
  /\ patch' = patch \o (IF Length(new.Bytes) < Length(old.Bytes)
                        THEN <<ChangeSize(Length(new.Bytes)), Over>> ELSE <<>>)
  /\ phase' = "check"
  /\ UNCHANGED <<filesVars, diffVars, target, next, pos, chunk, claimed, interrupts>>

ClosePatch ==
  /\ phase = "close"
  /\ patch' = patch
       \o (IF Length(new.Bytes) < Length(old.Bytes)
           THEN <<ChangeSize(Length(new.Bytes))>> ELSE <<>>)
       \o <<Over>>
  /\ phase' = "check"
  /\ UNCHANGED <<filesVars, diffVars, target, next, pos, chunk, claimed, interrupts>>

-----------------------------------------------------------------------------
(* ApplyPatchFile                                                          *)

\* The file is taken for patched already if the patch begins with checks and
\* all of them hold.
CheckTarget ==
  /\ phase = "check"
  /\ LET checks == {i \in DOMAIN patch : patch[i].Command = "Check"} IN
       IF checks # {} /\ \A i \in checks : target[patch[i].Offset] = patch[i].Hash
       THEN claimed' = TRUE /\ phase' = "done"
       ELSE claimed' = FALSE /\ phase' = "apply"
  /\ next' = 1
  /\ chunk' = 0
  /\ pos' = 0
  /\ UNCHANGED <<filesVars, diffVars, patch, target, interrupts>>

\* fwrite at offset at: a hole before it reads as 0.
Written(file, at, data) ==
  LET n == Length(file)
      end == at + Len(data)
  IN [x \in 0 .. ((IF end > n THEN end ELSE n) - 1) |->
        IF at <= x /\ x < end THEN data[x - at + 1] ELSE IF x < n THEN file[x] ELSE Filler]

Chunk(file, from, size) == [k \in 1 .. size |-> file[from + k - 1]]

\* The chunks in which executeMove copies size bytes, as offsets from the start
\* and sizes: from the head when the bytes move down, from the end otherwise.
Chunks(size, down) ==
  LET n == (size + MoveBuffer - 1) \div MoveBuffer
      rest(k) == size - (k - 1) * MoveBuffer
      length(k) == IF rest(k) > MoveBuffer THEN MoveBuffer ELSE rest(k)
  IN [k \in 1 .. n |-> [At   |-> IF down THEN (k - 1) * MoveBuffer ELSE rest(k) - length(k),
                        Size |-> length(k)]]

\* A chunk of the move that is due, read and written.
ExecuteMove ==
  /\ phase = "apply"
  /\ patch[next].Command = "Move"
  /\ LET c == patch[next]
         chunks == Chunks(c.Size, c.From > c.To)
         k == chunks[chunk + 1]
     IN /\ target' = Written(target, c.To + k.At, Chunk(target, c.From + k.At, k.Size))
        /\ pos' = c.To + k.At + k.Size
        /\ IF chunk + 1 = Len(chunks)
           THEN next' = next + 1 /\ chunk' = 0
           ELSE chunk' = chunk + 1 /\ UNCHANGED next
  /\ UNCHANGED <<filesVars, phase, diffVars, patch, claimed, interrupts>>

\* Any other command.
ExecuteCommand ==
  /\ phase = "apply"
  /\ next' = next + 1
  /\ LET c == patch[next] IN
       \/ /\ c.Command = "Over"
          /\ phase' = "done"
          /\ UNCHANGED <<target, pos>>
       \/ /\ c.Command = "Check"
          /\ UNCHANGED <<phase, target, pos>>
       \/ /\ c.Command = "Set"
          /\ target' = Written(target, c.Offset, [k \in 1 .. c.Size |-> c.Byte])
          /\ pos' = c.Offset + c.Size
          /\ UNCHANGED phase
       \/ /\ c.Command = "ChangeSize"
          /\ target' = [x \in 0 .. (c.Size - 1) |-> IF x \in DOMAIN target THEN target[x] ELSE Filler]
          /\ UNCHANGED <<phase, pos>>
       \/ /\ c.Command = "SeekWrite"
          /\ LET at == IF c.SeekSet THEN c.Offset ELSE pos + c.Offset IN
               /\ target' = Written(target, at, c.Data)
               /\ pos' = at + Len(c.Data)
          /\ UNCHANGED phase
  /\ UNCHANGED <<filesVars, diffVars, patch, chunk, claimed, interrupts>>

\* The process is killed between two steps and started again.
Interrupt ==
  /\ phase = "apply"
  /\ interrupts < MaxInterrupts
  /\ interrupts' = interrupts + 1
  /\ phase' = "check"
  /\ UNCHANGED <<filesVars, diffVars, patch, target, next, pos, chunk, claimed>>

-----------------------------------------------------------------------------

\* CNcch::CreateFile gives a CFA no other parts than the last two, ExeFS and RomFS.
PartSizes(k) ==
  {f \in [Parts -> Sizes \cup {0}] : k = "cfa" => \A i \in 0 .. (LastPart - 2) : f[i] = 0}

\* The parts of the partitions.  Without an NCSD there is one.
AllSizes(k) ==
  IF k = "cci" THEN Cards
  ELSE {[p \in Partitions |-> IF p = 0 THEN sizes ELSE [i \in Parts |-> 0]] :
          sizes \in PartSizes(k)}

\* The parts that may change: those in both files.
InBoth(allOld, allNew) ==
  {c \in Partitions \X Parts : allOld[c[1]][c[2]] # 0 /\ allNew[c[1]][c[2]] # 0}

\* Where the old file has no partition it has one further back: else what is behind
\* its last partition would be taken for an NCCH.
Comparable(allOld, allNew) ==
  \A p \in Partitions : IsThere(allNew, p) => \E q \in Partitions : p <= q /\ IsThere(allOld, q)

Init ==
  /\ kind \in Kinds
  /\ \E allOld \in AllSizes(kind) :
     \E allNew \in {all \in AllSizes(kind) : Comparable(allOld, all)} :
     \E changes \in SUBSET InBoth(allOld, allNew) :
       /\ old = FileOf(kind, allOld, OldNcsd, [p \in Partitions |-> OldHeader(p)], allOld, {})
       /\ new = FileOf(kind, allNew, NcsdHeaderOf(allOld, allNew),
                       HeaderOf(allOld, allNew, changes), allOld, changes)
  /\ phase = "diff"
  /\ moved = {} /\ partition = 0 /\ over = {}
  /\ patch = <<>>
  /\ target = old.Bytes
  /\ next = 1
  /\ pos = 0
  /\ chunk = 0
  /\ claimed = FALSE
  /\ interrupts = 0

Next ==
  \/ BeginDiff \/ DiffPartition \/ DiffPart \/ DiffHeader \/ DiffNcsdHeader \/ ClosePatch
  \/ CheckTarget \/ ExecuteMove \/ ExecuteCommand \/ Interrupt

\* Both runs of the program are sequential: they go on until they end.
Spec == Init /\ [][Next]_vars /\ WF_vars(Next)

-----------------------------------------------------------------------------
(* What a patch promises                                                   *)

TypeOK ==
  /\ kind \in Kinds
  /\ phase \in {"diff", "partition", "part", "close", "check", "apply", "done"}
  /\ moved \subseteq Partitions /\ partition \in Partitions /\ over \subseteq Parts
  /\ \A c \in Range(patch) :
       c.Command \in {"Over", "Check", "Move", "Set", "ChangeSize", "SeekWrite"}
  /\ phase = "apply" => next \in DOMAIN patch
  /\ DOMAIN target = 0 .. (Length(target) - 1)
  /\ pos \in Nat
  /\ chunk \in Nat
  /\ claimed \in BOOLEAN
  /\ interrupts \in 0 .. MaxInterrupts

Content(file) == {c \in Partitions \X Parts : file.Sizes[c[1]][c[2]] # 0}
There == {p \in Partitions : IsThere(new.Sizes, p)}
Place(file, p) == file.Table[p].Offset
PlaceIn(file, p, i) == Place(file, p) + PlaceOfPart(file.Sizes[p])[i]

TargetIsNew(from, size) ==
  \A x \in from .. (from + size - 1) : x \in DOMAIN target /\ target[x] = new.Bytes[x]

\* The bytes of every part of the new file are in the target where they are there.
PartsAreNew ==
  \A c \in Content(new) :
    TargetIsNew(PlaceIn(new, c[1], c[2]), new.Sizes[c[1]][c[2]])

SamePart(p, i) ==
  /\ old.Sizes[p][i] = new.Sizes[p][i]
  /\ \A k \in 0 .. (new.Sizes[p][i] - 1) :
       old.Bytes[PlaceIn(old, p, i) + k] = new.Bytes[PlaceIn(new, p, i) + k]

\* The header of an NCCH tells it from the old one unless nothing in it differs.
HeaderTells ==
  kind # "file" =>
    \A p \in There :
      new.Bytes[Place(new, p) + 1] # OldHeader(p) \/ \A i \in Parts : SamePart(p, i)

\* A CFA has a RomFS, and what Analyze drops from its table is the same in both.
OnlyRomFsDiffers ==
  \A p \in There :
    KindOf(kind, p) = "cfa" => /\ new.Sizes[p][LastPart] # 0
                               /\ \A i \in Parts \ {LastPart} : SamePart(p, i)

\* No part gets smaller and moves away from the head at once.
ShrinkingPartsStay ==
  kind # "file" =>
    \A p \in There : \A i \in Parts :
      LET o == old.Parts[p][i]
          n == new.Parts[p][i]
      IN n.Size < o.Size => new.Table[p].Offset + n.Offset <= old.Table[p].Offset + o.Offset

\* Else the new partition is compared with the one behind it in the old file, which
\* is not moved to where the new one begins.
NoPartitionAdded == \A p \in There : IsThere(old.Sizes, p)

Tidy == HeaderTells /\ OnlyRomFsDiffers /\ ShrinkingPartsStay /\ NoPartitionAdded

IsNew ==
  /\ TargetIsNew(0, HeaderSize)
  /\ kind # "file" => \A p \in There : TargetIsNew(Place(new, p), HeaderSize)
  /\ PartsAreNew
  /\ Length(target) <= Length(new.Bytes)
  /\ \A x \in DOMAIN new.Bytes \ DOMAIN target : new.Bytes[x] = Filler
  /\ kind = "cci" => TargetIsNew(EndOfPartitions(new), CardSize - EndOfPartitions(new))

\* "--patch" turns the target, which was the old file, into the new one: the
\* headers, each part, the length and the filling of a card (patch.cpp
\* createNcsdPatchFile, createNcchPatchFile, createPatchFile, ApplyPatchFile).
\* Padding is not compared: that between the parts may differ, and that behind the
\* last of an NCCH may be missing.
PatchedIsNew == phase = "done" /\ interrupts = 0 /\ HeaderTells => IsNew

\* The same when no part both shrinks and moves up, a CFA differs in its RomFS only
\* and no partition is added: the order of partitions and parts,
\* the direction of the moves, the padding behind shrunk parts and the relative
\* seeks fit together for every such pair of files.
TidyPatchedIsNew == phase = "done" /\ interrupts = 0 /\ Tidy => IsNew

\* A target that is taken for patched after ApplyPatchFile was killed once has all
\* its parts: every checked header is written when what it covers is (patch.cpp
\* createNcsdPatchFile, createNcchPatchFile).  Its length may still be that of the
\* old file.
ClaimedOnlyWhenComplete == claimed /\ interrupts = 1 /\ Tidy => PartsAreNew

\* A partition or part is moved before anything is written over it: in the first
\* attempt every chunk of a move still finds the bytes of the old file (patch.cpp
\* createNcsdPatchFile, createNcchPatchFile, executeMove).
MovesFindOldBytes ==
  [][ /\ phase = "apply" /\ interrupts = 0
      /\ patch[next].Command = "Move"
      /\ ShrinkingPartsStay /\ OnlyRomFsDiffers /\ NoPartitionAdded
      => LET c == patch[next]
             k == Chunks(c.Size, c.From > c.To)[chunk + 1]
         IN \A x \in (c.From + k.At) .. (c.From + k.At + k.Size - 1) :
              target[x] = old.Bytes[x] ]_vars

\* The search for the next part always ends: no partitions and no parts wait for each other,
\* whatever moved where, and the patch is applied (patch.cpp createNcsdPatchFile,
\* createNcchPatchFile).
Completes == <>(phase = "done")
=============================================================================
