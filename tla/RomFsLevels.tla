------------------------------ MODULE RomFsLevels -----------------------------
(***************************************************************************)
(* How the data of a RomFS is written (src/src/romfs.cpp, createHeader to  *)
(* alignBuffer).  Level 3 holds the metadata and the files, level 2 the    *)
(* hashes of the blocks of level 3, level 1 those of level 2 and level 0,  *)
(* behind the header, those of level 1.  They lie in the file in the order *)
(* 0, 3, 1, 2 and are written together: each has a buffer of one block,    *)
(* and one that is full is hashed into the level above and written out.    *)
(* All of that is done for as many blocks as the sizes in the header say,  *)
(* which were computed before.                                             *)
(*                                                                         *)
(* Lengths count cells.  A cell is a sequence: empty when it is zero,      *)
(* <<n>> for data, <<k, block>> for the k-th cell of the hash of a block.  *)
(*                                                                         *)
(* Operators named ...Mutant are what the definition after them would be   *)
(* with a plausible slip in the code.                                      *)
(***************************************************************************)
EXTENDS Integers, FiniteSets, SequencesExt

CONSTANTS
  Block,           \* s_nBlockSize
  Hash,            \* s_nSHA256BlockSize
  FileAlignment,   \* s_nFileSizeAlignment
  Header,          \* the size of the header
  MetaSizes,       \* sizes of the metadata
  Sizes, Gaps,     \* sizes of files, and of the room that remap() left before them
  MaxFiles         \* bound: the number of files

ASSUME RomFsLevelsAssumption ==
  /\ {Block, Hash, FileAlignment, Header} \subseteq Nat \ {0}
  /\ Block % Hash = 0 /\ Block > Hash /\ Block % FileAlignment = 0
  /\ MetaSizes \subseteq Nat \ {0} /\ Sizes \subseteq Nat
  /\ \A g \in Gaps : g \in Nat /\ g % FileAlignment = 0
  /\ MaxFiles \in Nat

VARIABLES
  meta,            \* the size of the metadata
  files,           \* the files by FileOffset, with their sizes
  remapped,        \* m_bRemapped
  phase,
  next,            \* the file that is written next
  align,           \* the levels that are still to be filled up
  level,           \* m_LevelBuffer: Data up to DataPos, and FilePos
  out,             \* the cells of the file
  failed           \* the files that could not be opened

inputVars == <<meta, files, remapped>>
vars == <<inputVars, phase, next, align, level, out, failed>>

Levels == 0 .. 3
Zero == <<>>
Zeros(n) == [k \in 1 .. n |-> Zero]

Align(n, alignment) == ((n + alignment - 1) \div alignment) * alignment

\* The cell k of file i, of the metadata (file 0) and of the header.
Cell(i, k) == <<100 * i + k>>
HeaderCell(k) == <<-k>>
Cells(i, n) == [k \in 1 .. n |-> Cell(i, k)]

-----------------------------------------------------------------------------
(* createHeader and initLevelBuffer                                        *)

DataOffset == Align(meta, FileAlignment)

Level3Size == DataOffset + Max({0} \cup {files[i].Offset + files[i].Size : i \in DOMAIN files})

\* The size of the level that holds the hashes of n cells.
HashesOf(n) == (Align(n, Block) \div Block) * Hash

LevelSize(l) ==
  CASE l = 3 -> Level3Size
    [] l = 2 -> HashesOf(Level3Size)
    [] l = 1 -> HashesOf(HashesOf(Level3Size))
    [] l = 0 -> HashesOf(HashesOf(HashesOf(Level3Size)))

\* The header is forgotten.
Level3OffsetMutant == Align(LevelSize(0), Block)

Level3Offset == Align(Align(Header, Hash) + LevelSize(0), Block)

Start(l) ==
  CASE l = 0 -> 0
    [] l = 3 -> Level3Offset
    [] l = 1 -> Level3Offset + Align(LevelSize(3), Block)
    [] l = 2 -> Level3Offset + Align(LevelSize(3), Block) + Align(LevelSize(1), Block)

End(l) ==
  IF l = 0 THEN Level3Offset ELSE Start(l) + Align(LevelSize(l), Block)

-----------------------------------------------------------------------------
(* The buffers: w is a pair of the level buffers and the cells of the file *)

HashOf(block) == [k \in 1 .. Hash |-> <<k, block>>]

BlockAt(cells, b) == [k \in 1 .. Block |-> cells[b * Block + k]]

\* The hashes of all whole blocks of the cells, one behind the other.
Hashes(cells) ==
  [k \in 1 .. (Len(cells) \div Block) * Hash |->
     HashOf(BlockAt(cells, (k - 1) \div Hash))[((k - 1) % Hash) + 1]]

\* The cells go through the buffer of level l: blocks that fill up are written out.
Taken(w, l, cells) ==
  LET all == w.Level[l].Data \o cells
      at == w.Level[l].FilePos
      n == (Len(all) \div Block) * Block
  IN [Level |-> [w.Level EXCEPT ![l] = [Data |-> SubSeq(all, n + 1, Len(all)), FilePos |-> at + n]],
      Out   |-> [x \in DOMAIN w.Out \cup at .. (at + n - 1) |->
                   IF at <= x /\ x < at + n THEN all[x - at + 1] ELSE w.Out[x]]]

\* What level l takes, the hashes that the level above takes for it, and so on up to
\* level 0.  The code hands a hash up before it writes the block; as each level
\* has its own place in the buffers and in the file, the order makes no difference.
WriteBuffer(w, l, cells) ==
  LET take[k \in 0 .. l] ==
        IF k = l THEN [W |-> w, Cells |-> cells]
        ELSE [W |-> Taken(take[k + 1].W, k + 1, take[k + 1].Cells),
              Cells |-> Hashes(take[k + 1].W.Level[k + 1].Data \o take[k + 1].Cells)]
  IN Taken(take[0].W, 0, take[0].Cells)

\* What is filled up is not written out.
AlignBufferMutant(w, l, alignment) ==
  LET n == Len(w.Level[l].Data) IN
  [w EXCEPT !.Level[l].Data = @ \o Zeros(Align(n, alignment) - n)]

AlignBuffer(w, l, alignment) ==
  LET n == Len(w.Level[l].Data) IN
  WriteBuffer(w, l, Zeros(Align(n, alignment) - n))

Buffers == [Level |-> level, Out |-> out]

Become(w) == level' = w.Level /\ out' = w.Out

-----------------------------------------------------------------------------
(* updateLevelBuffer                                                       *)

WriteHeader ==
  /\ phase = "header"
  /\ Become(AlignBuffer(WriteBuffer(Buffers, 0, [k \in 1 .. Header |-> HeaderCell(k)]), 0, Hash))
  /\ phase' = "meta"
  /\ UNCHANGED <<inputVars, next, align, failed>>

WriteMeta ==
  /\ phase = "meta"
  /\ Become(WriteBuffer(Buffers, 3, Cells(0, meta)))
  /\ phase' = "files"
  /\ UNCHANGED <<inputVars, next, align, failed>>

\* Places are counted from the end of the metadata.
GapMutant(offset) ==
  Level3Offset + meta + offset - (level[3].FilePos + Len(level[3].Data))

\* From what is written up to the place of the next file.
Gap(offset) ==
  Level3Offset + DataOffset + offset - (level[3].FilePos + Len(level[3].Data))

\* The files follow each other as they were packed, or go where remap() put them,
\* and those without data are left out then.
WriteFile ==
  /\ phase = "files"
  /\ next \in DOMAIN files
  /\ LET file == files[next]
         before == IF remapped THEN WriteBuffer(Buffers, 3, Zeros(Gap(file.Offset)))
                   ELSE AlignBuffer(Buffers, 3, FileAlignment)
     IN \/ /\ remapped /\ file.Size = 0
           /\ UNCHANGED <<level, out, failed>>
        \/ /\ ~(remapped /\ file.Size = 0)
           /\ Become(WriteBuffer(before, 3, Cells(next, file.Size)))
           /\ UNCHANGED failed
        \/ /\ ~(remapped /\ file.Size = 0)
           /\ Become(before)
           /\ failed' = failed \cup {next}
  /\ next' = next + 1
  /\ UNCHANGED <<inputVars, phase, align>>

\* The levels of hashes are filled up before the data.
AlignOrderMutant == <<0, 1, 2, 3>>

AlignOrder == <<3, 2, 1, 0>>

EndFiles ==
  /\ phase = "files"
  /\ next \notin DOMAIN files
  /\ phase' = "align"
  /\ align' = AlignOrder
  /\ UNCHANGED <<inputVars, next, level, out, failed>>

AlignLevel ==
  /\ phase = "align"
  /\ align # <<>>
  /\ Become(AlignBuffer(Buffers, Head(align), Block))
  /\ align' = Tail(align)
  /\ UNCHANGED <<inputVars, phase, next, failed>>

Close ==
  /\ phase = "align"
  /\ align = <<>>
  /\ phase' = "done"
  /\ UNCHANGED <<inputVars, next, align, level, out, failed>>

-----------------------------------------------------------------------------

\* Files in the order of their places, each behind a gap; without gaps it is the
\* layout of pushFileEntry.
Layout(sizes, gaps) ==
  LET end[i \in 0 .. Len(sizes)] ==
        IF i = 0 THEN 0 ELSE Align(end[i - 1], FileAlignment) + gaps[i] + sizes[i]
  IN [i \in 1 .. Len(sizes) |-> [Offset |-> end[i] - sizes[i], Size |-> sizes[i]]]

Init ==
  /\ meta \in MetaSizes
  /\ remapped \in BOOLEAN
  /\ \E n \in 0 .. MaxFiles :
       \E sizes \in [1 .. n -> Sizes], gaps \in [1 .. n -> IF remapped THEN Gaps ELSE {0}] :
         files = Layout(sizes, gaps)
  /\ phase = "header"
  /\ next = 1
  /\ align = <<>>
  /\ level = [l \in Levels |-> [Data |-> <<>>, FilePos |-> Start(l)]]
  /\ out = [x \in 0 .. (End(2) - 1) |-> Zero]
  /\ failed = {}

Next == WriteHeader \/ WriteMeta \/ WriteFile \/ EndFiles \/ AlignLevel \/ Close

Spec == Init /\ [][Next]_vars

-----------------------------------------------------------------------------
(* Properties                                                              *)

TypeOK ==
  /\ phase \in {"header", "meta", "files", "align", "done"}
  /\ next \in 1 .. (Len(files) + 1)
  /\ \A l \in Levels : level[l].FilePos \in Nat /\ Len(level[l].Data) \in 0 .. (Block - 1)
  /\ failed \subseteq DOMAIN files

\* However the buffers of the levels fill up, no level is written past its region, by the
\* sizes computed before a byte was, and the file keeps its length (romfs.cpp
\* initLevelBuffer, writeBuffer).
RegionsKept ==
  /\ \A l \in Levels : Start(l) <= level[l].FilePos /\ level[l].FilePos <= End(l)
  /\ DOMAIN out = 0 .. (End(2) - 1)

\* Data reaches into the last block: no file without data lies far behind the others.
DataFillsLevel3 ==
  LET ends == {DataOffset + files[i].Offset + files[i].Size :
                 i \in {j \in DOMAIN files : files[j].Size # 0}}
  IN Align(Max({meta} \cup ends), Block) = Align(Level3Size, Block)

\* The place of the hash of block b of level l, in the level above.
HashPlace(l, b) == (IF l = 1 THEN Align(Header, Hash) ELSE Start(l - 1)) + b * Hash

\* A reader who goes by the sizes in the header finds every block of the levels 1 to 3
\* hashed in the level above (romfs.cpp updateLevelBuffer), when all files could be read.
ChainVerifies ==
  phase = "done" /\ failed = {} /\ DataFillsLevel3 =>
    \A l \in 1 .. 3 : \A b \in 0 .. (LevelSize(l) + Block - 1) \div Block - 1 :
      LET block == [k \in 1 .. Block |-> out[Start(l) + b * Block + k - 1]] IN
      \A k \in 1 .. Hash : out[HashPlace(l, b) + k - 1] = HashOf(block)[k]

\* The data of every file is where its entry says; a file that cannot be read does not
\* move the others of a remapped image (romfs.cpp updateLevelBuffer).
DataInPlace ==
  phase = "done" /\ (remapped \/ failed = {}) =>
    \A i \in DOMAIN files \ failed : \A k \in 1 .. files[i].Size :
      out[Level3Offset + DataOffset + files[i].Offset + k - 1] = Cell(i, k)
=============================================================================
