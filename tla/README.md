# 3dstool in TLA+

Formal models of the parts of 3dstool (`src/src/`) whose correctness depends on
more than a straight line of reads and writes, the TLC runs that check them and
the TLAPS proofs about them. 3dstool is a sequential command line program: it
packs and unpacks the containers of 3DS software (NCSD, NCCH, ExeFS, RomFS,
banner), compresses and encrypts, makes and applies binary patches, and
downloads keys. What is hard in it is not threads but *layouts*: offsets that
must never overlap over long sequences of operations, data moved inside one
file, images built on top of images, files changed in place by a program that
may be killed, windows that slide, and in one place many network requests that
end in any order.

To check a run: `tlc -config <Name>.cfg <Module>`; to check the proofs:
`tlapm SpaceProofs.tla`, and the same for `RemapProofs`, `RomFsProofs`,
`CompressionProofs`, `ExtKeyProofs`, `TitleProofs`, `NcsdProofs` and `PatchProofs` (`PatchProofs`
and `RomFsProofs` take some ten minutes each). `PROJECT.json` lists
the runs, the mutants that show that each property can fail, the source lines behind
each definition, the hazards and the findings.

## 1. The system

| Component | State it keeps | Operations | Talks to |
|---|---|---|---|
| `C3dsTool` (3dstool.cpp) | the options | parse, check, dispatch one action | creates one object of the others per run |
| `CNcsd` (ncsd.cpp) | header, card info, the file | extract, create, trim, pad, analyze | reads NCCH files; `CPatch` uses `Analyze` |
| `CNcch` (ncch.cpp) | header, table of regions, keys, the map of ext keys | extract, create, encrypt, download, analyze | `CUrlManager` for keys, `C3dsCrypt`, files of the regions |
| `CUrlManager`, `CUrl` (url_manager.*) | the set of requests under way | `HttpsGet`, `Perform`, `Cleanup` | calls back `CNcch::onHttpsGetExtKey` |
| `CRomFs` (romfs.cpp) | tables of directories and files, hash buckets, stacks, four level buffers | extract, create, travel | `CSpace`; a second `CRomFs` for the reference image |
| `CSpace` (space.cpp) | list of free extents | `AddSpace`, `SubSpace`, `Clear`, `GetSpace` | `CRomFs::remap` only |
| `CPatch` (patch.cpp) | the three files, the command stream | create, apply | `Analyze` of `CNcsd` and `CNcch` |
| `CExeFs` (exefs.cpp) | header with eight sections | extract, create | `CBackwardLz77` for `.code` |
| `CBackwardLz77`, `CLz77`, `CYaz0`, `CHuffman`, `CRunLength` | window and chains, trees, positions | compress, uncompress | - |
| `CBanner`, `CCode`, `C3dsCrypt`, `CBigNum` | headers, instructions, counters | straight-line conversions | - |

How they interact: one process does one action and ends, so objects interact by
calls, and *runs* interact by files. An image built by one run is the reference
of the next (RomFS); a patch made by one run is executed by another on a file
that an interrupted third may have left half done; a card image is created,
trimmed, padded and taken apart by different runs; `ext_key.txt` is read and
rewritten by all of them. The only callbacks are those of the requests.

Which behaviours are hard, and what makes each component correct:

* **Free list.** Merging on both sides, splitting, and a search for the first
  fit, on a list whose callers ignore the results. Correct: it is the set of
  free units, whatever the order of calls.
* **Remap.** Files of a reference are kept, released or moved, and the free
  tail is cut off. Correct: no two files share a byte, none lies behind the end
  of the image, those that fit stay.
* **RomFS tree.** Entries link each other by position while a table is built and
  shrunk, by offset afterwards. Correct: extracting gives the tree back, a
  lookup by hash finds each entry.
* **RomFS levels.** Four regions with sizes computed in advance are written
  through four buffers that feed each other. Correct: a reader finds every block
  hashed and every file in its place.
* **Patches.** Parts of a file are moved over each other in place. Correct: the
  target becomes the new file, and one that was left half done is not taken for
  it.
* **Card images.** Header, card info and length change in place and can be out
  of step after a kill. Correct: no reserved partition loses a byte, trim and
  pad undo each other, what was taken apart can be put together.
* **Ext keys.** A window of requests, three counters, a cache that is rewritten
  as a whole. Correct: nothing is skipped or asked for twice, every run ends,
  the cache only grows.
* **NCCH, ExeFS.** Regions and sections behind each other with hashes and keys,
  from a header file that describes another image and from files of which some
  are missing or wrong. Correct: header and hashes describe what was written,
  regions do not overlap, extract gives back what create was given.
* **Compression.** Correct: uncompress undoes compress, and a file that lost its
  end is not taken for a shorter one; BLZ in place never overwrites what it has
  still to read; the search stays inside the window; every code of a Huffman
  table can be reached in the table.

## 2. Modules

Every module starts with how its state and actions correspond to the code; this
is the overview. Names are those of the source where TLA+ allows it.

**`FreeSet`** is the abstract specification of `CSpace`: a set of free units.
`Add` and `Sub` answer whether they could, `Get` returns the lowest position
where a size fits, or -1.

**`Space`** is the list of `space.cpp`. Each method of the code is a loop that
acts at the first element meeting one of several conditions; the model has the
set of elements at which the loop can stop, and what happens there: `AddStops`
and `AddedAt`, `SubStops` and `SubtractedAt`, `Roomy`. `ImplementsFreeSet` is
the refinement of `FreeSet`, with `Units(buffers)` for the free units. The one
obligation of the caller is the guard `~Swallows` of `AddSpace`: the method
looks only at the two ends of the new extent and does not see a free extent
strictly inside it. `RomFsRemap` shows that its only caller respects it:
`FreeIsUnused` includes `Space!Coalesced`.

**`RomFsRemap`** is `CRomFs::remap` with `pushFileEntry`'s packing as first
generation; it instantiates `Space` and calls its actions. One step packs one file
(`PushFileEntry`, in any order: the directories decide), visits one file of the
reference (`ScanReference`), cuts the tail (`TrimTail`), or places one file
(`Place`). The vector of files to move is a set, and `Before` is the order in which
the stable sort by level leaves it. Each image is the reference of the next. The union of `FileOffset` and `RemapIgnoreLevel` is kept:
`RemapIgnoreLevel(p)` reads the offset.

**`RomFsTree`** is the rest of `CreateFile` up to the metadata, and
`ExtractFile`: `ReadDirectory`/`NextDirectory` (one turn of the loop over
`createEntryList`), `RemoveEmptyDir` (one turn of `removeEmptyDirEntry`),
`PlaceDirs`, `CreateHash` (with `redirectOffset`), `Extract` (one turn of the
loop over the extract stack). Names are numbers; the size of a name is its
number, so that offsets differ. The loop of `computeBucketCount` is a choice of the least
number without a small prime in it, which is found in as many numbers as the product of
these primes. `travelFile` walks in the same way.

**`RomFsLevels`** is `createHeader` to `alignBuffer`. The mutual recursion of
`writeBuffer` over the levels is in three parts: `Taken` is what one level does with the
cells it is given, `Hashes` what it hands to the level above, and `WriteBuffer` goes
up through the levels. The code hands a hash up before it writes its block out; each
level has its own buffer and its own place in the file, so the order of the two makes
no difference. One step of the specification is one call on level 0 or 3 by
`updateLevelBuffer`. A hash is the block it was made of, so equal hashes mean equal
blocks.

**`Patch`** has both programs. `BeginDiff`, `DiffPartition` (one turn of the loop
of `createNcsdPatchFile`), `DiffPart` (one of `createNcchPatchFile`), `DiffHeader`,
`DiffNcsdHeader`, `ClosePatch` write the commands; `CheckTarget`, `ExecuteMove` (one
chunk of a move), `ExecuteCommand`, `Interrupt` execute them. A byte stands for a
media unit. The order of partitions and that of parts come from the same
operators, `Waiting` and `Ready`, as the two loops have the same conditions.
`Analyze` and `AnalyzeNcsd` have the rules for what is absent.

**`Ncsd`** is `CNcsd`: `BeginCreate`, `CreateNcch` (one partition), `CloseImage`,
`TrimFile`, `PadFile`, `ExtractFile`. The two operations in place have a result
and a set of states in which a kill can leave the file: stdio holds header and
card info back while the file is cut or filled, so any mixture of old and new is
possible.

**`ExtKey`** is `Download`, `CUrlManager`, the cache file and what
`calculateKey` makes of it. `Perform` is one pass over the requests in which any
non-empty set of them has ended with anything. A record is "good" or "bad":
whether it verifies. A key is delivered only for ids whose key the server has.
`Kill` may happen anywhere; while the file is written it leaves a prefix of the
records, the last maybe cut.

**`SlideWindow`** is the search window of the LZ coders: a ring of slots and, for
each byte value, a chain through the slots that hold it, linked both ways.
`Dropped` and `Entered` are the two halves of `slideByte`; `SlideWindowSpec`
slides over any input. `ChainsHoldWindow` says what the tables must contain.

**`Coder`** has what a run of `compressFile` or `uncompressFile` knows: the bytes
that are compressed, the file, where the reader is, the phase, and `CutShort`: a
file that lost its end between the two runs. **`LzCoder`**, **`RunLength`** and
**`Huffman`** are the coders, in both directions and one match, block, node or
word per step. `LzCoder` has LZ10, LZ11, Yaz0 and BLZ, which differ in where the
search begins, how far and how long matches are, and how they are packed: LZ10
and LZ11 try the oldest place first and want a distance of 2, Yaz0 the newest
and 1, with a look at the next byte (`Ahead`), BLZ the newest, a distance of 3
and no match longer than its distance. BLZ also has the second pass (`Trim`), and
is uncompressed in place from the end (`TakeBlz`). `Huffman` merges the tree,
places its nodes one after another (`MakeSubset`, `MakeSubsetRow`, `SetOneNode`),
and reads the table back (`TakeWord`).

**`Codec`** is what the option promises: a file is compressed, or refused where
the format may refuse it; what was compressed is uncompressed to the same bytes;
what lost its end is reported, unless all its bytes are still there.
**`Compression`** puts the coders together and maps their state to `Codec`
(`ImplementsCodec`). Run length and BLZ are not cut short: `CRunLength` looks for
the end of the file only at the head of a block, and BLZ reads its sizes from the
end, which is gone.

**`ExeFs`** is `CExeFs`, a section per step; **`Ncch`** is `CNcch` without `Download`,
a region per step. Bytes are told by the file they come from and their place in
it, a key stream by key, counter and place, so that a byte under two streams, or
under the wrong one, is no byte of a file. **`Title`** composes the two: the
ExeFS file that one makes from a directory is a region of the other's image,
which is then taken apart by a program that learns from the header how. That the
compressed code section fits and comes back is taken from `Codec`.

**`Tool`** is `C3dsTool` with one job of either kind, `Compression` or `Title`.

Modules called `MC...` only name an instance; the configurations have the
constants. Operators called `...Mutant` are definitions with a plausible slip.
They are used by nothing in the models and show that the properties can fail.

## 3. Runs

| Run | Instance | States | What it shows |
|---|---|---|---|
| `space` | addresses 0..8 | all lists | order, merging, refinement of `FreeSet` |
| `remap` | 3 paths, sizes 0, 1, 4, two data starts, at most one path with a rule, 3 generations | chains of builds | `TrimmedImagesWellFormed`, `FreeIsUnused`, `GaplessTailIsCut`, `NoCallRefused`, `FilesStay` |
| `remap_gaps` | 3 paths of one size, 3 generations | - | violation, finding 1 |
| `patch` | 3 parts of sizes 0, 1, 4 in two kinds of NCCH and in plain files; 18 layouts of a card of 3 partitions; 1 interruption | 343 000 | `TidyPatchedIsNew`, `ClaimedOnlyWhenComplete`, `MovesFindOldBytes`, `Completes` |
| `patch_shrink` | the NCCHs without the restriction | - | violation, finding 2 |
| `romfs_tree` | 3 directory names two deep, 2 file names, 6 entries, 1 failure | 130 000 | `LinksLeadToChildren`, `ExtractedIsSource`, `LookupFindsEntries` |
| `romfs_levels` | 3 files of sizes 0 to 11, blocks of 4 with hashes of 2 | 174 000 | `RegionsKept`, `ChainVerifies`, `DataInPlace` |
| `ncsd` | 3 partitions, 2 card types, 2 media units, 1 kill, 1 rebuild | 137 000 | `ImageWellFormed`, `PartitionsKept`, `PadUndoesTrim`, `RebuiltIsSame` |
| `ext_key` | 3 ids, window of 2, 2 runs, 1 kill | 172 000 | `Accounting`, `CacheGrows`, `TitleGetsItsKey`, `RunsEnd` |
| `ext_key_stale` | the same without kills | - | violation, finding 3 |
| `tool` | 2226 files for the seven compression types, and 1531 titles | 150 000 | `ImplementsCodec`, `ChainsHoldWindow`, `InPlaceKeepsInput`, `TreeHoldsCodes`, `SectionsDescribeFile`, `HeaderDescribesImage`, `ExtractedIsGiven`, `TitleEnds` |
| `blz_exhausted` | BLZ on 18 different bytes | - | violation, finding 4 |

Why the bounds are enough to be of interest:

* `space`: with eight units there are lists of four extents, so there is always
  an element before, at, between and behind the point where a loop stops. The
  proof removes the bound.
* `remap`: three generations are needed for a hole in a reference to exist (the
  second build makes it, the third meets it); sizes around the alignment of 2
  make files that just fit, shrink by less than a unit of alignment, and have no
  data; two starts make the metadata grow and shrink.
* `patch`: three parts give a middle part with a neighbour on both sides that
  moves up while another moves down; size 4 is larger than both buffers (2), so
  moves take several chunks and overlap, and writes are split. A partition of a
  card is as large as it moves or larger, so whole partitions overlap when they
  move; three of them give one in the middle and absent ones on either side.
* `romfs_tree`: six entries allow a directory that becomes empty by the removal
  of its child, a removal between siblings, and three entries in one bucket.
* `romfs_levels`: up to 45 cells of data make up to a dozen blocks at level 3, six at
  level 2 and three at level 1, with sizes that end exactly at a block and just before.
* `ncsd`: partitions of less than a unit, and of more than one block; an absent
  one before, between and behind others; a first partition that is too short; two
  capacities of a card, of which the smaller does not hold every image.
* `ext_key`: the window is smaller than the range, so requests are started while
  others are under way, and two can end in one pass.
* `tool`, files: all constants of the formats are scaled down together, the
  window to 8, the codes of a nibble to 4, a group to 4 flags, the six bits of a
  Huffman offset to 6 with 16 symbols. Then files of up to 29 bytes have matches of
  every form and of every limit, a window that slides several times around, flags
  that fill a group exactly, and trees whose nodes cannot be placed in the order
  of a walk. All short files over two bytes are there; the longer ones are
  chosen for such cases.
* `tool`, titles: sizes in steps of 0x100, so that media units (2 or 4 of them)
  and blocks (16) are larger than a file, and every file may be missing or too
  short, and those of the ExeFS and the RomFS, the two that the code looks at,
  encrypted; every combination of keys that are known, unknown or bad
  now and later; directories with any of their files missing, and sections in
  several orders.

Deadlock is not checked where the models end on purpose: a chain of builds, a
patch that is applied, a tree that is extracted, an image that is written, a
program that has used up its runs, a card that cannot be trimmed, a job of the
tool that is done.

**Fairness.** `Tool` has weak fairness of `TitleStep`: the program is one thread,
and nothing keeps it from its next step. The loop over the sections of an ExeFS
steps back, so that it ends (`TitleEnds`) is not clear from its form. `Patch` has weak fairness of its whole next-state relation: both
programs are sequential and go on until they end. `ExtKey` has it for the steps
of the program, not for kills or for starting a run: the loop polls without
waiting, and curl is taken to end every transfer some time, with an error if need be.
The code sets no timeout, so this is an assumption about the environment;
without it a server that keeps a connection open forever keeps the program.

## 4. Proofs

`SpaceProofs` proves for lists of any length and every `MaxOffset`:

* `TypeCorrect`: `Spec => []TypeOK`,
* `CoalescedInvariant`: `Spec => []Coalesced`,
* `Refinement`: `Spec => ImplementsFreeSet`.

The assumption is `MaxOffset \in Nat`. `TypeOK` alone is not inductive, and
neither is the refinement without the order of the list: `AddSpace` looks at one
element and its successor, and that nothing further back overlaps follows only
from the order. The inductive invariant is `IInv`: the types, and `Ordered` (no
empty extent, each ends strictly before the next begins). The argument has three
layers:

1. *Edits.* `InsertProperties`, `EraseProperties`, `ReplaceProperties` say
   position by position what the two list edits do; `InsertOrdered`,
   `EraseOrdered`, `ReplaceOrdered` when they keep the order.
2. *Stops.* All elements before the one at which a loop stops lie before the
   argument (`PassedBuffers`), so in `AddedCorrect` and `SubtractedCorrect` the
   edit at that one element adds or takes exactly the units of the argument, and
   a refusal means that some of them were free, or not (`RefusedOverlaps`,
   `RefusedIsUsed`). `FirstFitCorrect`: the first extent with room gives the
   lowest position, because extents never touch and a free run lies in one of
   them.
3. *Actions.* `AddStep`, `SubStep`, `ClearStep`, `GetStep` and `StepCorrect`: each
   step keeps `IInv` and is a step of `FreeSet`, or a stutter.

`RemapProofs` proves, for every set of paths, sizes, data starts and rules, every
alignment and chains of any number of builds:

* `FreeIsAlwaysUnused`: `Spec => []FreeIsUnused`,
* `TrimmedImagesStayWellFormed`: `Spec => []TrimmedImagesWellFormed`,
* `CallsAreNeverRefused`: `Spec => NoCallRefused`,
* `GaplessTailIsAlwaysCut`: `Spec => GaplessTailIsCut`,
* `FilesAlwaysStay`: `Spec => FilesStay`,
* `TypeCorrect`: `Spec => []TypeOK`.

`RemapAssumption` says that paths and sizes are numbers and that a data start is
aligned, as `createMetaInfo` makes it. All but the last two speak of chains in which
every tail could be cut; finding 1 is why they must. Where one could not, the damage
goes on: a file behind the end of the image is a place behind the end of the next
reference, so that what is behind the last file is negative there. `SubSpace` with such
a size may be refused although there is no hole, or may put a free extent in front of the
metadata, where a file gets a negative offset. Chains of four builds have the first,
so `GaplessTailIsCut` needs `trimmed` as well, and of five the second, so `TypeOK`
gives offsets the type `Int` and says `Nat` only for `trimmed`; the three builds of
the run are too few for either.

The invariant `IInv` has `trimmed` in front of all but two types, and these parts:

1. *Rooms.* A file that has its place has a room of whole units of the alignment for
   itself (`PlacedInv`, `GoodImage`). Bytes alone would not do: a file that moves
   behind the end starts at the next unit, and what a shrunk file frees starts there.
2. *Free units.* They are whole units (`WholeUnits`), so that the top of any extent is
   a place for a file (`BufferTops`), and no room has one of them (`FreeInv`,
   `PlacedInv`). Free units added or taken are units of one room (`PlaceFreed`).
3. *Scan.* What is still to be visited lies where it lay, behind the new metadata
   (`OldPlaces`: `Clipped` gives away only the head of a room), and a file that was kept
   lies in its old room. So the cut begins before the end of the reference
   (`LastKept`), and behind the cut nothing is free.

`CoverInv` adds for `GaplessTailIsAlwaysCut` that in a reference without holes every unit
behind the metadata is free, or is in a place still to be visited or in one that was
kept. A visit hands the units of a place on to one of these (`HandedOn`), so behind
the last file that was kept all units are free, and with the order of the list the cut
is one extent.

`FilesAlwaysStay` and the types hold in every chain, so `StayInv` knows nothing of rooms
and of the list only that it is one of extents with whole numbers (`CallsKeepType`).
It says that a file that may stay is still to be visited or is at its old offset, that
what is still to be visited is what the reference had, clipped, and that the union of
a file without a place holds its level.

The lists come in through `SpaceProofs`, instantiated like `Space` itself:
`AddedUnits` and `SubtractedUnits` turn what its lemmas say of lists into sets of
units. `AlignProperties`, `AlignSum` and `AlignedApart` carry the arithmetic.

`RomFsProofs` proves of `RomFsLevels`, for all sizes of blocks, hashes, header and metadata, any
number of files of any sizes, packed or remapped, and whichever of them cannot be read:

* `RegionsAlwaysKept`: `Spec => []RegionsKept`,
* `ChainAlwaysVerifies`: `Spec => []ChainVerifies`,
* `DataAlwaysInPlace`: `Spec => []DataInPlace`,
* `TypeCorrect`: `Spec => []TypeOK`.

`RomFsLevelsAssumption` says that sizes are positive, that a block has whole hashes, more
than one, and whole units of the alignment of files (the code has 0x1000, 0x20 and 0x10 bytes),
and that `remap` leaves whole units between files. The argument:

1. *Everything a level was given.* The buffers forget what they wrote out, so the invariant
   speaks of sequences `S`: `S[l]` is all the cells that were ever handed to level `l`.
   `IsWritten` says that of these the whole blocks are in the file, from `Start(l)` on, and
   the rest is in the buffer, and that all of it fits the region. In terms of `S`
   a level only grows at its end, and what goes on between buffer and file is the
   business of one lemma, `TakenIs`.
2. *Chain.* `Linked(S, k)` says that the hash of every whole block of level `k` is in the
   level above, at its place, and `Exact` that nothing else is behind these hashes yet. `PassedOn`
   goes one level up, `WriteKeeps` all the way: whatever fills up on the way, the chain
   is kept. The hashes of whole blocks fit the levels that were sized before
   a byte was written, and fill them exactly when all blocks are there (`HashesFit`).
3. *Files.* `FilesWritten` says of level 3 that each file up to the one at work is at its
   place; `BeforeKeeps` has the gap or the alignment in front of the next, `StoredIs`,
   `LostIs` and `SkippedIs` its three ways to end. A file that is lost from an image that is
   not remapped moves those behind it to the front, so from then on only the room is known.
4. *Filling up.* `Aligned` says which levels are complete. The levels are filled from 3
   up to 0, and `AlignStep` needs this order: what is put behind a level of hashes must
   come after its last hash, which is what `Exact` of the level below says. That level 3 is
   filled up to the size in the header needs `DataFillsLevel3` (`FilesFill`), and the
   properties have it as a precondition.

The layout of the files is a recursive function; its ends exist and are in order, as the
smallest one that was not would have one before it that was not either (`EndsExist`). `LevelsInv`
joins the parts by phase, with one lemma per action, and `ChainIs` and `FileIs` read the
properties off what is in the file at the end.

Its second half proves of `RomFsTree`, for all trees of any depth and any names:

* `LinksAlwaysLead`: `TreeSpec => []LinksLeadToChildren`,
* `LookupAlwaysFinds`: `TreeSpec => []LookupFindsEntries`.

`RomFsTreeAssumption` says that names are positive numbers (their sizes), that there are
finitely many, and that no directory has the name of a file. The argument:

1. *Rows.* While positions link the entries, `Table(D, F)` says that the entries of one parent
   stand side by side, in the order of their names, each linked to the next, and that
   the parent has the first. This is what `removeDirEntry` relies on when it takes the
   neighbour of the removed entry for its previous sibling. It is kept by listing, since
   the children of a directory are pushed in one go, and by a removal, since the entry that goes has
   no children, so that no row but its own loses one. `LinksLeadToChildren` follows: a
   chain of siblings that starts at the first of a row ends with its last.
2. *Stack.* That a directory is read once, and when it still has no children in the table, is
   the matter of `Listed`: the elements of the stack have disjoint sets of directories still to
   be read (`Pending`), and what is not among them has been read (`ReadAlready`).
3. *Image.* `PlaceDirs` gives the directories growing offsets, as listing did the files
   (`Growing`). `Image` relates what is written to the table it came from: each link is
   turned into the offset of what it led to (`LinkTo`), and the buckets go back through
   all entries with the same key (`Hung`). As no two entries have a parent and a name
   in common, `BucketMeets` and `DirLookup`, `FileLookup` find the entry and no other. What
   the hash of a name is plays no part, and of the number of buckets only that it is not 0
   (`BucketCounts`).

`TableInv` and `ImageInv` are the two invariants, `KeepTable` and `KeepImage` have one step per action.

`CompressionProofs` first proves `ChainsAlwaysHoldWindow`: `SlideWindowSpec =>
[]ChainsHoldWindow`, for every window size and every set of bytes (the assumption
of `SlideWindow`: the size is positive). The inductive invariant `WindowInv` adds
the types. A step takes the oldest slot out of one chain and puts the same slot
at the end of another, which may be the same chain. While it does, the slots are
no window, so the argument is about any set of slots `K` with a place `P` and a
value `V` for each: `Linked(w, K, P, V)` says that the chains of `w` run through
`K` by place. `DropKeepsLinks` and `EnterKeepsLinks` show it kept when the first
slot goes and a last one comes; `LinkedIsChains` that for the places in the ring it
is `ChainsHoldWindow`; `PlacesKept` that a slide leaves the places of the other
slots in order although the ring turned.

It then proves `InputKept`: `CompressionSpec => []InPlaceKeepsInput`, for every
file, window and alignment, any number of tokens in a group and any sizes of the fields
(`LzAssumption`: the code of a length is one of at least three, and the footer
has its three numbers). `CBackwardLz77::Uncompress` checks nothing of the kind while it
writes over the buffer it reads from; that this is right is due to the second pass of
`Compress`, which cuts the code off where it would be overtaken. The search plays no
part in this: the proof holds for whatever length and distance it gives. The inductive
invariant, `CompressionInv`, has one part for each phase, and follows one code through them:

1. *Points.* A code has a set of points, those between its tokens, where a reader can be:
   what it has read and written there, the bits left in the flag byte and where
   that byte is. `IsParse` says that a set `R` is all of them, in order. This takes the place of
   a recursive definition of reading, which the provers could not unfold.
2. *Packing.* A token adds a point at the end of the code, and writes to one byte that is
   not at the end: the flag byte of its group. `IsOpen` says that this byte has the bits
   of the tokens so far and zeros behind them, so a further bit leaves the former as they
   are (`NextBit`, by powers of two) and the old points stay points (`ParseGrows`).
3. *Second pass.* It is a reader of the same points. `IsKept`: at no point up to where it
   is was more code left to read than bytes left to write. Where the code begins
   to be longer than what it stands for, it stops (`TokenTrimmed`) and the rest of the file is
   stored as it is. `IsCut` says what this is good for: in the buffer of `Uncompress`, where the
   code comes behind `b` bytes, no point has written more than it has left behind.
4. *In place.* `Uncompress` meets the same points, as long as the code from its own
   on is untouched (`IsAhead`). What it writes for a token ends before the next
   point, which is `IsCut` for that one, so the code is still untouched there.

4 is where the property alone is not inductive: that the writer has not passed the reader now
says nothing of the tokens to come, and only the code as `Compress` wrote it does.

`ExtKeyProofs` proves, for every range of ids, every window and any number of runs
and kills:

* `TypeCorrect`, `AccountingInvariant`, `CacheGrowsInvariant`, `TitleKeyInvariant`:
  `Spec => []P` for `TypeOK`, `Accounting`, `CacheGrows`, `TitleGetsItsKey`.

The assumptions are those of `ExtKey`: finitely many ids, which with two ids have
all between them (ids are the numbers of five hex digits); positive bounds.
`CacheGrows` speaks of the end of a run and of its beginning, so the invariant
says what holds in between: `KeysKnown` (the map has the records the run read and,
for other ids, exactly what was delivered), `FileKept` (the file is what was read
until it is opened, and complete once it was written) and `RangeKnown`. With
`Accounting`, which says which ids the pending, the delivered and the coming
requests are, each action has one lemma; `PerformStep`, where any set of requests
ends at once, carries the arithmetic of the three counters.

`TitleProofs` first proves `SuperBlockDescribesFile`: `TitleSpec =>
[]SectionsDescribeFile`, for every number of sections, every block size and every
directory, whatever files are missing. The assumption, `ExeFsAssumption`, says that
sizes are positive, that a title's section names and paths are strings and that its
files have sizes. `SectionsDescribeFile` speaks of a super block that is finished;
while it is made, the section at work divides it, and the invariant `IInv` says
that those before it are `Described` and those behind it still come from the header
file. `ClearStep` needs this: what is taken out moves only sections that are not
described yet. `CreateStep` needs that what is put behind a file and padded leaves
the bytes of the sections before it where they are (`KeptBytes`, on top of
`AlignedToProperties` and `AppendedBytes`). `NcchStep`: no step of `CNcch` disturbs
the super block while it is looked at.

It goes on from there and proves `HeaderAlwaysDescribesImage`: `TitleSpec
=> []HeaderDescribesImage`, for every size of the media unit, every mode and key,
every set of region files. `NcchAssumption` says that sizes are positive, that a block
has whole media units where regions are aligned to blocks (the hazard at
ncch.cpp:267), and that a region file that is there is not empty: an empty one
leaves a place without a size in the header. Again the region at work divides the
header: `ImageInv` says that the regions before it are `Placed` and that the image
ends on a unit, which is where the next one begins. `RegionStep` shows this kept for
anything that `Fits` what the header says of it, and each action is shown to write
something that does. Three facts carry it: between two whole numbers of units there
is room for whole units only (`WholeUnits`), a key stream changes no byte under it
(`CryptedShades`), and the three parts of an ExeFS under two keys join to the whole
(`ExeFsCryptedProperties`), for which the first section has to end within the file:
that is `IInv`.

At last it joins both and proves `ExtractedIsAlwaysGiven`: `TitleSpec =>
[]ExtractedIsGiven`, for every set of files, sections and modes. `TitleAssumption` adds
to the assumptions above what the round trip needs of its input: a file has a size
at which it can be told from its packed form (`PackableSize > 1`), the mode is one of
the three of the command line, and only the first section is named "code" (two of
them share one file, exefs.cpp:174, 183). The invariant `TitleInv` follows a byte of
a file through the stages and back:

1. *In.* The file lies at its place in the section (`Stored`, `ImageKept`), the ExeFS
   is what the region is filled with (`Regions`), and the region lies under its key stream in
   the image (`AllExtracted`: `Holds` and `StandAt`).
2. *Keys.* `KeysInv` says that the reader finds the mode and the keys of the writer in
   the header, which is where "Auto" can go wrong; it is the one part with the ext key.
3. *Out.* The same stream twice undoes itself (`ToggledTwice`), so `CryptedBack`
   gives the region back, `ExeFsCryptedBack` the ExeFS, whose parts are under two keys;
   `BeginBehind` and `SectionBack` give back the section, unpacked when it was packed,
   and `MadeComesBack` the file, at the path it was read from (`SamePath`).

As before each action has one lemma, and one more for each part of the invariant it
can disturb.

`NcsdProofs` proves, for every number of partitions, every size of partitions and
cards, every media unit and any number of kills and rebuilds:

* `ImagesAreWellFormed`: `Spec => []ImageWellFormed`,
* `PartitionsAlwaysKept`: `Spec => []PartitionsKept`,
* `PadAlwaysUndoesTrim`: `Spec => []PadUndoesTrim`,
* `RebuiltIsAlwaysSame`: `Spec => []RebuiltIsSame`,
* `TypeCorrect`: `Spec => []TypeOK`.

`NcsdAssumption` says of the constants what those of the code satisfy: a block has
whole media units, `UnitsPerBlock` units of any kind are whole blocks, the first
partition begins on a block and cards are whole blocks. `MaxNcch` bounds the size of an
NCCH file, so that all partitions fit a card: the code tries capacities up to
2^63 bytes and does nothing when none is large enough. The invariant `Inv` is made of
what holds at each phase:

1. *Creating.* `End(img, n)` is where the first `n` partitions end. Before the partition
   at work all are `Packed`: each begins where those before it end, on a whole unit, or
   is absent; and they hold their files (`Kept`). The image is `End` long, so
   there are no gaps, and what is put next begins there (`CreateInv`, `PutFacts`).
2. *Complete images.* `Complete(img, f)` has the valid size, the media size and
   the filling for the form `f`. From it and `Packed` follows `ImageWellFormed`.
3. *In place.* `ImageWellFormed` does not survive a kill, and it must be so again
   after the next trim or pad. What survives is `Left(img, m, r)`, in terms of
   the image `m` that was made: the table is that of `m` cut behind some partition `n`,
   and the bytes are those of `m` up to the end of partition `r`, the last one reserved.
   The two differ, `r <= n`, since a kill may leave the old table with a file that was
   cut already; another trim or pad then makes up bytes for what is missing, but only
   of partitions that some trim was to drop. `TrimmedLeft` and `PaddedLeft` show
   `Left` kept by the result of an operation and by all that kills leave of it.
   `SameImage`: with nothing dropped, `Left` and `Complete` with the form of `m` leave
   `m` as the only image.
4. *Rebuilding.* `RebuildInv` compares the image at work with the one the files are
   from, partition by partition. A saved partition has the padding of the one that was
   put, so its size needs none: `PutAgain` shows that with the alignment read off
   the old table, be it a block or a media unit, the same bytes are put in the
   same place. `SavedIsSame` is for the image that is made again while the files
   are still those that were saved from it.

Minima and maxima of sets of numbers come from well-foundedness (`Smallest`), whole
units from `Multiple` and `AlignProperties`.

`PatchProofs` proves, for every number of partitions and parts, every size of them,
every card, alignment and buffer size and any number of kills:

* `OldBytesFound`: `Spec => MovesFindOldBytes`,
* `TidyPatched`: `Spec => []TidyPatchedIsNew`,
* `ClaimsComplete`: `Spec => []ClaimedOnlyWhenComplete`,
* `TypeCorrect`: `Spec => []TypeOK`.

`PatchAssumption` gives the constants their types and says that buffers and alignments
are positive; `CardsFit` says that a card is as long as its partitions, as
`CNcsd::CreateFile` makes it. That no part both shrinks and moves up, that a CFA differs
in its RomFS only and that no partition is added (`PreTidy`) are preconditions of the
properties; `patch_shrink` shows what happens without the first. The argument:

1. *Tables.* `Laid` says of both files what `Analyze` reads off them: parts and
   partitions lie in order, apart, within what is around them, and where the model puts
   their bytes (`PlaceRecursion` to `InitLaid`). That the places come out of
   a recursive function needs no induction: of the smallest one that was out of place
   the one before would not be (`Smallest`).
2. *Turns.* The search takes an entry when nothing is in its way, else the last one that
   is left. `Apart` says how done and waiting entries lie to each other. `TurnIsFree`:
   with it the entry of the next turn is `Free`, neither its old nor its new place
   touches what others have or still need, and `Apart` holds again. This is used twice,
   for partitions on a card and for parts in a partition (`Room` joins both).
3. *Commands.* `Leads(commands, places, f, g)` is the run of a list of commands by
   way of files that are `Fine`: what a move reads is still that of the old file.
   Moves go chunk by chunk from the side that does not overwrite what is to be read
   (`ChunkStep`), and the loop over two buffers writes all bytes that differ and no
   others, whenever a buffer is flushed, with seeks from where the last write
   ended (`WritesLead`, from an explicit description of what each iteration holds).
4. *Headers.* A file is `Good` if all of its parts are new where all headers are. While
   anything under an old header is written the file is `Safe`: whatever stands in the range
   that is written, it stays `Good` (`HeaderProtects`), so a kill within a move is covered
   too. A partition whose header is not to change has no part that does (`Quiet`).
5. *Two programs.* `DiffInv` follows `CreatePatchFile`: what it has written so far leads
   from the old file to one that is new in all that is `Finished` and old in all that
   is `Untouched`. `CloseStep` turns that into `Made`, a patch with its checks
   and end mark, on which `ApplyInv` follows `ApplyPatchFile`, and `InterruptStep` keeps
   of it what holds after a kill: the file is `Good`. A second kill, after the patch was
   applied to a file that is half new, leaves nothing but the types, so `ClaimedOnlyWhenComplete`
   speaks of the first.

`Inv` joins `DiffInv`, while the patch is made, and `ApplyInv`. Each action has one
lemma, and `Invariance` joins them.

Only model-checked: liveness (`Completes`, `RunsEnd`, `TitleEnds`), which is out of the
prover's reach; of `RomFsTree` its types and `ExtractedIsSource`; `TreeHoldsCodes` of `Huffman`, and that the coders implement `Codec`, as what a
recursive definition computes for all inputs cannot be proved.

## 5. Findings

1. **A hole before a deleted last file** (`remap_gaps`): `remap()` cuts the free
   tail of the reference with `SubSpace` and ignores its result. If the tail is
   in two extents the cut is refused, and a new file is put behind the end of the
   image, and a later build takes that place for one of the reference (section 4).
   `GaplessTailIsCut` shows when this cannot happen.
2. **A part that shrinks and moves up** (`patch_shrink`): the padding behind it
   may erase the head of the next part.
3. **A bad record stays** (`ext_key_stale`): whatever body arrives is recorded,
   and `insert` never replaces it; a later download returns true and keeps it.
4. **BLZ on bytes without a match** (`blz_exhausted`): when the groups of the first
   pass fill the buffer exactly, the loop ends without an error and the second
   pass takes 1 from an index of 0: the `u32` wraps, and the byte at 0xFFFFFFFF,
   outside the buffer, is read.

Some more were met, which no run shows; the properties have preconditions for
them:

* `CNcch::Analyze` drops the ExeFS of a CFA, so its changes do not get into the
  patch, and in a card the RomFS behind it is moved from the partition's old place,
  which the move of the partition may have overwritten (`OnlyRomFsDiffers`).
* A partition that only the new card has is compared with the one behind it in the
  old card, which is never moved to where the new one begins (`NoPartitionAdded`). Where
  the old card has none behind it, whatever lies there is taken for an NCCH: such
  pairs are left out of the initial states (`Comparable`).
* If nothing in the header of an NCCH tells the new file from the old one, the old
  one is reported as patched already (`HeaderTells`).
* A file without data that kept a place far behind all others makes level 3 of a
  RomFS larger than what is written, and the blocks in between have no hash
  (`DataFillsLevel3`).

`TidyPatchedIsNew` has the preconditions for finding 2 and for the first three, and
holds.

## 6. What is not modelled

* The byte encodings of headers and commands, names as strings, ignore lists
  and character sets: no property is about them.
* `Release` and `Keep` are modelled with exact integers: an image is far below
  2^63 bytes.
* Reading and writing errors in the middle of a file: the code does not look at
  what `fread` and `fwrite` return.
* `C3dsTool`: option tables and text; `encryptFile`, which encrypts a single file
  of a region with a key from the command line; the copy of the ExeFS header and the
  other options that only name files.
* `CNcch` with a mode given by hand while extracting: only "Auto" is modelled there.
  What lies behind a file in the last media unit of its region is read as
  garbage where the region is encrypted; `ExtractedIsGiven` speaks of the file's
  bytes.
* Error paths that cannot be reached by an undamaged file (the buffer of the run
  length and Huffman coders is always large enough) are in the model and are not
  met by a run.
* `CBanner`: copies at fixed places. `CCode`: depends on the output of a
  disassembler. `C3dsCrypt`, `CBigNum`: arithmetic on top of a library.
* An ExeFS in which a section other than the first is named "code": both would use
  the file of the code (exefs.cpp:174, 183).
* Two instances of the program on one file; names in a RomFS that differ only in
  case, of which the second is dropped (romfs.cpp:463); a media unit larger than a
  block (ncsd.cpp:411, ncch.cpp:267), which no known card has.
* `src/dep`, 98% of the tree: copies of capstone, curl, openssl and zlib.

* A kill between the truncation of `ext_key.txt` and its last record loses keys that
  earlier runs stored: `Kill` in `ExtKey` does it, nothing in the code guards against
  it, and `CacheGrows` exempts it.
* A title whose ext key is unknown or fails its verification is made and extracted
  with other keys, and no error is reported (ncch.cpp:518): the model does the same,
  and `ExtractedIsGiven` only speaks of runs that know the same key.

Hazards without a property are in `PROJECT.json` with the reason.

## 7. Plan

Done: all of the components of section 1 but the last row, with the limits of
section 6; the proofs of section 4.

Theorem worth proving next: `ExtractedIsSource` of `RomFsTree`. `Listed` already has that
every directory was read; what is missing is an invariant of the stack of extraction that
says which part of the tree each of its elements has still to make.
