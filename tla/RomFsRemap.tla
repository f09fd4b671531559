----------------------------- MODULE RomFsRemap ------------------------------
(***************************************************************************)
(* Where the data of the files of a RomFS goes (src/src/romfs.cpp).        *)
(* pushFileEntry() lays the files out one behind the other.  When          *)
(* "--romfs" names a reference image too, remap() lays them out again: a   *)
(* file that fits its place in the reference keeps it, what is no longer   *)
(* used there is collected in a CSpace, and the other files are put in the *)
(* holes or behind the end.  The image built is the reference of the next  *)
(* build, as it is for someone who releases one update after the other.    *)
(*                                                                         *)
(* A path is its rank in the std::map order of m_mTravelInfo.  Offsets are *)
(* absolute in "image" and "ref" (travelFileEntry adds the data start) and *)
(* relative to the data start in "files", as in the code.  FileOffset and  *)
(* RemapIgnoreLevel of an entry are a union: an entry of "files" holds its *)
(* level until it is given an offset.                                      *)
(*                                                                         *)
(* Operators named ...Mutant are what the definition after them would be   *)
(* with a plausible slip in the code.                                      *)
(***************************************************************************)
EXTENDS Integers

CONSTANTS
  Paths,          \* the paths a RomFS may hold, by rank
  Sizes,          \* the sizes a file may have, in bytes
  Starts,         \* where the data may start: m_nLevel3Offset + DataOffset
  Levels,         \* getRemapIgnoreLevel(): index of the matching rule
  NotIgnored,     \* UINT32_MAX: no rule of the remap ignore list matches
  Alignment,      \* s_nFileSizeAlignment
  MaxGeneration   \* bound: the number of images built one after the other

ASSUME RemapAssumption ==
  /\ Paths \subseteq Nat
  /\ Sizes \subseteq Nat
  /\ Alignment \in Nat \ {0}
  /\ \A s \in Starts : s \in Nat /\ s % Alignment = 0
  /\ NotIgnored \in Nat /\ \A l \in Levels : l <= NotIgnored
  /\ MaxGeneration \in Nat \ {0}

VARIABLES
  rules,          \* getRemapIgnoreLevel by path: one ignore file for all builds
  phase,          \* the part of CreateFile() that runs next
  generation,     \* how many images have been built
  image,          \* the last image built, the reference of the next
  start,          \* the data start of the image being built
  files,          \* m_mTravelInfo: the files of the image being built
  ref,            \* romFs.m_mTravelInfo: the files of the reference
  todo,           \* the reference files the loop of remap() has still to visit
  moved,          \* the part of vRemapIgnore pushed by that loop
  queue,          \* what is left of the sorted vRemapIgnore: Before is its order
  size,           \* m_RomFsHeader.Level3.Size, without the metadata
  trimmed,        \* every tail was cut so far: history, for the properties
  space, ok       \* the CSpace and what its last AddSpace or SubSpace returned

buildVars == <<start, files, ref, todo, moved, queue, size>>
spaceVars == <<space, ok>>
vars == <<rules, phase, generation, image, trimmed, buildVars, spaceVars>>

\* GetSpace is const: its value is read with FirstFit and nothing is kept of it.
\* Nothing that is used here looks at the end of the space, MaxOffset.
Space == INSTANCE Space WITH buffers <- space, found <- -1, MaxOffset <- 0

Align(n) == ((n + Alignment - 1) \div Alignment) * Alignment

-----------------------------------------------------------------------------
(* A directory is packed: pushFileEntry gives every file the next place.   *)

\* The first image is built without a reference: its file system starts with no file.
CreatePlain ==
  /\ phase = "choose"
  /\ generation = 0
  /\ \E begin \in Starts :
       image' = [Start |-> begin, End |-> begin, File |-> <<>>]
  /\ phase' = "push"
  /\ UNCHANGED <<rules, generation, trimmed, buildVars, spaceVars>>

\* createEntryList visits directories and names in an order of its own, which
\* need not be the order of the paths.
PushFileEntry ==
  /\ phase = "push"
  /\ \E p \in Paths \ DOMAIN image.File : \E fileSize \in Sizes :
       LET offset == image.Start + Align(image.End - image.Start)
           entry  == [FileOffset |-> offset, FileSize |-> fileSize]
       IN image' = [Start |-> image.Start,
                    End   |-> offset + fileSize,
                    File  |-> [q \in DOMAIN image.File \cup {p} |->
                                 IF q = p THEN entry ELSE image.File[q]]]
  /\ UNCHANGED <<rules, phase, generation, trimmed, buildVars, spaceVars>>

\* No directory of the stack is left.
FinishPlain ==
  /\ phase = "push"
  /\ generation' = 1
  /\ phase' = "choose"
  /\ UNCHANGED <<rules, image, trimmed, buildVars, spaceVars>>

-----------------------------------------------------------------------------
(* remap() *)

\* A file whose whole place is covered left with a negative size.
ClippedMutant(entry, begin) ==
  IF entry.FileOffset >= begin THEN entry
  ELSE [FileOffset |-> begin, FileSize |-> entry.FileSize - (begin - entry.FileOffset)]

\* The offset moved and the size forgotten.
ClippedSizeMutant(entry, begin) ==
  IF entry.FileOffset >= begin THEN entry ELSE [entry EXCEPT !.FileOffset = begin]

\* The entries of a directory with their sizes and levels are known, travelFile
\* has read the reference; the two data starts decide about the room between.
\* Metadata that grew covers the head of the reference's data: the files below
\* the new start lose their head.  Metadata that shrank frees the gap.
Clipped(entry, begin) ==
  IF entry.FileOffset >= begin THEN entry
  ELSE [FileOffset |-> begin,
        FileSize   |-> LET rest == entry.FileSize - (begin - entry.FileOffset) IN
                       IF rest < 0 THEN 0 ELSE rest]

BeginRemap ==
  /\ phase = "choose"
  /\ generation \in 1 .. (MaxGeneration - 1)
  /\ \E S \in SUBSET Paths :
       \E sizes \in [S -> Sizes] :
         files' = [p \in S |-> [FileSize |-> sizes[p], FileOffset |-> rules[p]]]
  /\ start' \in Starts
  /\ ref' = [p \in DOMAIN image.File |-> Clipped(image.File[p], start')]
  /\ space' = IF start' < image.Start
              THEN <<Space!SBuffer(start', image.Start)>> ELSE <<>>
  /\ todo' = DOMAIN image.File
  /\ moved' = {}
  /\ queue' = {}
  /\ size' = 0
  /\ phase' = "scan"
  /\ UNCHANGED <<rules, generation, image, trimmed, ok>>

\* The reference file p is gone, or its place is too small, or a rule says
\* that the place is not worth keeping: the place is free.
Release(p) ==
  /\ Space!AddSpace(ref[p].FileOffset, Align(ref[p].FileSize))
  /\ ref' = [ref EXCEPT ![p].FileSize = 0]
  /\ moved' = IF p \in DOMAIN files THEN moved \cup {p} ELSE moved
  /\ UNCHANGED <<files, size>>

\* The rest of the place is forgotten.
KeepMutant(p) ==
  LET offset == ref[p].FileOffset - start
      end    == offset + files[p].FileSize
  IN /\ files' = [files EXCEPT ![p].FileOffset = offset]
     /\ size' = IF end > size THEN end ELSE size
     /\ UNCHANGED <<ref, moved, space, ok>>

\* The head of the place is freed instead of the rest.
KeepHeadMutant(p) ==
  LET offset == ref[p].FileOffset - start
      end    == offset + files[p].FileSize
  IN /\ files' = [files EXCEPT ![p].FileOffset = offset]
     /\ Space!AddSpace(ref[p].FileOffset, Align(ref[p].FileSize) - Align(files[p].FileSize))
     /\ size' = IF end > size THEN end ELSE size
     /\ UNCHANGED <<ref, moved>>

\* The file p keeps its place; the rest of the place is free.
Keep(p) ==
  LET offset == ref[p].FileOffset - start
      end    == offset + files[p].FileSize
  IN /\ files' = [files EXCEPT ![p].FileOffset = offset]
     /\ Space!AddSpace(Align(ref[p].FileOffset + files[p].FileSize),
                       Align(ref[p].FileSize) - Align(files[p].FileSize))
     /\ size' = IF end > size THEN end ELSE size
     /\ UNCHANGED <<ref, moved>>

\* The other member of the union.
RemapIgnoreLevel(p) == files[p].FileOffset

\* A grown file keeps its place.
MustMoveGrownMutant(p) ==
  \/ p \notin DOMAIN files
  \/ RemapIgnoreLevel(p) # NotIgnored

\* A file that just fits is moved.
MustMoveEqualMutant(p) ==
  \/ p \notin DOMAIN files
  \/ Align(files[p].FileSize) >= Align(ref[p].FileSize)
  \/ RemapIgnoreLevel(p) # NotIgnored

MustMove(p) ==
  \/ p \notin DOMAIN files
  \/ Align(files[p].FileSize) > Align(ref[p].FileSize)
  \/ RemapIgnoreLevel(p) # NotIgnored

ScanReference ==
  /\ phase = "scan"
  /\ todo # {}
  /\ \E p \in todo :
       /\ \A q \in todo : p <= q
       /\ IF MustMove(p) THEN Release(p) ELSE Keep(p)
       /\ todo' = todo \ {p}
  /\ UNCHANGED <<rules, phase, generation, image, trimmed, start, queue>>

\* vRemapIgnore: first the files of the reference, then the new ones, each in
\* the order of the paths, sorted by level without changing that order.
Before(p, q) ==
  LET key(r) == <<RemapIgnoreLevel(r), IF r \in moved THEN 0 ELSE 1, r>> IN
  \E i \in 1 .. 3 : /\ key(p)[i] < key(q)[i]
                    /\ \A j \in 1 .. (i - 1) : key(p)[j] = key(q)[j]

\* What is free behind the last file that kept its place is not a hole.
TrimTail ==
  /\ phase = "scan"
  /\ todo = {}
  /\ \/ /\ size = 0
        /\ Space!Clear
        /\ UNCHANGED trimmed
     \/ /\ size # 0
        /\ Space!SubSpace(Align(start + size), Align(image.End) - Align(start + size))
        /\ trimmed' = (trimmed /\ ok')
  /\ queue' = moved \cup (DOMAIN files \ DOMAIN ref)
  /\ phase' = "place"
  /\ UNCHANGED <<rules, generation, image, start, files, ref, todo, moved, size>>

\* The next file goes into the first hole that holds it, or behind the end.
Place ==
  /\ phase = "place"
  /\ \E p \in queue :
       LET room == Align(files[p].FileSize)
           hole == Space!FirstFit(room)
       IN /\ \A q \in queue \ {p} : Before(p, q)
          /\ \/ /\ hole < 0
                /\ files' = [files EXCEPT ![p].FileOffset = Align(size)]
                /\ size' = Align(size) + files[p].FileSize
                /\ UNCHANGED spaceVars
             \/ /\ hole >= 0
                /\ files' = [files EXCEPT ![p].FileOffset = hole - start]
                /\ Space!SubSpace(hole, room)
                /\ UNCHANGED size
          /\ queue' = queue \ {p}
  /\ UNCHANGED <<rules, phase, generation, image, trimmed, start, ref, todo, moved>>

Forget ==
  /\ start' = 0 /\ size' = 0
  /\ files' = <<>> /\ ref' = <<>>
  /\ todo' = {} /\ moved' = {} /\ queue' = {}
  /\ space' = <<>> /\ ok' = TRUE

\* What remap() decided is written; its CSpace and its CRomFs are gone.
Finish ==
  /\ phase = "place"
  /\ queue = {}
  /\ image' = [Start |-> start,
               End   |-> start + size,
               File  |-> [p \in DOMAIN files |->
                            [FileOffset |-> start + files[p].FileOffset,
                             FileSize   |-> files[p].FileSize]]]
  /\ generation' = generation + 1
  /\ phase' = "choose"
  /\ Forget
  /\ UNCHANGED <<rules, trimmed>>

-----------------------------------------------------------------------------

Idle ==
  /\ start = 0 /\ size = 0
  /\ files = <<>> /\ ref = <<>>
  /\ todo = {} /\ moved = {} /\ queue = {}
  /\ space = <<>> /\ ok = TRUE

Init ==
  /\ rules \in [Paths -> Levels \cup {NotIgnored}]
  /\ phase = "choose"
  /\ generation = 0
  /\ image = [Start |-> 0, End |-> 0, File |-> <<>>]
  /\ trimmed = TRUE
  /\ Idle

Next ==
  \/ CreatePlain \/ PushFileEntry \/ FinishPlain
  \/ BeginRemap \/ ScanReference \/ TrimTail \/ Place \/ Finish

Spec == Init /\ [][Next]_vars

-----------------------------------------------------------------------------
(* Properties *)

Entry == [FileOffset : Int, FileSize : Nat]

\* The files of the image being built that have their place already.
Placed ==
  {p \in DOMAIN files :
     IF phase = "scan" THEN p \in DOMAIN ref \ (todo \cup moved)
     ELSE p \notin queue}

\* Sizes are never negative, whatever the two data starts clip away; offsets are
\* not as long as every tail was cut.
TypeOK ==
  /\ rules \in [Paths -> Levels \cup {NotIgnored}]
  /\ phase \in {"choose", "push", "scan", "place"}
  /\ generation \in 0 .. MaxGeneration
  /\ image.Start \in Int /\ image.End \in Int
  /\ DOMAIN image.File \subseteq Paths /\ DOMAIN files \subseteq Paths
  /\ \A p \in DOMAIN image.File : image.File[p] \in Entry
  /\ \A p \in DOMAIN files : files[p].FileSize \in Nat
  /\ \A p \in DOMAIN ref : ref[p] \in Entry
  /\ \A p \in Placed : files[p].FileOffset \in Int
  /\ todo \subseteq DOMAIN ref /\ moved \subseteq DOMAIN ref \cap DOMAIN files
  /\ size \in Int
  /\ trimmed \in BOOLEAN /\ ok \in BOOLEAN
  /\ trimmed => /\ image.Start <= image.End
                /\ size \in Nat
                /\ \A p \in DOMAIN image.File : image.File[p].FileOffset \in Nat
                /\ \A p \in Placed : files[p].FileOffset \in Nat

\* The bytes of an entry, up to the alignment of the next one.
Room(entry) == entry.FileOffset .. (entry.FileOffset + Align(entry.FileSize) - 1)
Bytes(entry) == entry.FileOffset .. (entry.FileOffset + entry.FileSize - 1)

\* The files of an image do not overlap, lie behind its metadata and end within
\* the size that the header gives for level 3: createHeader and initLevelBuffer
\* place the levels by that size, so a file behind it is lost or overwritten.
WellFormed(img) ==
  /\ \A p, q \in DOMAIN img.File :
       p # q => Bytes(img.File[p]) \cap Bytes(img.File[q]) = {}
  /\ \A p \in DOMAIN img.File :
       /\ img.File[p].FileOffset >= img.Start
       /\ img.File[p].FileOffset + img.File[p].FileSize <= img.End

\* Every image built against a reference is well formed.
ImagesWellFormed == WellFormed(image)

\* ... and it is when the tail of every reference of the chain could be cut.
TrimmedImagesWellFormed == trimmed => WellFormed(image)

\* An image without holes: every byte of its data belongs to a file's room.
Gapless(img) ==
  img.Start .. (Align(img.End) - 1)
    \subseteq UNION {Room(img.File[p]) : p \in DOMAIN img.File}

\* remap() ignores what SubSpace returns when it cuts the tail.  From a
\* reference without holes the freed tail is one extent, whatever the order in
\* which its files were released, and the cut succeeds.  (A reference whose tail was
\* not cut may have a file behind its end: the room behind that one is negative.)
GaplessTailIsCut ==
  [][trimmed /\ phase = "scan" /\ todo = {} /\ Gapless(image) => ok']_vars

\* Nor does it look at what AddSpace returns, or SubSpace for the hole it found:
\* no call for a file is ever refused as long as the reference is well formed.
NoCallRefused ==
  [][trimmed /\ ((phase = "scan" /\ todo # {}) \/ phase = "place") => ok']_vars

\* The free list never covers the metadata or a byte of a file that has its
\* place, nor of a reference file that is still to be visited.
FreeIsUnused ==
  trimmed =>
    /\ Space!Coalesced
    /\ \A i \in DOMAIN space :
         LET free == space[i].Top .. (space[i].Bottom - 1) IN
         /\ space[i].Top >= start
         /\ \A p \in Placed : \A b \in Bytes(files[p]) : start + b \notin free
         /\ \A p \in todo : Room(ref[p]) \cap free = {}

\* What a remap is for: a file that fits its old place, that no rule wants moved
\* and whose place the metadata has not reached stays at its absolute offset,
\* however many other files came, went or grew.
FilesStay ==
  [][phase = "place" /\ queue = {} =>
       \A p \in DOMAIN image.File \cap DOMAIN files :
         /\ Align(files[p].FileSize) <= Align(image.File[p].FileSize)
         /\ rules[p] = NotIgnored
         /\ image.File[p].FileOffset >= start
         => image'.File[p].FileOffset = image.File[p].FileOffset]_vars
=============================================================================
