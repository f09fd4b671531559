------------------------------ MODULE RomFsTree ------------------------------
(***************************************************************************)
(* The directory tree of a RomFS (src/src/romfs.cpp).  CreateFile() lists  *)
(* a directory tree into a table of directories and one of files whose     *)
(* entries are linked by their positions, takes the empty directories out  *)
(* of the table again, hangs every entry into a hash table and turns the   *)
(* positions into byte offsets.  ExtractFile() walks the links and builds  *)
(* the tree anew; travelFile() walks them in the same way to read where    *)
(* the files of a reference lie.                                           *)
(*                                                                         *)
(* Positions count from 0, as in the code: Dir(i) is m_vCreateDir[i].  A   *)
(* path is the sequence of its names, a name stands for its upper case     *)
(* form, by which a directory is sorted.                                   *)
(*                                                                         *)
(* Operators named ...Mutant are what the definition after them would be   *)
(* with a plausible slip in the code.                                      *)
(***************************************************************************)
EXTENDS Integers, FiniteSets, SequencesExt

CONSTANTS
  DirNames,      \* names of directories
  FileNames,     \* names of files
  MaxDepth,      \* bound: how deep a directory may lie
  MaxEntries,    \* bound: directories and files in the tree
  MaxFailures    \* bound: how often extracting cannot make what it should

ASSUME RomFsTreeAssumption ==
  /\ DirNames \subseteq Nat \ {0} /\ FileNames \subseteq Nat \ {0}
  /\ IsFiniteSet(DirNames) /\ IsFiniteSet(FileNames)
  /\ DirNames \cap FileNames = {}
  /\ {MaxDepth, MaxEntries, MaxFailures} \subseteq Nat

VARIABLES
  source,        \* the tree that is packed: its directories and files
  step,
  createDirs, createFiles,   \* m_vCreateDir, m_vCreateFile
  stack,         \* m_sCreateStack, then m_sExtractStack
  dirBucket,     \* m_vDirBucket
  fileBucket,    \* m_vFileBucket
  visited,       \* the paths that were made, in order
  unmade         \* the paths that could not be made

tableVars == <<createDirs, createFiles, dirBucket, fileBucket>>
treeVars == <<source, step, tableVars, stack, visited, unmade>>

Invalid == -1

Root == <<>>
Dir(i) == createDirs[i + 1]
File(i) == createFiles[i + 1]
DirPositions == 0 .. (Len(createDirs) - 1)
FilePositions == 0 .. (Len(createFiles) - 1)

Parent(path) == Front(path)
ChildDirs(path) == {p \in source.Dirs : p # Root /\ Parent(p) = path}
ChildFiles(path) == {p \in source.Files : Parent(p) = path}
Sorted(paths) ==
  CHOOSE s \in SetToSeqs(paths) : \A i, j \in DOMAIN s : i < j => Last(s[i]) < Last(s[j])

DirEntry(path, parent, sibling) ==
  [Path |-> path, ParentDirOffset |-> parent, SiblingDirOffset |-> sibling,
   ChildDirOffset |-> Invalid, ChildFileOffset |-> Invalid, PrevDirOffset |-> Invalid,
   EntryOffset |-> 0]

FileEntry(path, parent, sibling, at) ==
  [Path |-> path, ParentDirOffset |-> parent, SiblingFileOffset |-> sibling,
   PrevFileOffset |-> Invalid, EntryOffset |-> at]

\* The size of an entry: a head and the name, which may be missing.
DirHead == 6
FileHead == 8
NameSize(path) == IF path = Root THEN 0 ELSE Last(path)

-----------------------------------------------------------------------------
(* createEntryList: one directory after the other is read                  *)

\* The children of the directory at position i get positions in a row, each
\* linked to the next.
ListDirs(i) ==
  LET children == Sorted(ChildDirs(Dir(i).Path))
      base == Len(createDirs)
      entry(k) == DirEntry(children[k], i, IF k < Len(children) THEN base + k ELSE Invalid)
      own == [Dir(i) EXCEPT
                !.ChildDirOffset  = IF children = <<>> THEN Invalid ELSE base,
                !.ChildFileOffset = IF ChildFiles(Dir(i).Path) = {} THEN Invalid
                                    ELSE Len(createFiles)]
  IN [createDirs EXCEPT ![i + 1] = own] \o [k \in DOMAIN children |-> entry(k)]

\* Where entries of these sizes end that lie one behind the other.
EntryEnds(begin, sizes) ==
  LET end[k \in 0 .. Len(sizes)] == IF k = 0 THEN begin ELSE end[k - 1] + sizes[k]
  IN end

DirEntrySize(path) == DirHead + NameSize(path)
FileEntrySize(path) == FileHead + NameSize(path)

FilesEnd ==
  IF createFiles = <<>> THEN 0
  ELSE Last(createFiles).EntryOffset + FileEntrySize(Last(createFiles).Path)

ListFiles(i) ==
  LET children == Sorted(ChildFiles(Dir(i).Path))
      base == Len(createFiles)
      ends == EntryEnds(FilesEnd, [k \in DOMAIN children |-> FileEntrySize(children[k])])
      entry(k) == FileEntry(children[k], i, IF k < Len(children) THEN base + k ELSE Invalid,
                            ends[k - 1])
  IN createFiles \o [k \in DOMAIN children |-> entry(k)]

Top == Head(stack)

ReadDirectory ==
  /\ step = "list"
  /\ stack # <<>>
  /\ Top.ChildIndex = -1
  /\ LET i == Top.EntryOffset
         n == Cardinality(ChildDirs(Dir(i).Path))
     IN /\ createDirs' = ListDirs(i)
        /\ createFiles' = ListFiles(i)
        /\ stack' = <<[EntryOffset |-> i, ChildIndex |-> 0,
                       ChildOffset |-> [k \in 1 .. n |-> Len(createDirs) + k - 1]]>> \o Tail(stack)
  /\ UNCHANGED <<source, step, dirBucket, fileBucket, visited, unmade>>

Unread(i) == [EntryOffset |-> i, ChildIndex |-> -1, ChildOffset |-> <<>>]

NextDirectory ==
  /\ step = "list"
  /\ stack # <<>>
  /\ Top.ChildIndex # -1
  /\ stack' = IF Top.ChildIndex # Len(Top.ChildOffset)
              THEN <<Unread(Top.ChildOffset[Top.ChildIndex + 1]),
                     [Top EXCEPT !.ChildIndex = @ + 1]>> \o Tail(stack)
              ELSE Tail(stack)
  /\ UNCHANGED <<source, step, tableVars, visited, unmade>>

EndList ==
  /\ step = "list"
  /\ stack = <<>>
  /\ step' = "prune"
  /\ UNCHANGED <<source, tableVars, stack, visited, unmade>>

-----------------------------------------------------------------------------
(* removeEmptyDirEntry                                                     *)

EmptyDirs ==
  {i \in DirPositions \ {0} : Dir(i).ChildDirOffset = Invalid /\ Dir(i).ChildFileOffset = Invalid}

\* Positions are not moved up.
SubDirOffsetMutant(position, removed) == position

SubDirOffset(position, removed) == IF position > removed THEN position - 1 ELSE position

\* A first child is not replaced by its sibling.
UnlinkedMutant(i) ==
  [k \in DOMAIN createDirs |->
     IF k = i /\ createDirs[k].SiblingDirOffset = i
     THEN [createDirs[k] EXCEPT !.SiblingDirOffset = Dir(i).SiblingDirOffset] ELSE createDirs[k]]

\* The sibling before the removed entry stands right before it in the table; if
\* that is no sibling, the removed entry was the first child.
Unlinked(i) ==
  LET next == Dir(i).SiblingDirOffset
      before == Dir(i - 1)
      parent == Dir(Dir(i).ParentDirOffset)
  IN IF before.SiblingDirOffset = i
     THEN [createDirs EXCEPT ![i].SiblingDirOffset = next]
     ELSE IF parent.ChildDirOffset = i
     THEN [createDirs EXCEPT ![Dir(i).ParentDirOffset + 1].ChildDirOffset = next]
     ELSE createDirs

RemoveDirEntry(i) ==
  /\ createDirs' = RemoveAt([k \in DOMAIN createDirs |->
                         [Unlinked(i)[k] EXCEPT !.ParentDirOffset  = SubDirOffset(@, i),
                                                !.SiblingDirOffset = SubDirOffset(@, i),
                                                !.ChildDirOffset   = SubDirOffset(@, i)]], i + 1)
  /\ createFiles' = [k \in DOMAIN createFiles |->
                 [createFiles[k] EXCEPT !.ParentDirOffset = SubDirOffset(@, i)]]

\* The last one first; its parent may be empty then.
RemoveEmptyDir ==
  /\ step = "prune"
  /\ EmptyDirs # {}
  /\ RemoveDirEntry(CHOOSE i \in EmptyDirs : \A j \in EmptyDirs : j <= i)
  /\ UNCHANGED <<source, step, stack, dirBucket, fileBucket, visited, unmade>>

PlaceDirs ==
  /\ step = "prune"
  /\ EmptyDirs = {}
  /\ LET ends == EntryEnds(0, [k \in DOMAIN createDirs |-> DirEntrySize(createDirs[k].Path)])
     IN createDirs' = [k \in DOMAIN createDirs |->
                         [createDirs[k] EXCEPT !.EntryOffset = ends[k - 1]]]
  /\ step' = "hash"
  /\ UNCHANGED <<source, stack, createFiles, dirBucket, fileBucket, visited, unmade>>

-----------------------------------------------------------------------------
(* createHash and redirectOffset                                           *)

SmallPrimes == {2, 3, 5, 7, 11, 13, 17}

\* Among so many numbers in a row, the product of all, one has no small prime in it.
SmallPrimesProduct == 510510

ComputeBucketCount(entries) ==
  IF entries < 3 THEN 3
  ELSE IF entries <= 19 THEN (IF entries % 2 = 0 THEN entries + 1 ELSE entries)
  ELSE CHOOSE n \in entries .. (entries + SmallPrimesProduct) :
         /\ \A p \in SmallPrimes : n % p # 0
         /\ \A m \in entries .. (n - 1) : \E p \in SmallPrimes : m % p = 0

\* The mixing of the parent's offset and the name only decides who shares a bucket.
NameHash(parentOffset, path) == parentOffset + 5 * NameSize(path)

\* The position of the parent is hashed, not its offset.
HashKeyMutant(entry) == NameHash(entry.ParentDirOffset, entry.Path)

HashKey(entry) == NameHash(Dir(entry.ParentDirOffset).EntryOffset, entry.Path)

\* Every entry is put before those already in its bucket.
PrevInBucket(entries, count, i) ==
  LET same == {j \in 0 .. (i - 1) :
                 HashKey(entries[j + 1]) % count = HashKey(entries[i + 1]) % count}
  IN IF same = {} THEN Invalid ELSE CHOOSE j \in same : \A k \in same : k <= j

Bucket(entries, count) ==
  [b \in 0 .. (count - 1) |->
     LET here == {j \in 0 .. (Len(entries) - 1) : HashKey(entries[j + 1]) % count = b}
     IN IF here = {} THEN Invalid ELSE CHOOSE j \in here : \A k \in here : k <= j]

RedirectDir(position) == IF position = Invalid THEN Invalid ELSE Dir(position).EntryOffset
RedirectFile(position) == IF position = Invalid THEN Invalid ELSE File(position).EntryOffset

CreateHash ==
  /\ step = "hash"
  /\ LET dirCount == ComputeBucketCount(Len(createDirs))
         fileCount == ComputeBucketCount(Len(createFiles))
     IN /\ dirBucket' = [b \in 0 .. (dirCount - 1) |-> RedirectDir(Bucket(createDirs, dirCount)[b])]
        /\ fileBucket' = [b \in 0 .. (fileCount - 1) |-> RedirectFile(Bucket(createFiles, fileCount)[b])]
        /\ createDirs' = [k \in DOMAIN createDirs |->
             [createDirs[k] EXCEPT !.ParentDirOffset  = RedirectDir(@),
                             !.SiblingDirOffset = RedirectDir(@),
                             !.ChildDirOffset   = RedirectDir(@),
                             !.ChildFileOffset  = RedirectFile(@),
                             !.PrevDirOffset    = RedirectDir(PrevInBucket(createDirs, dirCount, k - 1))]]
        /\ createFiles' = [k \in DOMAIN createFiles |->
             [createFiles[k] EXCEPT !.ParentDirOffset   = RedirectDir(@),
                              !.SiblingFileOffset = RedirectFile(@),
                              !.PrevFileOffset    = RedirectFile(PrevInBucket(createFiles, fileCount, k - 1))]]
  /\ stack' = <<[IsDir |-> TRUE, EntryOffset |-> 0, Prefix |-> Root, ExtractState |-> "Begin"]>>
  /\ step' = "extract"
  /\ UNCHANGED <<source, visited, unmade>>

-----------------------------------------------------------------------------
(* ExtractFile                                                             *)

\* Nothing is pushed for an invalid offset.
Pushed(isDir, offset, prefix) ==
  IF offset = Invalid THEN <<>>
  ELSE <<[IsDir |-> isDir, EntryOffset |-> offset, Prefix |-> prefix, ExtractState |-> "Begin"]>>

DirAt(offset) == CHOOSE e \in Range(createDirs) : e.EntryOffset = offset
FileAt(offset) == CHOOSE e \in Range(createFiles) : e.EntryOffset = offset
PathOf(entry) == IF entry.Path = Root THEN Top.Prefix ELSE Append(Top.Prefix, Last(entry.Path))

\* The element on top goes to the given state and another one may come above it.
Continue(state, above) == stack' = above \o <<[Top EXCEPT !.ExtractState = state]>> \o Tail(stack)

\* A sibling is pushed with the prefix of the children.
ExtractDirEntryMutant ==
  LET e == DirAt(Top.EntryOffset) IN
  \/ /\ Top.ExtractState = "Begin"
     /\ visited' = Append(visited, PathOf(e))
     /\ Continue("ChildDir", Pushed(FALSE, e.ChildFileOffset, PathOf(e)))
     /\ UNCHANGED unmade
  \/ /\ Top.ExtractState = "ChildDir"
     /\ Continue("SiblingDir", Pushed(TRUE, e.ChildDirOffset, PathOf(e)))
     /\ UNCHANGED <<visited, unmade>>
  \/ /\ Top.ExtractState = "SiblingDir"
     /\ Continue("End", Pushed(TRUE, e.SiblingDirOffset, PathOf(e)))
     /\ UNCHANGED <<visited, unmade>>
  \/ /\ Top.ExtractState = "End"
     /\ stack' = Tail(stack)
     /\ UNCHANGED <<visited, unmade>>

\* A directory that cannot be made is given up with its siblings.
ExtractDirEntry ==
  LET e == DirAt(Top.EntryOffset) IN
  \/ /\ Top.ExtractState = "Begin"
     /\ visited' = Append(visited, PathOf(e))
     /\ Continue("ChildDir", Pushed(FALSE, e.ChildFileOffset, PathOf(e)))
     /\ UNCHANGED unmade
  \/ /\ Top.ExtractState = "Begin"
     /\ Cardinality(unmade) < MaxFailures
     /\ unmade' = unmade \cup {PathOf(e)}
     /\ stack' = Tail(stack)
     /\ UNCHANGED visited
  \/ /\ Top.ExtractState = "ChildDir"
     /\ Continue("SiblingDir", Pushed(TRUE, e.ChildDirOffset, PathOf(e)))
     /\ UNCHANGED <<visited, unmade>>
  \/ /\ Top.ExtractState = "SiblingDir"
     /\ Continue("End", Pushed(TRUE, e.SiblingDirOffset, Top.Prefix))
     /\ UNCHANGED <<visited, unmade>>
  \/ /\ Top.ExtractState = "End"
     /\ stack' = Tail(stack)
     /\ UNCHANGED <<visited, unmade>>

\* A file that cannot be opened is left out.
ExtractFileEntry ==
  LET e == FileAt(Top.EntryOffset) IN
  \/ /\ Top.ExtractState = "Begin"
     /\ \/ visited' = Append(visited, PathOf(e)) /\ UNCHANGED unmade
        \/ /\ Cardinality(unmade) < MaxFailures
           /\ unmade' = unmade \cup {PathOf(e)}
           /\ UNCHANGED visited
     /\ Continue("End", Pushed(FALSE, e.SiblingFileOffset, Top.Prefix))
  \/ /\ Top.ExtractState = "End"
     /\ stack' = Tail(stack)
     /\ UNCHANGED <<visited, unmade>>

Extract ==
  /\ step = "extract"
  /\ IF stack = <<>> THEN step' = "done" /\ UNCHANGED <<stack, visited, unmade>>
     ELSE /\ IF Top.IsDir THEN ExtractDirEntry ELSE ExtractFileEntry
          /\ UNCHANGED step
  /\ UNCHANGED <<source, tableVars>>

-----------------------------------------------------------------------------

\* Paths of directories.
DirPaths == UNION {[1 .. depth -> DirNames] : depth \in 0 .. MaxDepth}

\* Every directory and file is in a directory.
Trees ==
  LET closed == {S \in SUBSET DirPaths : /\ Root \in S /\ Cardinality(S) <= MaxEntries
                                         /\ \A p \in S : p # Root => Parent(p) \in S}
  IN UNION {{[Dirs |-> S, Files |-> F] :
               F \in {G \in SUBSET {Append(p, n) : p \in S, n \in FileNames} :
                        Cardinality(S) + Cardinality(G) <= MaxEntries}} : S \in closed}

TreeInit ==
  /\ source \in Trees
  /\ step = "list"
  /\ createDirs = <<DirEntry(Root, 0, Invalid)>>
  /\ createFiles = <<>>
  /\ stack = <<Unread(0)>>
  /\ dirBucket = <<>> /\ fileBucket = <<>>
  /\ visited = <<>>
  /\ unmade = {}

TreeNext ==
  \/ ReadDirectory \/ NextDirectory \/ EndList
  \/ RemoveEmptyDir \/ PlaceDirs \/ CreateHash
  \/ Extract

TreeSpec == TreeInit /\ [][TreeNext]_treeVars

-----------------------------------------------------------------------------
(* Properties                                                              *)

TreeTypeOK ==
  /\ step \in {"list", "prune", "hash", "extract", "done"}
  /\ step \in {"list", "prune", "hash"} =>
       /\ \A i \in DirPositions :
            /\ Dir(i).ParentDirOffset \in DirPositions
            /\ {Dir(i).SiblingDirOffset, Dir(i).ChildDirOffset} \subseteq DirPositions \cup {Invalid}
            /\ Dir(i).ChildFileOffset \in FilePositions \cup {Invalid}
       /\ \A i \in FilePositions :
            /\ File(i).ParentDirOffset \in DirPositions
            /\ File(i).SiblingFileOffset \in FilePositions \cup {Invalid}
  /\ unmade \subseteq source.Dirs \cup source.Files

\* What a chain of links among the given places goes through, up to its first link
\* that leads elsewhere.
Chain(first, next(_), places) ==
  LET bound == Cardinality(places)
      at[n \in 0 .. bound] ==
        IF n = 0 THEN first ELSE IF at[n - 1] \in places THEN next(at[n - 1]) ELSE Invalid
  IN {at[n] : n \in 0 .. bound} \ {Invalid}

\* While the table is built and while empty directories are taken out of it, the links
\* of a directory lead to all its entries and no others, although every removal moves
\* all later positions (romfs.cpp createEntryList, removeDirEntry).
LinksLeadToChildren ==
  step \in {"list", "prune", "hash"} =>
    \A i \in DirPositions :
      /\ Chain(Dir(i).ChildDirOffset, LAMBDA j : Dir(j).SiblingDirOffset, DirPositions)
           = {j \in DirPositions : j # 0 /\ Dir(j).ParentDirOffset = i}
      /\ Chain(Dir(i).ChildFileOffset, LAMBDA j : File(j).SiblingFileOffset, FilePositions)
           = {j \in FilePositions : File(j).ParentDirOffset = i}

\* What an image keeps: the files and the directories with a file somewhere below.
Kept == source.Files \cup {p \in source.Dirs : p = Root \/ \E f \in source.Files : IsPrefix(p, f)}

\* What is lost when a directory cannot be made: it and its later siblings, with all
\* that is below them.
LostWith(d) ==
  {p \in Kept : \E q \in Kept \cap source.Dirs :
     /\ IsPrefix(q, p)
     /\ q = d \/ (q # Root /\ d # Root /\ Parent(q) = Parent(d) /\ Last(q) > Last(d))}

\* Extracting an image gives the tree it was made from without its empty directories,
\* each path once; what cannot be made costs no more than a file itself, or a directory
\* and those that follow it (romfs.cpp extractDirEntry, extractFileEntry).
ExtractedIsSource ==
  step = "done" =>
    /\ IsInjective(visited)
    /\ Range(visited) = Kept \ (unmade \cup UNION {LostWith(d) : d \in unmade \cap source.Dirs})

Offsets(entries) == {e.EntryOffset : e \in Range(entries)}

\* Going through the bucket of an entry's parent and name, by the offsets in the image,
\* one finds the entry and no other of that parent and name (romfs.cpp createHash,
\* redirectOffset).
LookupFindsEntries ==
  step = "extract" =>
    /\ \A e \in Range(createDirs) :
         LET bucket == dirBucket[NameHash(e.ParentDirOffset, e.Path) % Cardinality(DOMAIN dirBucket)]
             found == {x \in Chain(bucket, LAMBDA o : DirAt(o).PrevDirOffset, Offsets(createDirs)) :
                         /\ DirAt(x).ParentDirOffset = e.ParentDirOffset
                         /\ NameSize(DirAt(x).Path) = NameSize(e.Path)}
         IN found = {e.EntryOffset}
    /\ \A e \in Range(createFiles) :
         LET bucket == fileBucket[NameHash(e.ParentDirOffset, e.Path) % Cardinality(DOMAIN fileBucket)]
             found == {x \in Chain(bucket, LAMBDA o : FileAt(o).PrevFileOffset, Offsets(createFiles)) :
                         /\ FileAt(x).ParentDirOffset = e.ParentDirOffset
                         /\ Last(FileAt(x).Path) = Last(e.Path)}
         IN found = {e.EntryOffset}
=============================================================================
