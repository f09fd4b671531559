-------------------------------- MODULE ExeFs --------------------------------
(***************************************************************************)
(* ExeFS containers (CExeFs): a super block with a few sections, made from *)
(* the files of a directory and taken apart again.  A byte is told by the  *)
(* file it comes from and its place there; CBackwardLz77 is what its own   *)
(* module shows it to be, a coder that makes a file smaller or refuses it, *)
(* and gives back what it has made smaller.  A section is a step.          *)
(***************************************************************************)
EXTENDS Integers, Sequences

CONSTANTS
    Titles,         \* what the tool is given to work on
    SectionCount,   \* 8
    SuperBlockSize, \* sizeof(ExeFsSuperBlock), also s_nBlockSize
    PackableSize    \* the smallest file that BLZ makes smaller

VARIABLES
    title,          \* the files and options given
    stage,          \* what the tool is doing
    superBlock,     \* m_ExeFsSuperBlock: the sections and their hashes
    exeFile,        \* the ExeFS file, without its super block
    section,        \* the section at work, from 1
    exeOk,          \* no error so far
    outDir          \* the files that were extracted

exeFsVars == <<title, stage, superBlock, exeFile, section, exeOk, outDir>>

Sections == 1 .. SectionCount

(* BLZ takes off a byte at least; a name is that of one file. *)
ASSUME ExeFsAssumption ==
    /\ {SectionCount, SuperBlockSize, PackableSize} \subseteq Nat \ {0}
    /\ \A t \in Titles : /\ t.names \in [Sections -> STRING]
                         /\ t.dir \in [DOMAIN t.dir -> Nat]
                         /\ DOMAIN t.dir \subseteq STRING

KnownNames == {"banner", "icon", "logo"}
NoName == ""
NoHash == << >>
NoSection == [name |-> NoName, offset |-> 0, size |-> 0, hash |-> NoHash]

(* A section of the header file, with what it was in the file it is from.  *)
OldByte == [of |-> "old", at |-> 1, packed |-> FALSE, under |-> {}]
OldSection(name) ==
    IF name = NoName THEN NoSection
    ELSE [name |-> name, offset |-> 1, size |-> 1, hash |-> <<OldByte>>]

(* Bytes, as they are and as they are kept in a container: the set tells   *)
(* the key streams that are laid over the byte.                            *)
FileBytes(path, n) ==
    [k \in 1 .. n |-> [of |-> path, at |-> k, packed |-> FALSE, under |-> {}]]
PackedBytes(path, n) ==
    [k \in 1 .. n - 1 |-> [of |-> path, at |-> k, packed |-> TRUE, under |-> {}]]
ZeroByte == [of |-> "zero", at |-> 0, packed |-> FALSE, under |-> {}]
Zeros(n) == [k \in 1 .. n |-> ZeroByte]
Align(n, a) == ((n + a - 1) \div a) * a
AlignedTo(bytes, a) == bytes \o Zeros(Align(Len(bytes), a) - Len(bytes))

(* Where a section's file is: the first section is the code unless its     *)
(* name says otherwise.                                                    *)
IsTopSection(name, i) == i = 1 /\ name \notin KnownNames
Path(name, i) == IF IsTopSection(name, i) THEN "code" ELSE name

-----------------------------------------------------------------------------
(* CreateFile *)

ExeFsCreateHeader ==
    /\ stage = "createExeFs" /\ section = 0
    /\ IF ~title.exeFsHeader
       THEN /\ stage' = "createNcch"
            /\ exeOk' = FALSE
            /\ UNCHANGED <<section, superBlock>>
       ELSE /\ section' = 1
            /\ superBlock' = [i \in Sections |-> OldSection(title.names[i])]
            /\ UNCHANGED <<stage, exeOk>>
    /\ UNCHANGED <<title, exeFile, outDir>>

CreatingSection == stage = "createExeFs" /\ section \in Sections
Name == superBlock[section].name

SkipSection ==
    /\ CreatingSection /\ Name = NoName
    /\ section' = section + 1
    /\ UNCHANGED <<title, stage, superBlock, exeFile, exeOk, outDir>>

(* A slip: nothing moves into the last section, which stays as it was. *)
WithoutSectionMutant(s, i) ==
    [j \in Sections |-> IF j < i \/ j = SectionCount THEN s[j] ELSE s[j + 1]]

(* clearSection: the sections behind move up, with their hashes. *)
WithoutSection(s, i) ==
    [j \in Sections |-> IF j < i THEN s[j]
                        ELSE IF j < SectionCount THEN s[j + 1] ELSE NoSection]

(* A slip: the loop goes on with the next index. *)
ClearSectionMutant ==
    /\ CreatingSection /\ Name # NoName
    /\ Path(Name, section) \notin DOMAIN title.dir
    /\ superBlock' = WithoutSection(superBlock, section)
    /\ exeOk' = FALSE
    /\ section' = section + 1
    /\ UNCHANGED <<title, stage, exeFile, outDir>>

(* The same index is tried again. *)
ClearSection ==
    /\ CreatingSection /\ Name # NoName
    /\ Path(Name, section) \notin DOMAIN title.dir
    /\ superBlock' = WithoutSection(superBlock, section)
    /\ exeOk' = FALSE
    /\ UNCHANGED <<title, stage, exeFile, section, outDir>>

CreateSection ==
    /\ CreatingSection /\ Name # NoName
    /\ LET path == Path(Name, section)
           n == title.dir[path]
           bytes == IF /\ IsTopSection(Name, section) /\ title.compress
                       /\ n >= PackableSize
                    THEN PackedBytes(path, n) ELSE FileBytes(path, n)
       IN  /\ path \in DOMAIN title.dir
           /\ superBlock' = [superBlock EXCEPT ![section] =
                                [name |-> Name, offset |-> Len(exeFile),
                                 size |-> Len(bytes), hash |-> bytes]]
           /\ exeFile' = AlignedTo(exeFile \o bytes, SuperBlockSize)
    /\ section' = section + 1
    /\ UNCHANGED <<title, stage, exeOk, outDir>>

CreateExeFsDone ==
    /\ stage = "createExeFs" /\ section > SectionCount
    /\ stage' = "createNcch"
    /\ section' = 0
    /\ UNCHANGED <<title, superBlock, exeFile, exeOk, outDir>>

-----------------------------------------------------------------------------
(* ExtractFile *)

(* CBackwardLz77::Uncompress, which fails on what was not compressed. *)
IsPacked(bytes) ==
    /\ bytes # << >>
    /\ \A k \in DOMAIN bytes :
           bytes[k] = [bytes[1] EXCEPT !.packed = TRUE, !.at = k, !.under = {}]

SectionBytes(i) == SubSeq(exeFile, superBlock[i].offset + 1,
                          superBlock[i].offset + superBlock[i].size)

ExtractSection ==
    /\ stage = "extractExeFs" /\ section \in Sections
    /\ LET name == superBlock[section].name
           path == Path(name, section)
           bytes == SectionBytes(section)
           unpack == IsTopSection(name, section) /\ title.uncompress
       IN  IF name = NoName
           THEN UNCHANGED <<outDir, exeOk>>
           ELSE /\ outDir' = [p \in DOMAIN outDir \cup {path} |->
                                IF p # path THEN outDir[p]
                                ELSE IF unpack /\ IsPacked(bytes)
                                THEN FileBytes(path, Len(bytes) + 1)
                                ELSE bytes]
                /\ exeOk' = (exeOk /\ (unpack => IsPacked(bytes)))
    /\ section' = section + 1
    /\ UNCHANGED <<title, stage, superBlock, exeFile>>

ExtractExeFsDone ==
    /\ stage = "extractExeFs" /\ section > SectionCount
    /\ stage' = "end"
    /\ UNCHANGED <<title, superBlock, exeFile, section, exeOk, outDir>>

ExeFsInit ==
    /\ title \in Titles
    /\ stage = "createExeFs"
    /\ superBlock = [i \in Sections |-> NoSection]
    /\ exeFile = << >>
    /\ section = 0
    /\ exeOk = TRUE
    /\ outDir = [p \in {} |-> << >>]

ExeFsNext ==
    \/ ExeFsCreateHeader \/ SkipSection \/ ClearSection \/ CreateSection
    \/ CreateExeFsDone \/ ExtractSection \/ ExtractExeFsDone

-----------------------------------------------------------------------------
(* The super block describes the file: however many sections had no file   *)
(* and were taken out, every one that is left has its bytes where it says, *)
(* with the hash of these bytes, and the sections lie in order without     *)
(* overlapping.                                                            *)
SectionsDescribeFile ==
    stage = "createNcch" =>
        \A i \in Sections :
            IF superBlock[i].name = NoName THEN superBlock[i] = NoSection
            ELSE /\ superBlock[i].offset + superBlock[i].size <= Len(exeFile)
                 /\ SectionBytes(i) = superBlock[i].hash
                 /\ superBlock[i].hash # NoHash =>
                        superBlock[i].hash[1].of = Path(superBlock[i].name, i)
                 /\ superBlock[i].offset % SuperBlockSize = 0
                 /\ \A j \in Sections :
                        j < i /\ superBlock[j].name # NoName =>
                            superBlock[j].offset + superBlock[j].size
                                <= superBlock[i].offset
=============================================================================
