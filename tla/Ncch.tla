-------------------------------- MODULE Ncch --------------------------------
(***************************************************************************)
(* NCCH containers (CNcch): a header and five regions, made from files and *)
(* taken apart again.  Most regions lie under an AES-CTR key stream, which *)
(* is told by its key, its counter and the place in the stream.  Sizes are *)
(* counted in steps of 0x100 bytes.                                        *)
(***************************************************************************)
EXTENDS ExeFs

CONSTANTS
    HeaderBytes,        \* sizeof(SNcchHeader), 0x200
    ExtendedBytes,      \* extended header and access control, 0x800
    BlockBytes,         \* s_nBlockSize, 0x1000
    RomFsSuperBytes     \* the header and the level 0 hashes of the RomFS

(* A block has whole media units where regions are given whole blocks; a   *)
(* region file that is there has something in it.                          *)
ASSUME NcchAssumption ==
    /\ {HeaderBytes, ExtendedBytes, BlockBytes, RomFsSuperBytes} \subseteq Nat \ {0}
    /\ \A t \in Titles :
           /\ {t.fixedKeyFlag, t.extKeyFlag, t.removeExtKey} \subseteq BOOLEAN
           /\ 2 ^ t.sizeType \in Nat \ {0}
           /\ t.wholeBlocks => BlockBytes % (2 * 2 ^ t.sizeType) = 0
           /\ \A r \in {"logo", "plain", "romfs"} :
                  t.files[r].state = "there" => t.files[r].size \in Nat \ {0}

(* Only createExeFs and createRomFs look whether their file is encrypted;  *)
(* to the others it is a file like any other.                              *)
ASSUME EncryptedAssumption ==
    \A t \in Titles : \A r \in {"extendedheader", "logo", "plain"} :
        t.files[r].state # "encrypted"

VARIABLES
    header,     \* m_NcchHeader
    image,      \* the NCCH file
    mode,       \* m_nEncryptMode
    keys,       \* m_Key, the old and the new one
    region,     \* the region at work, 0 for the header
    ncchOk,     \* no error so far
    extracted   \* the regions that were extracted

ncchVars == <<header, image, mode, keys, region, ncchOk, extracted>>

Regions == <<"extendedheader", "logo", "plain", "exefs", "romfs">>
NoRegion == [offset |-> 0, size |-> 0, hashSize |-> 0, hash |-> NoHash]
OldRegion == [offset |-> 1, size |-> 1, hashSize |-> 1, hash |-> <<OldByte>>]

(* calculateMediaUnitSize, calculateOffsetSize *)
MediaUnit == 2 * 2 ^ title.sizeType
RegionOffset(h, r) == IF r = "extendedheader" THEN HeaderBytes
                      ELSE h.at[r].offset * MediaUnit
RegionSize(h, r) == IF r = "extendedheader" THEN h.at[r].size
                    ELSE h.at[r].size * MediaUnit

NoKey == <<"none", "none">>
ZeroKey == <<"zero", "zero">>
FixedKey == <<"fixed", "fixed">>

(* calculateKey.  When the ext key is not known the new key is made without*)
(* it; when it fails the verification no key is set, and both stay 0.      *)
KeysFor(m, extKeyFlag, extKey) ==
    CASE m = "NotEncrypt" -> [old |-> NoKey, new |-> NoKey]
      [] m = "FixedKey" -> [old |-> FixedKey, new |-> FixedKey]
      [] m = "Auto" /\ extKeyFlag /\ extKey = "bad" ->
             [old |-> ZeroKey, new |-> ZeroKey]
      [] OTHER ->
             [old |-> <<"0x2C", "keyY">>,
              new |-> <<title.encrypt7x,
                        IF extKeyFlag /\ extKey = "known" THEN "extKey"
                                                          ELSE "keyY">>]

(* calculateCounter: version 1 counts from where the region is. *)
Counter(h, r) == IF title.version = 1 THEN <<"offset", RegionOffset(h, r)>>
                                      ELSE <<r, 0>>

(* One exclusive or with the key stream, from its place from on: the second*)
(* one with the same stream undoes the first.                              *)
Crypted(bytes, key, counter, from) ==
    [k \in DOMAIN bytes |->
        LET stream == <<key, counter, from + k>>
        IN  [bytes[k] EXCEPT !.under = IF stream \in @ THEN @ \ {stream}
                                                       ELSE @ \cup {stream}]]

(* ExeFS: the first section has the new key, all else the old one. *)
ExeFsCrypted(bytes, firstSize, counter) ==
    LET split == SuperBlockSize + firstSize
        part(from, to, key) ==
            Crypted(SubSeq(bytes, from + 1, to), key, counter, from)
    IN  part(0, SuperBlockSize, keys.old) \o part(SuperBlockSize, split, keys.new)
            \o part(split, Len(bytes), keys.old)

(* The file that CExeFs has left behind: empty without a header. *)
ExeFsBytes == IF title.exeFsHeader
              THEN FileBytes("superblock", SuperBlockSize) \o exeFile ELSE << >>

-----------------------------------------------------------------------------
(* CreateFile *)

CreateNcchHeader ==
    /\ stage = "createNcch" /\ region = 0
    /\ IF ~title.ncchHeader
       THEN stage' = "end" /\ ncchOk' = FALSE
            /\ UNCHANGED <<header, image, mode, keys, region>>
       ELSE /\ header' =
                 [header EXCEPT
                   !.at = [r \in DOMAIN @ |-> OldRegion],
                   !.noCrypto = title.mode = "NotEncrypt",
                   !.fixedKey = IF title.mode = "NotEncrypt" THEN title.fixedKeyFlag
                                ELSE title.mode = "FixedKey",
                   !.extKey = title.extKeyFlag
                              /\ ~(title.mode = "Auto" /\ title.removeExtKey)]
            /\ image' = FileBytes("header", HeaderBytes)
            /\ mode' = title.mode
            /\ keys' = KeysFor(title.mode, header'.extKey, title.extKey)
            /\ region' = 1
            /\ UNCHANGED <<stage, ncchOk>>
    /\ UNCHANGED <<title, superBlock, exeFile, section, exeOk, outDir, extracted>>

Creating(r) == stage = "createNcch" /\ region \in 1 .. 5 /\ Regions[region] = r
State(r) == title.files[r].state
Size(r) == title.files[r].size

BigAlignment == IF title.wholeBlocks THEN BlockBytes ELSE MediaUnit

(* Every region is followed by alignFileSize, which also counts the units. *)
Written(h, bytes, alignment) ==
    /\ image' = AlignedTo(bytes, alignment)
    /\ header' = [h EXCEPT !.contentSize = Len(image') \div MediaUnit]
    /\ region' = region + 1
    /\ UNCHANGED <<title, stage, superBlock, exeFile, section, exeOk, outDir,
                   mode, keys, extracted>>

(* A slip: what the header had for the region is left there. *)
LeftOutMutant(r, alignment) ==
    /\ Written(header, image, alignment)
    /\ ncchOk' = (ncchOk /\ State(r) = "none")

(* A region without a name is left out; one whose file is missing or too   *)
(* short, or an ExeFS or RomFS that is encrypted, is left out as well, and *)
(* an error.                                                               *)
LeftOut(r, alignment) ==
    /\ Written([header EXCEPT !.at[r] = NoRegion], image, alignment)
    /\ ncchOk' = (ncchOk /\ State(r) = "none")

WithRegion(r, size, hashSize, hash) ==
    [header EXCEPT !.at[r] = [offset |-> header.contentSize, size |-> size,
                              hashSize |-> hashSize, hash |-> hash]]

(* A slip: the last unit only counts when it is full. *)
UnitsMutant(n) == n \div MediaUnit

Units(n) == Align(n, MediaUnit) \div MediaUnit

CreateExtendedHeader ==
    /\ Creating("extendedheader")
    /\ LET r == "extendedheader"
           bytes == FileBytes(r, ExtendedBytes)
           h == [header EXCEPT !.at[r].size = ExtendedBytes,
                               !.at[r].hash = SubSeq(bytes, 1, ExtendedBytes \div 2)]
       IN  IF State(r) = "there" /\ Size(r) >= ExtendedBytes
           THEN /\ Written(h, image \o
                              (IF mode = "NotEncrypt" THEN bytes
                               ELSE Crypted(bytes, keys.old, Counter(h, r), 0)),
                           MediaUnit)
                /\ UNCHANGED ncchOk
           ELSE LeftOut(r, MediaUnit)

CreateLogoRegion ==
    /\ Creating("logo")
    /\ LET bytes == AlignedTo(FileBytes("logo", Size("logo")), MediaUnit)
       IN  IF State("logo") = "there"
           THEN /\ Written(WithRegion("logo", Units(Size("logo")), 0, bytes),
                           image \o bytes, MediaUnit)
                /\ UNCHANGED ncchOk
           ELSE LeftOut("logo", MediaUnit)

CreatePlainRegion ==
    /\ Creating("plain")
    /\ IF State("plain") = "there"
       THEN /\ Written(WithRegion("plain", Units(Size("plain")), 0, NoHash),
                       image \o FileBytes("plain", Size("plain")), MediaUnit)
            /\ UNCHANGED ncchOk
       ELSE LeftOut("plain", MediaUnit)

CreateExeFs ==
    /\ Creating("exefs")
    /\ LET super == Align(SuperBlockSize, MediaUnit)
           bytes == ExeFsBytes
           h == WithRegion("exefs", Units(Len(bytes)), Units(SuperBlockSize),
                           SubSeq(bytes, 1, super))
       IN  IF State("exefs") = "there" /\ Len(bytes) >= super
           THEN /\ Written(h, image \o
                              (IF mode = "NotEncrypt" THEN bytes
                               ELSE ExeFsCrypted(bytes, superBlock[1].size,
                                                 Counter(h, "exefs"))),
                           BigAlignment)
                /\ UNCHANGED ncchOk
           ELSE LeftOut("exefs", BigAlignment)

CreateRomFs ==
    /\ Creating("romfs")
    /\ LET super == Align(RomFsSuperBytes, MediaUnit)
           bytes == FileBytes("romfs", Size("romfs"))
           h == WithRegion("romfs", Units(Len(bytes)), Units(RomFsSuperBytes),
                           SubSeq(bytes, 1, super))
       IN  IF State("romfs") = "there" /\ Len(bytes) >= super
           THEN /\ Written(h, image \o
                              (IF mode = "NotEncrypt" THEN bytes
                               ELSE Crypted(bytes, keys.new,
                                            Counter(h, "romfs"), 0)),
                           BigAlignment)
                /\ UNCHANGED ncchOk
           ELSE LeftOut("romfs", BigAlignment)

(* The header is written again; the file is then extracted with what is    *)
(* known of its ext key by that time.                                      *)
CreateNcchDone ==
    /\ stage = "createNcch" /\ region > Len(Regions)
    /\ stage' = "extractNcch"
    /\ region' = 1
    /\ mode' = IF header.noCrypto THEN "NotEncrypt"
               ELSE IF header.fixedKey THEN "FixedKey" ELSE "Auto"
    /\ keys' = KeysFor(mode', header.extKey, title.extKeyLater)
    /\ UNCHANGED <<title, superBlock, exeFile, section, exeOk, outDir,
                   header, image, ncchOk, extracted>>

-----------------------------------------------------------------------------
(* ExtractFile *)

RegionBytes(r) == SubSeq(image, RegionOffset(header, r) + 1,
                         RegionOffset(header, r) + RegionSize(header, r))

Extracted(r, bytes) ==
    extracted' = [x \in DOMAIN extracted \cup {r} |->
                     IF x = r THEN bytes ELSE extracted[x]]

(* The logo and the plain region are kept as they are. *)
ExtractRegion ==
    /\ stage = "extractNcch" /\ region \in 1 .. 5 /\ Regions[region] # "exefs"
    /\ LET r == Regions[region]
           key == IF r = "romfs" THEN keys.new ELSE keys.old
       IN  IF RegionSize(header, r) = 0 THEN UNCHANGED extracted
           ELSE Extracted(r, IF r \in {"logo", "plain"} \/ mode = "NotEncrypt"
                             THEN RegionBytes(r)
                             ELSE Crypted(RegionBytes(r), key,
                                          Counter(header, r), 0))
    /\ region' = region + 1
    /\ UNCHANGED <<title, stage, superBlock, exeFile, section, exeOk, outDir,
                   header, image, mode, keys, ncchOk>>

IsClear(bytes) == \A k \in DOMAIN bytes : bytes[k].under = {}

(* IsExeFsSuperBlock tells whether the super block has come out; if not the*)
(* region is written as it is.                                             *)
ExtractExeFs ==
    /\ stage = "extractNcch" /\ region = 4
    /\ LET bytes == RegionBytes("exefs")
           counter == Counter(header, "exefs")
           clear(s) == IF mode = "NotEncrypt" THEN s
                       ELSE ExeFsCrypted(s, superBlock[1].size, counter)
           isSuperBlock == IsClear(SubSeq(clear(bytes), 1, SuperBlockSize))
       IN  IF bytes = << >> THEN UNCHANGED <<extracted, ncchOk>>
           ELSE /\ Extracted("exefs", IF isSuperBlock THEN clear(bytes) ELSE bytes)
                /\ ncchOk' = (ncchOk /\ isSuperBlock)
    /\ region' = region + 1
    /\ UNCHANGED <<title, stage, superBlock, exeFile, section, exeOk, outDir,
                   header, image, mode, keys>>

(* What was extracted is all that is left of the ExeFS. *)
ExtractNcchDone ==
    /\ stage = "extractNcch" /\ region > Len(Regions)
    /\ IF /\ "exefs" \in DOMAIN extracted
          /\ IsClear(SubSeq(extracted["exefs"], 1, SuperBlockSize))
       THEN /\ stage' = "extractExeFs"
            /\ section' = 1
            /\ exeFile' = SubSeq(extracted["exefs"], SuperBlockSize + 1,
                                 Len(extracted["exefs"]))
       ELSE stage' = "end" /\ UNCHANGED <<section, exeFile>>
    /\ UNCHANGED <<title, superBlock, exeOk, outDir, ncchVars>>

NcchInit ==
    /\ header = [at |-> [r \in {Regions[k] : k \in DOMAIN Regions} |-> NoRegion],
                 contentSize |-> 0,
                 noCrypto |-> FALSE, fixedKey |-> FALSE, extKey |-> FALSE]
    /\ image = << >>
    /\ mode = "Auto"
    /\ keys = [old |-> ZeroKey, new |-> ZeroKey]
    /\ region = 0
    /\ ncchOk = TRUE
    /\ extracted = [r \in {} |-> << >>]

NcchNext ==
    \/ CreateNcchHeader \/ CreateExtendedHeader \/ CreateLogoRegion
    \/ CreatePlainRegion \/ CreateExeFs \/ CreateRomFs \/ CreateNcchDone
    \/ ExtractRegion \/ ExtractExeFs \/ ExtractNcchDone

-----------------------------------------------------------------------------
Present == {r \in DOMAIN header.at : RegionSize(header, r) # 0}

(* The header describes the file it ends up in: the regions that are there *)
(* follow each other without overlapping, each on a unit of its own, up to *)
(* the content size; those that are not have nothing left in the header,   *)
(* whatever file was missing; and a hash is that of the bytes that the     *)
(* region's key stream hides.                                              *)
HeaderDescribesImage ==
    stage = "extractNcch" =>
        /\ header.contentSize * MediaUnit = Len(image)
        /\ \A r \in DOMAIN header.at :
            IF r \notin Present THEN header.at[r] = NoRegion
            ELSE /\ RegionOffset(header, r) >= HeaderBytes
                 /\ RegionOffset(header, r) + RegionSize(header, r) <= Len(image)
                 /\ header.at[r].hash # NoHash =>
                        \A k \in DOMAIN header.at[r].hash :
                            [image[RegionOffset(header, r) + k] EXCEPT !.under = {}]
                                = header.at[r].hash[k]
        /\ \A r, q \in Present :
               RegionOffset(header, r) < RegionOffset(header, q) =>
                   RegionOffset(header, r) + RegionSize(header, r)
                       <= RegionOffset(header, q)
        /\ \A r, q \in Present :
               RegionOffset(header, r) = RegionOffset(header, q) => r = q
=============================================================================
