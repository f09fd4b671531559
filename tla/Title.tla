-------------------------------- MODULE Title --------------------------------
(***************************************************************************)
(* A title on its way through the tool: CExeFs makes the ExeFS file from a *)
(* directory, CNcch the NCCH file from it and the other regions, and both  *)
(* are taken apart again.  CNcch finds out from the header how it was      *)
(* encrypted.                                                              *)
(***************************************************************************)
EXTENDS Ncch

titleVars == <<exeFsVars, ncchVars>>

(* What has been compressed has at least a byte; only the first section is *)
(* the code, the file of which another one named so would share.           *)
ASSUME TitleAssumption ==
    /\ PackableSize > 1
    /\ \A t \in Titles : /\ t.mode \in {"Auto", "NotEncrypt", "FixedKey"}
                         /\ \A i \in Sections : i # 1 => t.names[i] # "code"

TitleInit == ExeFsInit /\ NcchInit

TitleNext == (ExeFsNext /\ UNCHANGED ncchVars) \/ NcchNext

TitleSpec == TitleInit /\ [][TitleNext]_titleVars

-----------------------------------------------------------------------------
(* The same ext key goes into the new key in both directions. *)
KeysAgree == ~header.extKey \/ title.extKey = title.extKeyLater

(* How a file of the directory comes back: as it was, unless it was        *)
(* compressed and has not been uncompressed.                               *)
ComesBack(i) ==
    LET path == Path(superBlock[i].name, i)
        n == title.dir[path]
    IN  IF /\ IsTopSection(superBlock[i].name, i) /\ n >= PackableSize
           /\ title.compress /\ ~title.uncompress
        THEN PackedBytes(path, n) ELSE FileBytes(path, n)

(* What was put in comes out: when the ext key is the same both times,     *)
(* every region of the header has the bytes of its file at its start, and  *)
(* every section of the ExeFS the bytes of the file it was made from, even *)
(* if other files were missing.                                            *)
ExtractedIsGiven ==
    stage = "end" /\ KeysAgree =>
        /\ \A r \in DOMAIN extracted \ {"exefs"} :
               LET n == IF r = "extendedheader" THEN ExtendedBytes ELSE Size(r)
               IN  /\ Len(extracted[r]) >= n
                   /\ SubSeq(extracted[r], 1, n) = FileBytes(r, n)
        /\ "exefs" \in DOMAIN extracted =>
               \A i \in Sections :
                   superBlock[i].name # NoName =>
                       outDir[Path(superBlock[i].name, i)] = ComesBack(i)
        /\ \A r \in DOMAIN header.at :
               region > Len(Regions) /\ RegionSize(header, r) # 0 =>
                   r \in DOMAIN extracted
=============================================================================
