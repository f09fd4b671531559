--------------------------------- MODULE Tool ---------------------------------
(***************************************************************************)
(* The tool (C3dsTool) on one job: a file that is compressed and           *)
(* uncompressed, or a title whose containers are made and taken apart.     *)
(* The steps of a job are runs of the program on the same files; what the  *)
(* other job would work on is left alone.                                  *)
(***************************************************************************)
EXTENDS Compression, Title

CONSTANTS
    IdleInput,      \* the file of a job that compresses nothing
    IdleTitle       \* the title of a job that makes none

ASSUME ToolAssumption == IdleInput \in Inputs /\ IdleTitle \in Titles

VARIABLE job        \* which of the two it is

toolVars == <<job, compressionVars, titleVars>>

ToolInit ==
    /\ \/ /\ job = "coder"
          /\ title = IdleTitle
       \/ /\ job = "title"
          /\ type = IdleInput.type
          /\ data = IdleInput.data
          /\ align = IdleInput.align
    /\ CompressionInit
    /\ TitleInit

CoderStep == job = "coder" /\ CompressionNext /\ UNCHANGED <<job, titleVars>>
TitleStep == job = "title" /\ TitleNext /\ UNCHANGED <<job, compressionVars>>

ToolNext == CoderStep \/ TitleStep

(* The program is one thread that nothing keeps from its next step.  That  *)
(* matters to the title's job, whose loop over the sections steps back.    *)
ToolSpec == ToolInit /\ [][ToolNext]_toolVars /\ WF_toolVars(TitleStep)

-----------------------------------------------------------------------------
(* A title's job comes to its end, whichever files are missing: CreateFile *)
(* of CExeFs, which goes back one section when it has cleared one, runs    *)
(* out of sections.                                                        *)
TitleEnds == job = "title" ~> stage = "end"
=============================================================================
