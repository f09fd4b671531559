CONSTANTS
    WindowSize = 8
    Bytes = {1, 2}
    MaxShort = 6
    NibbleCodes = 4
    GroupSize = 4
    FooterSize = 3
    WordSize = 2
    MaxTop = 20
    BlockSize = 4
    HalfCodes = 4
    OffsetLimit = 6
    SectionCount = 3
    SuperBlockSize = 2
    PackableSize = 3
    HeaderBytes = 2
    ExtendedBytes = 8
    BlockBytes = 16
    RomFsSuperBytes = 3
    Uninitialised <- NotWritten
    Inputs <- SmallInputs
    IdleInput <- OneInput
    Titles <- SmallTitles
    IdleTitle <- Cxi

SPECIFICATION ToolSpec

INVARIANT ChainsHoldWindow
INVARIANT InPlaceKeepsInput
INVARIANT TreeHoldsCodes
INVARIANT SectionsDescribeFile
INVARIANT HeaderDescribesImage
INVARIANT ExtractedIsGiven
PROPERTY ImplementsCodec
PROPERTY TitleEnds

CHECK_DEADLOCK FALSE
