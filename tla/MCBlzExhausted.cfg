CONSTANTS
    WindowSize = 32
    Bytes <- DistinctBytes
    MaxShort = 16777215
    NibbleCodes = 16
    GroupSize = 8
    FooterSize = 8
    WordSize = 4
    MaxTop = 16777215
    BlockSize = 128
    HalfCodes = 16
    OffsetLimit = 64
    SectionCount = 3
    SuperBlockSize = 2
    PackableSize = 3
    HeaderBytes = 2
    ExtendedBytes = 8
    BlockBytes = 16
    RomFsSuperBytes = 3
    Uninitialised <- NotWritten
    Inputs <- DistinctInput
    IdleInput <- Distinct
    Titles <- OneTitle
    IdleTitle <- Cxi

SPECIFICATION ToolSpec

INVARIANT CompressStaysInBuffer

CHECK_DEADLOCK FALSE
