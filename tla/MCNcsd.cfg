SPECIFICATION Spec
CONSTANT LastPartition = 2
CONSTANT Sizes = {1, 5}
CONSTANT MaxNcch = 8
CONSTANT MediaUnits = {2, 4}
CONSTANT BlockSize = 4
CONSTANT UnitsPerBlock = 2
CONSTANT FirstNcch = 8
CONSTANT NcchHeader = 2
CONSTANT Card1 = {16, 32}
CONSTANT Card2 = {32}
CONSTANT MaxKills = 1
CONSTANT MaxRebuilds = 1
INVARIANT TypeOK
INVARIANT ImageWellFormed
INVARIANT PartitionsKept
INVARIANT PadUndoesTrim
INVARIANT RebuiltIsSame
CHECK_DEADLOCK FALSE
