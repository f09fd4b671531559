SPECIFICATION Spec
CONSTANT LastPart = 2
CONSTANT LastPartition = 2
CONSTANT Cards <- MCCards
CONSTANT CardSize = 32
CONSTANT Sizes = {0, 1, 4}
CONSTANT Hashed = {1, 2}
CONSTANT Kinds = {"cci", "cxi", "cfa", "file"}
CONSTANT LastAlignment = 3
CONSTANT WriteBuffer = 2
CONSTANT MoveBuffer = 2
CONSTANT MaxInterrupts = 1
INVARIANT TypeOK
INVARIANT TidyPatchedIsNew
INVARIANT ClaimedOnlyWhenComplete
PROPERTY MovesFindOldBytes
PROPERTY Completes
CHECK_DEADLOCK FALSE
