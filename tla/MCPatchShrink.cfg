SPECIFICATION Spec
CONSTANT LastPart = 2
CONSTANT LastPartition = 2
CONSTANT Cards <- MCCards
CONSTANT CardSize = 32
CONSTANT Sizes = {0, 1, 4}
CONSTANT Hashed = {0, 1, 2}
CONSTANT Kinds = {"cxi"}
CONSTANT LastAlignment = 3
CONSTANT WriteBuffer = 2
CONSTANT MoveBuffer = 2
CONSTANT MaxInterrupts = 0
INVARIANT PatchedIsNew
CHECK_DEADLOCK FALSE
