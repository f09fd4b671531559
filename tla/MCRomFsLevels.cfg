SPECIFICATION Spec
CONSTANT Block = 4
CONSTANT Hash = 2
CONSTANT FileAlignment = 2
CONSTANT Header = 3
CONSTANT MetaSizes = {3, 8}
CONSTANT Sizes = {0, 1, 4, 11}
CONSTANT Gaps = {0, 2, 6}
CONSTANT MaxFiles = 3
INVARIANT TypeOK
INVARIANT RegionsKept
INVARIANT ChainVerifies
INVARIANT DataInPlace
CHECK_DEADLOCK FALSE
