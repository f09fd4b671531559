SPECIFICATION Spec
CONSTANT Ids = {0, 1, 2}
CONSTANT Window = 2
CONSTANT MaxRuns = 2
CONSTANT MaxKills = 1
INVARIANT TypeOK
INVARIANT Accounting
INVARIANT CacheGrows
INVARIANT TitleGetsItsKey
PROPERTY RunsEnd
CHECK_DEADLOCK FALSE
