SPECIFICATION Spec
CONSTANT Ids = {0, 1, 2}
CONSTANT Window = 2
CONSTANT MaxRuns = 2
CONSTANT MaxKills = 0
INVARIANT DownloadedIsRecorded
CHECK_DEADLOCK FALSE
