SPECIFICATION OneRuleSpec
CONSTANTS
  Paths = {1, 2, 3}
  Sizes = {0, 1, 4}
  Starts = {4, 6}
  Levels = {0}
  NotIgnored = 9
  Alignment = 2
  MaxGeneration = 3
INVARIANT TypeOK
INVARIANT TrimmedImagesWellFormed
INVARIANT FreeIsUnused
PROPERTY GaplessTailIsCut
PROPERTY NoCallRefused
PROPERTY FilesStay
CHECK_DEADLOCK FALSE
