SPECIFICATION Spec
CONSTANTS
  Paths = {1, 2, 3}
  Sizes = {2}
  Starts = {4}
  Levels = {}
  NotIgnored = 9
  Alignment = 2
  MaxGeneration = 3
INVARIANT ImagesWellFormed
CHECK_DEADLOCK FALSE
