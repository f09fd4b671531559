SPECIFICATION TreeSpec
CONSTANT DirNames = {1, 2, 3}
CONSTANT FileNames = {4, 5}
CONSTANT MaxDepth = 2
CONSTANT MaxEntries = 6
CONSTANT MaxFailures = 1
INVARIANT TreeTypeOK
INVARIANT LinksLeadToChildren
INVARIANT ExtractedIsSource
INVARIANT LookupFindsEntries
CHECK_DEADLOCK FALSE
