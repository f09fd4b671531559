SPECIFICATION Spec
CONSTANT MaxOffset = 8
INVARIANT TypeOK
INVARIANT Coalesced
PROPERTY ImplementsFreeSet
