\* The normal mode and the three debugging modes.
SPECIFICATION FairSpec
CONSTANTS
  Objects = {o1, o2}
  POOL_BOUNDARY = POOL_BOUNDARY
  Capacity = 3
  MaxEntries = 7
  MaxCalls = 4
INVARIANTS
  PagesSound
  IfSuffices
  TokensValid
PROPERTIES
  StackSpec
  PopsEnd
