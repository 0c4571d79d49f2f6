SPECIFICATION FairSpec
CONSTANTS
  n1 = n1
  n2 = n2
  n3 = n3
  n4 = n4
  Nodes <- MCNodes
  Callbacks <- MCCallbacks
  StartLists <- MCStartLists
  MaxStarts = 2
  LIMIT = 2
  POOL = 2
  Call = call
  NoGroup = none
INVARIANT FlagsMarkVisited
