SPECIFICATION FairSpec
CONSTANTS
  n1 = n1
  n2 = n2
  n3 = n3
  o1 = o1
  o2 = o2
  o3 = o3
  Nets <- MCNets
  Ops <- MCOps
  Null = null
  Circuits <- MCCircuits
  thread_cnt = 3
  MaxPasses = 2
CHECK_DEADLOCK FALSE
INVARIANTS ColumnsDisjoint KeepsUseful NothingDangles FaultsExplained
PROPERTY ApplyReturns
