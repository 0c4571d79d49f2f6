SPECIFICATION Spec
CONSTANTS
  Nets = {n1, n2, n3}
  Ops = {o1, o2, o3}
  Null = null
  Unary = {OpNeg}
  Binary = {OpSlice}
  OpSlice = OpSlice
  MaxSig = 2
  MaxElif = 1
CHECK_DEADLOCK FALSE
INVARIANTS SlotsAgree EdgesAgree TopHoldsIO ExpressionsShared RankCountsBranches
