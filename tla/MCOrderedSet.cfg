SPECIFICATION Spec
CONSTANTS
  T = {a, b, c, d}
  LIMIT = 3
  OTHERS <- MCOthers
INVARIANTS NoDuplicates NoFalseNegative SetMirrorsVector
PROPERTY ImplementsInsertionSet
