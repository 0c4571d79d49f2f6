SPECIFICATION Spec
CONSTANTS
  T = {a, b, c, d}
  LIMIT = 3
  OTHERS <- MCOthers
INVARIANT ContainsMeansIterated
