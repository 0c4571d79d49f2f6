SPECIFICATION Spec
CONSTANTS
  Objects = {o1, o2, o3, o4}
  KeyWord = KeyWord
  NoObject = none
  Stems <- MCStems
  Lower <- MCLower
  Keywords <- MCKeywords
  Suggestions <- MCSuggestions
  MaxLevel = 3
SYMMETRY MCSymmetry
CHECK_DEADLOCK FALSE
INVARIANTS NamesDistinct OccupiedExplained
