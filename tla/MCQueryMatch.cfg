SPECIFICATION Spec
CONSTANTS
  Searches <- MCSearches
  NoNode = NoNode
  MaxDepth = 20
CHECK_DEADLOCK FALSE
INVARIANTS MatchesHold MissesExplained
