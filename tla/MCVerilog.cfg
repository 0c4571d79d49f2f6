SPECIFICATION VerilogSpec
CONSTANTS
  KeyWord = KeyWord
  NoObject = NoObject
  Objects <- MCObjects
  Stems <- MCStems
  Lower <- MCLower
  Keywords <- MCKeywords
  Suggestions <- MCSuggestions
  StringOrder <- MCStringOrder
  serialize_use <- serialize_net_usage
  Unwritable <- Crashes
  MaxLevel = 2
  Designs <- MCDesigns
CHECK_DEADLOCK FALSE
INVARIANTS ModulesInOrder UsagesReadBack SameNameNeverWritten FilesComplete
