SPECIFICATION ToVerilogSpec
CONSTANTS
  Nets <- MCNets
  ConstVal <- MCConstVal
  Operands <- MCOperands
  EventNets = {"edge"}
  NopVal <- MCNopVal
  Addr <- MCAddr
  Ports <- MCPorts
  Programs <- MCPrograms
CHECK_DEADLOCK FALSE
INVARIANTS MeaningKept EdgesFollow ProcessesListen LoopsFound EnclosureExact StatementsReadBack AssignmentsLegal
