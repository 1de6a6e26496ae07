CONSTANTS
  NumSwBreakpoints = 2
  CodeAddrs = {0, 4, 8, 12}
  ReadOnly = {0}
  GdbWrites = {4, 8}
  ProgramText <- MCProgramText
SPECIFICATION Spec
INVARIANT
  FetchSeesMemory
