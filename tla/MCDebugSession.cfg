CONSTANTS
  NumBreakpoints = 2
  NumSwBreakpoints = 2
  CodeAddrs = {0, 4, 8, 12}
  ThumbAddrs = {}
  ReadOnly = {}
  ExitAddr = 4
  ResumeCode = {12}
  MaxFrames = 2
  Sentinel = 252
  Tasks = {"main"}
  HwRequests = {0}
  SwRequests = {0, 4}
  ProgramText <- MCProgramText
  WrittenContexts <- MCWrittenContexts
  MaxRx = 2
SPECIFICATION FairSessionSpec
INVARIANTS
  ReadyMeansStopped
  PollDiscardsNoQuestion
PROPERTIES
  SkipsOnlyOwnBkpt
  CtrlCIsAnswered
  ExitHappens
