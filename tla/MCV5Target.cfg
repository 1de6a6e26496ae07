CONSTANTS
  NumBreakpoints = 2
  NumSwBreakpoints = 2
  CodeAddrs = {0, 8, 10}
  ThumbAddrs = {8, 10}
  ReadOnly = {}
  ExitAddr = 10
  ResumeCode = {0}
  MaxFrames = 2
  Sentinel = 252
  Tasks = {"main", "other"}
  HwRequests = {8}
  SwRequests = {0}
  ProgramText <- MCProgramText
  WrittenContexts <- MCWrittenContexts
SPECIFICATION FairSpec
INVARIANTS
  TypeOK
  MismatchPairsArePending
  OnePairReserved
  NoSlotPanic
  LockedOutsideMonitor
  SchedulerBalanced
PROPERTIES
  StepExecutesOneInstruction
  StepStaysOnTask
  InterruptStopsAtOnce
  InterruptIsReported
