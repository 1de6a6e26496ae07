CONSTANTS
  Tasks = {t1, t2}
  MainTask = t1
  Flags = {arm, thumb}
  BreakInResume = TRUE
  MaxFrames = 3
  ClockPeriod = 4
  PollInterval = 2
SPECIFICATION Spec
INVARIANTS
  TypeOK
  OneInAbortMode
  SchedulerBalanced
  ReturnsOwnContext
  PollsKeepPace
PROPERTIES
  StepsFireWhereAsked
