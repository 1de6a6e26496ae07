CONSTANTS
  Handles <- MCHandles
  StackWords = 5
  FpuRegs <- MCFpuRegs
  BaseRegs <- MCBaseRegs
  WideRegisters <- MCWideRegisters
  Words <- MCWords
  WrittenWords <- MCWrittenWords
  WrittenRegs <- MCWrittenRegs
  TaskArrayLength = 2
  MaxTaskNumber = 3
  MaxComputed = 1
  MaxWritten = 2
SPECIFICATION Spec
CHECK_DEADLOCK FALSE
INVARIANT
  PanicsOnWidthAlone
