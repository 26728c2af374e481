CONSTANTS
  XLEN = 6
  Regs = {0, 1, 4}
  Cells = 6
  ImemTop = 12
  SeqPrograms <- MCFaults
  PipePrograms <- MCNone
SPECIFICATION Spec
PROPERTIES StoppedForGood
CHECK_DEADLOCK FALSE
