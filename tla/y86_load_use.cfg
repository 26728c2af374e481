CONSTANTS
  XLEN = 6
  Regs = {0, 1, 4}
  Cells = 6
  ImemTop = 12
  SeqPrograms <- MCNone
  PipePrograms <- MCLoadUse
SPECIFICATION Spec
PROPERTIES PipeImplementsIsa
CHECK_DEADLOCK FALSE
