CONSTANTS
  XLEN = 6
  Regs = {0, 1, 4}
  Cells = 8
  ImemTop = 12
  SeqPrograms <- MCSeqPrograms
  PipePrograms <- MCPipePrograms
SPECIFICATION Spec
PROPERTIES SeqImplementsIsa PipeImplementsIsa
CHECK_DEADLOCK FALSE
