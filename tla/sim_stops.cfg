CONSTANTS
  XLEN = 4
  Word <- Words
  WordZero = 0
  ResetPC = 0
  Reg <- MCRegs
  x0 = 0
  Fn <- MCFn
  FnAdd <- MCFnAdd
  Instr <- MCInstr
  Cell <- MCCell
  Images <- MCImages
  Add <- WAdd
  Plus4 <- MCPlus4
  Even <- WEven
  AluOp <- WAlu
  BranchCond <- WBranchCond
  Index <- MCIndex
  Decode <- MCDecode
  Extract <- MCExtract
  Insert <- MCInsert
  CounterMod = 8
  Menu = {"addi1", "lw2", "bne", "jal", "csrw", "ebreak"}
  FirstMenu = {"nop"}
  EBREAK <- MCEbreak
  CsrInstrs <- MCCsrInstrs
  TimerReads <- MCTimerReads
  a0 = 1
  TraceStart = 2
  ITRACE_POOL_SIZE = 2
SPECIFICATION SimSpec
INVARIANT CulpritMarked
CHECK_DEADLOCK FALSE
