CONSTANTS
  XLEN = 4
  Word <- Words
  WordZero = 0
  ResetPC = 0
  Reg <- MCRegs
  x0 = 0
  Fn <- MCFn
  FnAdd <- MCFnAdd
  Instr <- MCInstr
  Cell <- MCCell
  Images <- MCImages
  Add <- WAdd
  Plus4 <- MCPlus4
  Even <- WEven
  AluOp <- WAlu
  BranchCond <- WBranchCond
  Index <- MCIndex
  Decode <- MCDecode
  Extract <- MCExtract
  Insert <- MCInsert
  CounterMod = 1
  Menu = {"nop", "addi1", "ebreak"}
  FirstMenu = {"addi1", "addi2"}
  EBREAK <- MCEbreak
  CsrInstrs <- MCCsrInstrs
  TimerReads <- MCTimerReads
  a0 = 1
  TraceStart = 0
  ITRACE_POOL_SIZE = 2
SPECIFICATION SimSpec
INVARIANT PassMeansSuccess
CHECK_DEADLOCK FALSE
