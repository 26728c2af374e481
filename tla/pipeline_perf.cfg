CONSTANTS
  XLEN = 4
  Word <- Words
  WordZero = 0
  ResetPC = 0
  Reg <- MCRegs
  x0 = 0
  Fn <- MCFn
  FnAdd <- MCFnAdd
  Instr <- MCInstr
  Cell <- MCCell
  Images <- MCImages
  Add <- WAdd
  Plus4 <- MCPlus4
  Even <- WEven
  AluOp <- WAlu
  BranchCond <- WBranchCond
  Index <- MCIndex
  Decode <- MCDecode
  Extract <- MCExtract
  Insert <- MCInsert
  CounterMod = 16
  Menu = {"addi1", "lw1", "lw2", "sw2", "bne", "jalr"}
  FirstMenu = {"addi2", "lw1", "jal", "bne"}
SPECIFICATION PerfSpec
INVARIANT CyclesAccountedFor
PROPERTY KeepsCommitting
