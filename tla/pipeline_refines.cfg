CONSTANTS
  XLEN = 4
  Word <- Words
  WordZero = 0
  ResetPC = 0
  Reg <- MCRegs
  x0 = 0
  Fn <- MCFn
  FnAdd <- MCFnAdd
  Instr <- MCInstr
  Cell <- MCCell
  Images <- MCImages
  Add <- WAdd
  Plus4 <- MCPlus4
  Even <- WEven
  AluOp <- WAlu
  BranchCond <- WBranchCond
  Index <- MCIndex
  Decode <- MCDecode
  Extract <- MCExtract
  Insert <- MCInsert
  CounterMod = 1
  Menu = {"nop", "addi1", "sub", "slt", "addi0", "lw1", "lw2", "lw0", "sw1", "sw2",
          "bne", "beq0", "jal", "jalr", "lui", "auipc", "fence", "system"}
  FirstMenu = {"addi2", "lw1", "jal"}
SPECIFICATION Spec
INVARIANTS TypeOK PipelineInv CommitNextPC NoLoadForwarding BubblesBounded
PROPERTY ImplementsSingleCycle
