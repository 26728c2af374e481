------------------------------- MODULE RV32I -------------------------------
(***************************************************************************)
(* The RV32I subset both RISC-V cores of the repository execute, as the    *)
(* combinational blocks they share: instruction fields, ALU, branch        *)
(* condition, jump target, load and store.  The arithmetic itself is a     *)
(* parameter (AluOp, BranchCond, ...), so that what is said about the      *)
(* cores' control holds for every data path; RV32Alu gives the data path   *)
(* of the source.                                                          *)
(***************************************************************************)
EXTENDS Naturals

CONSTANTS
  Word,               \* register and address values (32 bits in the source)
  WordZero,           \* 32'd0
  ResetPC,            \* 32'h80000000
  Reg,                \* register numbers
  x0,                 \* the register that reads as zero
  Fn,                 \* funct3 together with funct7[5]
  FnAdd,              \* the fields of addi
  Instr,              \* the instructions memory can hold
  Cell,               \* contents of a memory cell (see Mem)
  Images,             \* memory images the loader may install
  CounterMod,         \* performance counters count modulo this (2^64)
  Add(_, _),          \* addition of words
  Plus4(_),           \* address of the following instruction
  Even(_),            \* & 32'hFFFFFFFE
  AluOp(_, _, _, _),  \* opcode, funct, operands: result of an ALU instruction
  BranchCond(_, _, _),\* funct, operands: is the branch condition true
  Index(_),           \* the memory cell that holds an address
  Decode(_, _),       \* address, memory cell: the instruction fetched there
  Extract(_, _, _),   \* funct, address, memory cell: the value a load gets
  Insert(_, _, _, _)  \* funct, address, memory cell, data: what a store leaves

Opcode == {"LUI", "AUIPC", "JAL", "JALR", "BRANCH", "LOAD", "STORE",
           "ALUI", "ALU", "FENCE", "SYSTEM", "OTHER"}

(* rd, rs1 and rs2 are the raw bit fields, present whatever the format:    *)
(* a store has a (meaningless) rd, a LUI has a (meaningless) rs1.          *)
InstrFields == [op : Opcode, rd : Reg, rs1 : Reg, rs2 : Reg, fn : Fn, imm : Word]

(* 32'h00000013, addi x0, x0, 0 *)
NOP == [op |-> "ALUI", rd |-> x0, rs1 |-> x0, rs2 |-> x0,
        fn |-> FnAdd, imm |-> WordZero]

ASSUME StateAssumption ==
  /\ WordZero \in Word
  /\ ResetPC \in Word
  /\ x0 \in Reg
  /\ FnAdd \in Fn
  /\ Instr \subseteq InstrFields
  /\ NOP \in Instr
  /\ Images \subseteq [Word -> Cell]
  /\ CounterMod \in Nat \ {0}

ASSUME DataPathAssumption ==
  /\ \A a \in Word : Plus4(a) \in Word /\ Even(a) \in Word /\ Index(a) \in Word
  /\ \A a, b \in Word : Add(a, b) \in Word
  /\ \A op \in Opcode, f \in Fn, a, b \in Word : AluOp(op, f, a, b) \in Word
  /\ \A f \in Fn, a, b \in Word : BranchCond(f, a, b) \in BOOLEAN
  /\ \A a \in Word, c \in Cell : Decode(a, c) \in Instr
  /\ \A f \in Fn, a \in Word, c \in Cell : Extract(f, a, c) \in Word
  /\ \A f \in Fn, a, d \in Word, c \in Cell : Insert(f, a, c, d) \in Cell

-----------------------------------------------------------------------------
(* Memory is divided into cells, each access touching one: aligned words   *)
(* when every access is aligned, or, with an Index that maps all addresses *)
(* to one cell, the whole memory.                                          *)
Mem == [Word -> Cell]

(* dpi_instr_mem_read *)
Fetch(mem, pc) == Decode(pc, mem[Index(pc)])

(* The combinational read port: x0 reads as zero whatever the array holds. *)
ReadReg(regs, r) == IF r = x0 THEN WordZero ELSE regs[r]

AluResult(i, pc, a, b) ==
  CASE i.op = "LUI"                -> i.imm
    [] i.op = "AUIPC"              -> Add(pc, i.imm)
    [] i.op \in {"JAL", "JALR"}    -> Plus4(pc)
    [] i.op \in {"LOAD", "STORE"}  -> Add(a, i.imm)
    [] i.op = "ALU"                -> AluOp(i.op, i.fn, a, b)
    [] i.op = "ALUI"               -> AluOp(i.op, i.fn, a, i.imm)
    [] OTHER                       -> WordZero

LoadData(i, mem, addr) ==
  IF i.op = "LOAD" THEN Extract(i.fn, addr, mem[Index(addr)]) ELSE WordZero

MemAfter(i, mem, addr, data) ==
  IF i.op = "STORE"
  THEN [mem EXCEPT ![Index(addr)] = Insert(i.fn, addr, @, data)]
  ELSE mem

(* write_back: which opcodes write rd, and with what. *)
RegWrEn(i) == i.op \in {"LUI", "AUIPC", "ALU", "ALUI", "JAL", "JALR", "LOAD"}

WrData(i, pc, alu, data) ==
  CASE i.op \in {"LUI", "AUIPC", "ALU", "ALUI"} -> alu
    [] i.op \in {"JAL", "JALR"}                 -> Plus4(pc)
    [] i.op = "LOAD"                            -> data
    [] OTHER                                    -> WordZero

RegsAfter(i, regs, value) ==
  IF RegWrEn(i) /\ i.rd # x0 THEN [regs EXCEPT ![i.rd] = value] ELSE regs

(* Faulty variant: the counter outgrows its register. *)
IncUnbounded(n) == n + 1

Inc(n) == (n + 1) % CounterMod
=============================================================================
