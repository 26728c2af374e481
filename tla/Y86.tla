-------------------------------- MODULE Y86 ---------------------------------
(***************************************************************************)
(* The Y86-64 instructions as both Y86 cores decode and compute them.      *)
(*                                                                         *)
(* A word has XLEN bits (64 in the source).  An instruction is one record  *)
(* at one address, so that valP is pc + 1; the instruction memory holds    *)
(* NOP (all zeros) outside the program, as the test benches clear it.      *)
(***************************************************************************)
EXTENDS RV32Alu

CONSTANTS Regs,       \* the register numbers a program uses, RSP among them
          Cells,      \* 64-bit cells of data memory (256 in the source)
          ImemTop     \* the last instruction address (1023 in the source)

RSP == 4
F == 15

ASSUME Y86Assumption ==
  /\ RSP \in Regs /\ F \notin Regs
  /\ Cells \in Nat \ {0}
  /\ ImemTop \in Nat /\ Modulus > ImemTop

Icodes == {"NOP", "HALT", "RRMOVL", "IRMOVL", "RMMOVL", "MRMOVL", "ALU",
           "JXX", "CALL", "RET", "PUSHL", "POPL"}

Nop == [icode |-> "NOP", ifun |-> 0, rA |-> F, rB |-> F, valC |-> 0]

FetchAt(prog, a) == IF a \in DOMAIN prog THEN prog[a] ELSE Nop

(* valid_ifun and instr_valid: the function code an instruction may have *)
InstrValid(i) ==
  CASE i.icode \in {"RRMOVL", "JXX"} -> i.ifun \leq 6
    [] i.icode = "ALU" -> i.ifun \leq 3
    [] OTHER -> i.ifun = 0

SrcA(i) ==
  CASE i.icode \in {"RRMOVL", "IRMOVL", "RMMOVL", "MRMOVL", "ALU", "PUSHL"} -> i.rA
    [] i.icode \in {"POPL", "RET"} -> RSP
    [] OTHER -> F

SrcB(i) ==
  CASE i.icode \in {"RRMOVL", "IRMOVL", "RMMOVL", "MRMOVL", "ALU"} -> i.rB
    [] i.icode \in {"PUSHL", "POPL", "CALL", "RET"} -> RSP
    [] OTHER -> F

DstE(i) ==
  CASE i.icode \in {"RRMOVL", "IRMOVL", "ALU"} -> i.rB
    [] i.icode \in {"PUSHL", "POPL", "CALL", "RET"} -> RSP
    [] OTHER -> F

DstM(i) == IF i.icode \in {"MRMOVL", "POPL"} THEN i.rA ELSE F

(* alu_out: B op A *)
AluOut(ifun, a, b) ==
  CASE ifun = 0 -> WAdd(b, a)
    [] ifun = 1 -> WSub(b, a)
    [] ifun = 2 -> FromBits(Bits(b) \intersect Bits(a))
    [] ifun = 3 -> FromBits((Bits(b) \union Bits(a)) \ (Bits(b) \intersect Bits(a)))
    [] OTHER -> 0

Flags(ifun, a, b) ==
  LET out == AluOut(ifun, a, b) IN
  [ZF |-> out = 0,
   SF |-> Negative(out),
   OF |-> /\ Negative(out) # Negative(b)
          /\ \/ ifun = 0 /\ Negative(a) = Negative(b)
             \/ ifun = 1 /\ Negative(a) # Negative(b)]

ValE(i, a, b) ==
  CASE i.icode = "ALU" -> AluOut(i.ifun, a, b)
    [] i.icode = "RRMOVL" -> a
    [] i.icode = "IRMOVL" -> i.valC
    [] i.icode \in {"RMMOVL", "MRMOVL"} -> WAdd(b, i.valC)
    [] i.icode \in {"PUSHL", "CALL"} -> WSub(b, 8)
    [] i.icode \in {"POPL", "RET"} -> WAdd(b, 8)
    [] OTHER -> 0

Reads(i) == i.icode \in {"MRMOVL", "RET", "POPL"}

Writes(i) == i.icode \in {"RMMOVL", "CALL", "PUSHL"}

(* mem_addr: the computed address, or the old stack pointer *)
MemAddr(i, valA, valE) == IF i.icode \in {"RET", "POPL"} THEN valA ELSE valE

CellOf(a) == a \div 8

AddrValid(a) == CellOf(a) < Cells

MemError(i, a) == (Reads(i) \/ Writes(i)) /\ ~AddrValid(a)

(* valM: 0 without a read, and for a read that fails *)
ValM(i, mem, a) == IF Reads(i) /\ AddrValid(a) THEN mem[CellOf(a)] ELSE 0

Read(regs, r) == IF r = F THEN 0 ELSE regs[r]

(* dstE, then dstM, which wins when they are the same register *)
WriteBack(regs, dstE, valE, dstM, valM) ==
  [r \in Regs |-> IF r = dstM THEN valM ELSE IF r = dstE THEN valE ELSE regs[r]]

(* The signed comparisons of the conditional moves and jumps. *)
Holds(ifun, cc) ==
  LET less == cc.SF # cc.OF IN
  CASE ifun = 0 -> TRUE
    [] ifun = 1 -> less \/ cc.ZF
    [] ifun = 2 -> less
    [] ifun = 3 -> cc.ZF
    [] ifun = 4 -> ~cc.ZF
    [] ifun = 5 -> ~less
    [] ifun = 6 -> ~less /\ ~cc.ZF
    [] OTHER -> FALSE
=============================================================================
