------------------------------- MODULE Y86Seq -------------------------------
(***************************************************************************)
(* The sequential core src/y86: one clock edge runs one instruction.  The  *)
(* status is combinational; a status other than AOK holds the PC and       *)
(* nothing else, so that the instruction runs again at every edge.         *)
(***************************************************************************)
EXTENDS Y86

CONSTANT Programs

VARIABLES prog, PC, regfile, CC, data_mem

seqVars == <<prog, PC, regfile, CC, data_mem>>

(* rst_n_i: register i holds i and ZF is set *)
ResetRegs == [r \in Regs |-> r]

ResetCC == [ZF |-> TRUE, SF |-> FALSE, OF |-> FALSE]

SeqInit ==
  /\ prog \in Programs
  /\ PC = 0
  /\ regfile = ResetRegs
  /\ CC = ResetCC
  /\ data_mem = [c \in 0 .. Cells - 1 |-> 0]

(* Faulty variant: <= tests the sign alone. *)
CndWithoutZF(ifun, c) ==
  IF ifun = 1 THEN c.SF ELSE Holds(ifun, [c EXCEPT !.OF = FALSE])

(* Cnd_o reads ZF and SF only *)
Cnd(ifun, c) == Holds(ifun, [c EXCEPT !.OF = FALSE])

instr == FetchAt(prog, PC)

valA == Read(regfile, SrcA(instr))

valB == Read(regfile, SrcB(instr))

valE == ValE(instr, valA, valB)

mem_addr == MemAddr(instr, valA, valE)

valM == ValM(instr, data_mem, mem_addr)

stat ==
  IF PC > ImemTop THEN "ADR"
  ELSE IF ~InstrValid(instr) THEN "INS"
  ELSE IF MemError(instr, mem_addr) THEN "ADR"
  ELSE IF instr.icode = "HALT" THEN "HLT"
  ELSE "AOK"

new_PC ==
  CASE instr.icode = "CALL" -> instr.valC
    [] instr.icode = "RET" -> valM
    [] instr.icode = "JXX" /\ Cnd(instr.ifun, CC) -> instr.valC
    [] OTHER -> PC + 1

Clock ==
  /\ PC' = IF stat = "AOK" THEN new_PC ELSE PC
  /\ regfile' = WriteBack(regfile,
                  IF instr.icode = "RRMOVL" /\ ~Cnd(instr.ifun, CC) THEN F ELSE DstE(instr),
                  valE, DstM(instr), valM)
  /\ CC' = IF instr.icode = "ALU" THEN Flags(instr.ifun, valA, valB) ELSE CC
  /\ data_mem' = IF Writes(instr) /\ AddrValid(mem_addr)
                 THEN [data_mem EXCEPT ![CellOf(mem_addr)] =
                         IF instr.icode = "CALL" THEN PC + 1 ELSE valA]
                 ELSE data_mem
  /\ UNCHANGED prog

SeqSpec == SeqInit /\ [][Clock]_seqVars

-----------------------------------------------------------------------------
Isa == INSTANCE Y86Isa
         WITH InitRegs <- ResetRegs, InitCC <- ResetCC, regs <- regfile,
              cc <- CC, mem <- data_mem, pc <- PC
=============================================================================
