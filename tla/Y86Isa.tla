------------------------------- MODULE Y86Isa -------------------------------
(***************************************************************************)
(* What a Y86-64 processor promises a program: its instructions take       *)
(* effect one at a time, in program order, up to the first one that does   *)
(* not complete with STAT_AOK.                                             *)
(***************************************************************************)
EXTENDS Y86

CONSTANTS InitRegs,   \* the registers after reset
          InitCC      \* the condition codes after reset

Stopped == Modulus    \* not a word

VARIABLES prog,   \* the program: a function from addresses to instructions
          pc,     \* the address of the next instruction, or Stopped
          regs, cc, mem

isaVars == <<prog, pc, regs, cc, mem>>

IsaInit ==
  /\ pc = 0
  /\ regs = InitRegs
  /\ cc = InitCC
  /\ mem = [c \in 0 .. Cells - 1 |-> 0]

Instr == FetchAt(prog, pc)

A == Read(regs, SrcA(Instr))

B == Read(regs, SrcB(Instr))

Address == MemAddr(Instr, A, ValE(Instr, A, B))

Completes ==
  /\ ~(pc > ImemTop)
  /\ InstrValid(Instr)
  /\ Instr.icode # "HALT"
  /\ ~MemError(Instr, Address)

(* One instruction completes: all its effects at once. *)
Execute ==
  LET e == ValE(Instr, A, B)
      cnd == Holds(Instr.ifun, cc)
      m == ValM(Instr, mem, Address) IN
  /\ pc # Stopped
  /\ Completes
  /\ pc' = CASE Instr.icode = "CALL" \/ (Instr.icode = "JXX" /\ cnd) -> Instr.valC
             [] Instr.icode = "RET" -> m
             [] OTHER -> pc + 1
  /\ regs' = WriteBack(regs, IF Instr.icode = "RRMOVL" /\ ~cnd THEN F ELSE DstE(Instr), e,
                       DstM(Instr), m)
  /\ cc' = IF Instr.icode = "ALU" THEN Flags(Instr.ifun, A, B) ELSE cc
  /\ mem' = IF Writes(Instr)
            THEN [mem EXCEPT ![CellOf(Address)] =
                    IF Instr.icode = "CALL" THEN pc + 1 ELSE A]
            ELSE mem
  /\ UNCHANGED prog

(* HALT, an illegal instruction or an address error ends what is promised: *)
(* the machine waits there, or leaves this specification.                  *)
Stop ==
  /\ pc # Stopped
  /\ ~Completes
  /\ pc' = Stopped
  /\ UNCHANGED prog

AfterStop == pc = Stopped /\ UNCHANGED <<prog, pc>>

IsaNext == Execute \/ Stop \/ AfterStop

IsaSpec == IsaInit /\ [][IsaNext]_isaVars
=============================================================================
