------------------------------- MODULE Y86Pipe ------------------------------
(***************************************************************************)
(* The five-stage core src/pipelined_y86.  D, E, M and W are the pipeline  *)
(* registers; one step is one clock edge.  A register also carries the     *)
(* address "at" its instruction was fetched from (Modulus in a bubble) and *)
(* M the condition codes its instruction met: they feed nothing and serve  *)
(* the refinement only.                                                    *)
(***************************************************************************)
EXTENDS Y86, Sequences, FiniteSetsExt

CONSTANT Programs

VARIABLES prog, f_pc, D, E, M, W,
          reg_file, CC, data_mem,
          cpu_stat                  \* cpu_stat_reg

pipeVars == <<prog, f_pc, D, E, M, W, reg_file, CC, data_mem, cpu_stat>>

ZeroRegs == [r \in Regs |-> 0]

ClearCC == [ZF |-> FALSE, SF |-> FALSE, OF |-> FALSE]

(* What reset or a bubble puts into the registers. *)
DBubble == [stat |-> "AOK", i |-> Nop, valP |-> 0, at |-> Modulus]

EBubble == [stat |-> "AOK", i |-> Nop, valA |-> 0, valB |-> 0, dstE |-> F, dstM |-> F,
            srcA |-> F, srcB |-> F, at |-> Modulus]

MBubble == [stat |-> "AOK", i |-> Nop, valA |-> 0, valE |-> 0, dstE |-> F, dstM |-> F,
            Cnd |-> FALSE, at |-> Modulus, cc |-> ClearCC]

WReset == [stat |-> "AOK", icode |-> "NOP", valE |-> 0, valM |-> 0, dstE |-> F, dstM |-> F]

PipeInit ==
  /\ prog \in Programs
  /\ f_pc = 0
  /\ D = DBubble /\ E = EBubble /\ M = MBubble /\ W = WReset
  /\ reg_file = ZeroRegs
  /\ CC = ClearCC
  /\ data_mem = [c \in 0 .. Cells - 1 |-> 0]
  /\ cpu_stat = "AOK"

-----------------------------------------------------------------------------
(* F: predPC is always valP. *)
f_instr == FetchAt(prog, f_pc)

f_stat == IF InstrValid(f_instr) THEN "AOK" ELSE "INS"

-----------------------------------------------------------------------------
(* M *)
m_addr == MemAddr(M.i, M.valA, M.valE)

m_valM == ValM(M.i, data_mem, m_addr)

m_stat == IF MemError(M.i, m_addr) THEN "ADR" ELSE M.stat

-----------------------------------------------------------------------------
(* The value of the first port that writes src, or val. *)
Bypass(src, ports, val) ==
  LET hits == {k \in DOMAIN ports : ports[k][1] = src} IN
  IF src = F \/ hits = {} THEN val ELSE ports[Min(hits)][2]

(* E: the operands are forwarded a second time, from M and W. *)
SelectE(src, val) ==
  Bypass(src, <<<<M.dstE, M.valE>>, <<W.dstM, W.valM>>, <<W.dstE, W.valE>>>>, val)

aluA == SelectE(E.srcA, E.valA)

aluB == SelectE(E.srcB, E.valB)

e_valE == ValE(E.i, aluA, aluB)

e_Cnd == Holds(E.i.ifun, CC)

e_dstE == IF E.i.icode = "RRMOVL" /\ ~e_Cnd THEN F ELSE E.dstE

-----------------------------------------------------------------------------
(* D *)
d_srcA == IF D.i.icode = "MRMOVL" THEN F ELSE SrcA(D.i)

d_srcB == SrcB(D.i)

(* Sel+Fwd, in the order of its priority *)
Forward(src) ==
  Bypass(src, <<<<e_dstE, e_valE>>, <<M.dstE, M.valE>>, <<M.dstM, m_valM>>,
                <<W.dstE, W.valE>>, <<W.dstM, W.valM>>>>, Read(reg_file, src))

d_valA == IF D.i.icode \in {"CALL", "JXX"} THEN D.valP ELSE Forward(d_srcA)

-----------------------------------------------------------------------------
(* pipe_control *)
load_use_hazard ==
  /\ E.i.icode \in {"MRMOVL", "POPL"}
  /\ E.dstM \in {d_srcA, d_srcB}
  /\ E.dstM # F

mispredicted == M.i.icode = "JXX" /\ M.Cnd

ret_hazard == "RET" \in {D.i.icode, E.i.icode, M.i.icode}

F_stall == load_use_hazard \/ ret_hazard

D_stall == load_use_hazard

D_bubble == mispredicted \/ (~D_stall /\ ret_hazard)

(* Faulty variant: a taken jump lets the younger instruction pass. *)
BubbleOnLoadOnly == load_use_hazard

E_bubble == mispredicted \/ load_use_hazard

-----------------------------------------------------------------------------
(* pipe_pc_logic: a stall holds the PC, whatever M and W say *)
NextPc ==
  IF F_stall THEN f_pc
  ELSE IF mispredicted THEN M.i.valC
  ELSE IF W.icode = "RET" THEN W.valM
  ELSE f_pc + 1

NextD ==
  IF D_bubble THEN DBubble
  ELSE IF D_stall THEN D
  ELSE [stat |-> f_stat, i |-> f_instr, valP |-> f_pc + 1, at |-> f_pc]

NextE ==
  IF E_bubble THEN EBubble
  ELSE [stat |-> D.stat, i |-> D.i, valA |-> d_valA, valB |-> Forward(d_srcB),
        dstE |-> DstE(D.i), dstM |-> DstM(D.i), srcA |-> d_srcA, srcB |-> d_srcB,
        at |-> D.at]

(* E_bubble also clears the E/M register *)
NextM ==
  IF E_bubble THEN MBubble
  ELSE [stat |-> E.stat, i |-> E.i, valA |-> aluA, valE |-> e_valE, dstE |-> e_dstE,
        dstM |-> E.dstM, Cnd |-> e_Cnd, at |-> E.at, cc |-> CC]

NextW == [stat |-> m_stat, icode |-> M.i.icode, valE |-> M.valE, valM |-> m_valM,
          dstE |-> M.dstE, dstM |-> M.dstM]

w_stat == IF W.icode = "HALT" THEN "HLT" ELSE W.stat

(* One clock edge.  M_valP is not driven (pipelined_y86_cpu.v:220): CALL   *)
(* stores whatever the build puts on it.  Bound: fetching past the         *)
(* instruction memory is left out.                                         *)
Clock ==
  /\ f_pc \leq ImemTop
  /\ f_pc' = NextPc
  /\ D' = NextD
  /\ E' = NextE
  /\ M' = NextM
  /\ W' = NextW
  /\ reg_file' = WriteBack(reg_file, W.dstE, W.valE, W.dstM, W.valM)
  /\ CC' = IF E.i.icode = "ALU" /\ ~E_bubble THEN Flags(E.i.ifun, aluA, aluB) ELSE CC
  /\ \E valP \in IF M.i.icode = "CALL" THEN Words ELSE {0} :
       data_mem' = IF Writes(M.i) /\ AddrValid(m_addr)
                   THEN [data_mem EXCEPT ![CellOf(m_addr)] =
                           IF M.i.icode = "CALL" THEN valP ELSE M.valA]
                   ELSE data_mem
  /\ cpu_stat' = IF w_stat # "AOK" THEN w_stat ELSE cpu_stat
  /\ UNCHANGED prog

PipeSpec == PipeInit /\ [][Clock]_pipeVars

-----------------------------------------------------------------------------
(* The address of the oldest instruction that has not left M. *)
Oldest ==
  LET stages == <<M.at, E.at, D.at, f_pc>>
      held == {k \in 1 .. 4 : stages[k] # Modulus} IN
  IF cpu_stat # "AOK" \/ w_stat # "AOK" THEN Modulus ELSE stages[Min(held)]

Isa == INSTANCE Y86Isa
         WITH InitRegs <- ZeroRegs, InitCC <- ClearCC,
              pc <- Oldest, mem <- data_mem,
              regs <- WriteBack(reg_file, W.dstE, W.valE, W.dstM, W.valM),
              cc <- IF M.at # Modulus THEN M.cc ELSE CC
=============================================================================
