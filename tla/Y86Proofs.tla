------------------------------ MODULE Y86Proofs ------------------------------
(***************************************************************************)
(* Proofs about both Y86 cores, for every width, register file, memory     *)
(* size and set of programs: as long as a program keeps clear of the       *)
(* defects that SeqPromised and PipePromised name, a core does what the    *)
(* instruction set promises.                                               *)
(***************************************************************************)
EXTENDS MCY86, Integers, TLAPS

(* What the sequential core needs of the programs it runs: no instruction  *)
(* faults (one that does is executed again at every edge), and no          *)
(* conditional instruction meets a signed overflow (Cnd_o does not look at *)
(* OF).                                                                    *)
SeqPromised ==
  core = "seq" =>
    /\ SeqCore!stat \in {"AOK", "HLT"}
    /\ SeqCore!instr.icode \in {"RRMOVL", "JXX"} => ~CC.OF

(* The register file has its registers and the flags are flags. *)
SeqInv ==
  core = "seq" =>
    /\ regfile = [r \in Regs |-> regfile[r]]
    /\ CC \in [ZF : BOOLEAN, SF : BOOLEAN, OF : BOOLEAN]

-----------------------------------------------------------------------------
(* The instruction set and the core use the same operators (Y86): the      *)
(* provers are told so, since each instance has names of its own.          *)

(* Both fetch the same instruction (fetch.v:60-119). *)
LEMMA SameInstr == SeqCore!Isa!Instr = SeqCore!instr
BY DEF SeqCore!instr, SeqCore!Isa!Instr, SeqCore!FetchAt, SeqCore!Isa!FetchAt,
     SeqCore!Nop, SeqCore!Isa!Nop, SeqCore!F, SeqCore!Isa!F

(* Both read the same operands (decode.v). *)
LEMMA SameOperands ==
  /\ SeqCore!Isa!A = SeqCore!valA
  /\ SeqCore!Isa!B = SeqCore!valB
BY SameInstr, Zenon DEF SeqCore!Isa!A, SeqCore!Isa!B, SeqCore!valA, SeqCore!valB,
     SeqCore!Read, SeqCore!Isa!Read, SeqCore!SrcA, SeqCore!Isa!SrcA,
     SeqCore!SrcB, SeqCore!Isa!SrcB, SeqCore!RSP, SeqCore!Isa!RSP, SeqCore!F, SeqCore!Isa!F

(* Both add and subtract the same words, and take them apart into the same *)
(* bits (execute.v).                                                       *)
LEMMA SameArithmetic ==
  /\ \A a, b : SeqCore!Isa!WAdd(a, b) = SeqCore!WAdd(a, b)
  /\ \A a, b : SeqCore!Isa!WSub(a, b) = SeqCore!WSub(a, b)
  /\ \A a : SeqCore!Isa!Bits(a) = SeqCore!Bits(a)
  /\ \A S : SeqCore!Isa!FromBits(S) = SeqCore!FromBits(S)
  /\ \A a : SeqCore!Isa!Negative(a) = SeqCore!Negative(a)
<1>1. \A a, b : SeqCore!Isa!WAdd(a, b) = SeqCore!WAdd(a, b)
  BY Zenon DEF SeqCore!Isa!WAdd, SeqCore!WAdd, SeqCore!Isa!Modulus, SeqCore!Modulus
<1>2. \A a, b : SeqCore!Isa!WSub(a, b) = SeqCore!WSub(a, b)
  BY Zenon DEF SeqCore!Isa!WSub, SeqCore!WSub, SeqCore!Isa!Modulus, SeqCore!Modulus
<1>3. \A a : SeqCore!Isa!Bits(a) = SeqCore!Bits(a)
  BY Zenon DEF SeqCore!Isa!Bits, SeqCore!Bits
<1>4. \A S : SeqCore!Isa!FromBits(S) = SeqCore!FromBits(S)
  BY Zenon DEF SeqCore!FromBits, SeqCore!Isa!FromBits
<1>5. \A a : SeqCore!Isa!Negative(a) = SeqCore!Negative(a)
  BY <1>3, Zenon DEF SeqCore!Isa!Negative, SeqCore!Negative
<1> QED
  BY <1>1, <1>2, <1>3, <1>4, <1>5

(* Both compute the same results and flags (execute.v). *)
LEMMA SameResults ==
  /\ \A i, a, b : SeqCore!Isa!ValE(i, a, b) = SeqCore!ValE(i, a, b)
  /\ \A f, a, b : SeqCore!Isa!Flags(f, a, b) = SeqCore!Flags(f, a, b)
<1>1. \A f, a, b : SeqCore!Isa!AluOut(f, a, b) = SeqCore!AluOut(f, a, b)
  BY SameArithmetic, Zenon DEF SeqCore!Isa!AluOut, SeqCore!AluOut
<1>2. \A i, a, b : SeqCore!Isa!ValE(i, a, b) = SeqCore!ValE(i, a, b)
  BY <1>1, SameArithmetic, Zenon DEF SeqCore!Isa!ValE, SeqCore!ValE
<1>3. \A f, a, b : SeqCore!Isa!Flags(f, a, b) = SeqCore!Flags(f, a, b)
  BY <1>1, SameArithmetic, Zenon DEF SeqCore!Isa!Flags, SeqCore!Flags
<1> QED
  BY <1>2, <1>3

(* Both agree on which instructions are valid, on conditions, addresses    *)
(* and what is written where (decode.v, memory_access.v, write_back.v).    *)
LEMMA SameEffects ==
  /\ \A i : SeqCore!Isa!InstrValid(i) <=> SeqCore!InstrValid(i)
  /\ \A f, c : SeqCore!Isa!Holds(f, c) = SeqCore!Holds(f, c)
  /\ \A i, a, e : SeqCore!Isa!MemAddr(i, a, e) = SeqCore!MemAddr(i, a, e)
  /\ \A i, a : SeqCore!Isa!MemError(i, a) <=> SeqCore!MemError(i, a)
  /\ \A i, m, a : SeqCore!Isa!ValM(i, m, a) = SeqCore!ValM(i, m, a)
  /\ \A i : SeqCore!Isa!Writes(i) <=> SeqCore!Writes(i)
  /\ \A a : SeqCore!Isa!CellOf(a) = SeqCore!CellOf(a)
  /\ \A i : SeqCore!Isa!DstE(i) = SeqCore!DstE(i) /\ SeqCore!Isa!DstM(i) = SeqCore!DstM(i)
  /\ \A r, d, e, s, m : SeqCore!Isa!WriteBack(r, d, e, s, m) = SeqCore!WriteBack(r, d, e, s, m)
<1>1. \A i : SeqCore!Isa!InstrValid(i) <=> SeqCore!InstrValid(i)
  BY Zenon DEF SeqCore!Isa!InstrValid, SeqCore!InstrValid
<1>2. \A f, c : SeqCore!Isa!Holds(f, c) = SeqCore!Holds(f, c)
  BY Zenon DEF SeqCore!Isa!Holds, SeqCore!Holds
<1>3. \A i, a, e : SeqCore!Isa!MemAddr(i, a, e) = SeqCore!MemAddr(i, a, e)
  BY Zenon DEF SeqCore!Isa!MemAddr, SeqCore!MemAddr
<1>4. \A i, a : SeqCore!Isa!MemError(i, a) <=> SeqCore!MemError(i, a)
  BY Zenon DEF SeqCore!Isa!MemError, SeqCore!MemError, SeqCore!Isa!Reads, SeqCore!Reads,
       SeqCore!Isa!Writes, SeqCore!Writes, SeqCore!Isa!AddrValid, SeqCore!AddrValid,
       SeqCore!Isa!CellOf, SeqCore!CellOf
<1>5. \A i, m, a : SeqCore!Isa!ValM(i, m, a) = SeqCore!ValM(i, m, a)
  BY Zenon DEF SeqCore!Isa!ValM, SeqCore!ValM, SeqCore!Isa!Reads, SeqCore!Reads,
       SeqCore!Isa!AddrValid, SeqCore!AddrValid, SeqCore!Isa!CellOf, SeqCore!CellOf
<1>6. \A i : SeqCore!Isa!Writes(i) <=> SeqCore!Writes(i)
  BY Zenon DEF SeqCore!Isa!Writes, SeqCore!Writes
<1>7. \A a : SeqCore!Isa!CellOf(a) = SeqCore!CellOf(a)
  BY Zenon DEF SeqCore!Isa!CellOf, SeqCore!CellOf
<1>8. \A i : SeqCore!Isa!DstE(i) = SeqCore!DstE(i) /\ SeqCore!Isa!DstM(i) = SeqCore!DstM(i)
  BY Zenon DEF SeqCore!Isa!DstE, SeqCore!DstE, SeqCore!Isa!DstM, SeqCore!DstM,
       SeqCore!RSP, SeqCore!Isa!RSP, SeqCore!F, SeqCore!Isa!F
<1>9. \A r, d, e, s, m : SeqCore!Isa!WriteBack(r, d, e, s, m) = SeqCore!WriteBack(r, d, e, s, m)
  BY Zenon DEF SeqCore!Isa!WriteBack, SeqCore!WriteBack
<1> QED
  BY <1>1, <1>2, <1>3, <1>4, <1>5, <1>6, <1>7, <1>8, <1>9

-----------------------------------------------------------------------------
(* Reset leaves a register file and flags, and the state the instruction   *)
(* set starts from (y86_cpu.v:47-129).                                     *)
LEMMA SeqInitFacts ==
  Init => SeqInv /\ (core = "seq" => SeqCore!Isa!IsaInit)
<1> SUFFICES ASSUME Init, core = "seq"
             PROVE  /\ regfile = [r \in Regs |-> regfile[r]]
                    /\ CC \in [ZF : BOOLEAN, SF : BOOLEAN, OF : BOOLEAN]
                    /\ SeqCore!Isa!IsaInit
  BY DEF SeqInv
<1>1. SeqCore!SeqInit
  BY DEF Init
<1> QED
  BY <1>1 DEF SeqCore!SeqInit, SeqCore!ResetRegs, SeqCore!ResetCC, SeqCore!Isa!IsaInit

(* The register file and the flags stay what they are at every edge        *)
(* (decode.v, execute.v).                                                  *)
LEMMA SeqInvStep == SeqInv /\ [Next]_vars => SeqInv'
<1> SUFFICES ASSUME SeqInv, [Next]_vars, core' = "seq"
             PROVE  /\ regfile' = [r \in Regs |-> regfile'[r]]
                    /\ CC' \in [ZF : BOOLEAN, SF : BOOLEAN, OF : BOOLEAN]
  BY DEF SeqInv
<1>1. CASE UNCHANGED vars
  BY <1>1 DEF vars, seqOnly, SeqInv
<1>2. CASE SeqClock
  <2>1. core = "seq" /\ SeqCore!Clock
    BY <1>2 DEF SeqClock
  <2>2. regfile' = [r \in Regs |-> regfile'[r]]
    BY <2>1 DEF SeqCore!Clock, SeqCore!WriteBack
  <2>3. \A f, a, b : SeqCore!Flags(f, a, b) \in [ZF : BOOLEAN, SF : BOOLEAN, OF : BOOLEAN]
    BY DEF SeqCore!Flags, SeqCore!Negative
  <2>4. CC' \in [ZF : BOOLEAN, SF : BOOLEAN, OF : BOOLEAN]
    BY <2>1, <2>3 DEF SeqCore!Clock, SeqInv
  <2> QED
    BY <2>2, <2>4
<1>3. CASE PipeClock
  BY <1>3 DEF PipeClock
<1> QED
  BY <1>1, <1>2, <1>3 DEF Next

(* At HALT the core changes nothing (pc_update.v:69, decode.v). *)
LEMMA SeqHalts ==
  ASSUME SeqInv, SeqPromised, core = "seq", SeqCore!Clock, SeqCore!stat # "AOK"
  PROVE  PC' = PC /\ regfile' = regfile /\ CC' = CC /\ data_mem' = data_mem /\ prog' = prog
<1>1. SeqCore!instr.icode = "HALT"
  BY DEF SeqPromised, SeqCore!stat
<1>2. SeqCore!DstE(SeqCore!instr) = 15 /\ SeqCore!DstM(SeqCore!instr) = 15 /\ SeqCore!F = 15
  <2>1. SeqCore!DstM(SeqCore!instr) = SeqCore!F
    BY <1>1 DEF SeqCore!DstM
  <2>2. SeqCore!DstE(SeqCore!instr) = SeqCore!F
    BY <1>1, Zenon DEF SeqCore!DstE
  <2> QED
    BY <2>1, <2>2 DEF SeqCore!F
<1>3. 15 \notin Regs
  BY Y86Assumption DEF F
<1>4. regfile' = [r \in Regs |-> regfile[r]]
  BY <1>1, <1>2, <1>3 DEF SeqCore!Clock, SeqCore!WriteBack
<1>5. ~SeqCore!Writes(SeqCore!instr)
  BY <1>1 DEF SeqCore!Writes
<1> QED
  BY <1>1, <1>4, <1>5 DEF SeqCore!Clock, SeqInv

(* An instruction that completes has all the effects the instruction set   *)
(* gives it (y86_cpu.v:47-129).                                            *)
LEMMA SeqExecutes ==
  ASSUME SeqInv, SeqPromised, core = "seq", SeqCore!Clock, SeqCore!stat = "AOK"
  PROVE  SeqCore!Isa!Execute
<1> DEFINE i == SeqCore!instr
           cnd == SeqCore!Cnd(i.ifun, CC)
           addr == SeqCore!mem_addr
<1>1. /\ ~(PC > ImemTop) /\ SeqCore!InstrValid(i) /\ ~SeqCore!MemError(i, addr)
      /\ i.icode # "HALT"
  BY DEF SeqCore!stat
<1>2. /\ SeqCore!Isa!Instr = i /\ SeqCore!Isa!A = SeqCore!valA /\ SeqCore!Isa!B = SeqCore!valB
  BY SameInstr, SameOperands
<1>3. /\ SeqCore!Isa!ValE(i, SeqCore!valA, SeqCore!valB) = SeqCore!valE
      /\ SeqCore!Isa!Address = addr
      /\ SeqCore!Isa!ValM(i, data_mem, addr) = SeqCore!valM
  BY <1>2, SameResults, SameEffects DEF SeqCore!valE, SeqCore!Isa!Address, SeqCore!mem_addr, SeqCore!valM
<1>4. PC # SeqCore!Isa!Stopped
  <2>1. Modulus > ImemTop
    BY Y86Assumption
  <2>2. SeqCore!Isa!Stopped = Modulus
    BY DEF SeqCore!Isa!Stopped, SeqCore!Isa!Modulus, Modulus
  <2> QED
    BY <1>1, <2>1, <2>2
<1>5. SeqCore!Isa!Completes
  BY <1>1, <1>2, <1>3, SameEffects DEF SeqCore!Isa!Completes
<1>6. i.icode \in {"RRMOVL", "JXX"} => cnd = SeqCore!Isa!Holds(i.ifun, CC)
  <2>1. i.icode \in {"RRMOVL", "JXX"} => [CC EXCEPT !.OF = FALSE] = CC
    BY DEF SeqPromised, SeqInv
  <2> QED
    BY <2>1, SameEffects DEF SeqCore!Cnd
<1> DEFINE hold == SeqCore!Isa!Holds(i.ifun, CC)
<1>7. PC' = CASE i.icode = "CALL" \/ (i.icode = "JXX" /\ hold) -> i.valC
              [] i.icode = "RET" -> SeqCore!valM
              [] OTHER -> PC + 1
  <2>0. PC' = SeqCore!new_PC
    BY DEF SeqCore!Clock
  <2>1. CASE i.icode = "CALL"
    BY <2>0, <2>1, Zenon DEF SeqCore!new_PC
  <2>2. CASE i.icode = "RET"
    BY <2>0, <2>2, Zenon DEF SeqCore!new_PC
  <2>3. CASE i.icode = "JXX" /\ hold
    BY <1>6, <2>0, <2>3, Zenon DEF SeqCore!new_PC
  <2>4. CASE ~(i.icode = "CALL") /\ ~(i.icode = "RET") /\ ~(i.icode = "JXX" /\ hold)
    BY <1>6, <2>0, <2>4, Zenon DEF SeqCore!new_PC
  <2> QED
    BY <2>1, <2>2, <2>3, <2>4
<1>8. regfile' = SeqCore!Isa!WriteBack(regfile,
                   IF i.icode = "RRMOVL" /\ ~hold THEN SeqCore!Isa!F ELSE SeqCore!Isa!DstE(i),
                   SeqCore!valE, SeqCore!Isa!DstM(i), SeqCore!valM)
  <2>1. (i.icode = "RRMOVL" /\ ~cnd) <=> (i.icode = "RRMOVL" /\ ~hold)
    BY <1>6
  <2>2. SeqCore!Isa!F = SeqCore!F
    BY DEF SeqCore!Isa!F, SeqCore!F
  <2>3. regfile' = SeqCore!WriteBack(regfile,
                     IF i.icode = "RRMOVL" /\ ~cnd THEN SeqCore!F ELSE SeqCore!DstE(i),
                     SeqCore!valE, SeqCore!DstM(i), SeqCore!valM)
    BY DEF SeqCore!Clock
  <2> HIDE DEF i, cnd, hold
  <2> QED
    BY <2>1, <2>2, <2>3, SameEffects
<1>9. CC' = IF i.icode = "ALU" THEN SeqCore!Isa!Flags(i.ifun, SeqCore!valA, SeqCore!valB) ELSE CC
  BY SameResults DEF SeqCore!Clock
<1>10. data_mem' = IF SeqCore!Isa!Writes(i)
                   THEN [data_mem EXCEPT ![SeqCore!Isa!CellOf(addr)] =
                           IF i.icode = "CALL" THEN PC + 1 ELSE SeqCore!valA]
                   ELSE data_mem
  <2>1. SeqCore!Writes(i) => SeqCore!AddrValid(addr)
    BY <1>1 DEF SeqCore!MemError
  <2> QED
    BY <2>1, SameEffects DEF SeqCore!Clock
<1>11. prog' = prog
  BY DEF SeqCore!Clock
<1> HIDE DEF i, addr, hold
<1> QED
  BY <1>2, <1>3, <1>4, <1>5, <1>7, <1>8, <1>9, <1>10, <1>11, Zenon DEF SeqCore!Isa!Execute, hold

(* Every clock edge of the sequential core is a step of the instruction    *)
(* set, or changes nothing (y86_cpu.v:47-129).                             *)
LEMMA SeqStep ==
  ASSUME SeqInv, SeqPromised, [Next]_vars
  PROVE  [core = "seq" => SeqCore!Isa!IsaNext]_vars
<1>1. CASE SeqClock /\ SeqCore!stat = "AOK"
  BY <1>1, SeqExecutes DEF SeqClock, SeqCore!Isa!IsaNext
<1>2. CASE SeqClock /\ SeqCore!stat # "AOK"
  BY <1>2, SeqHalts DEF SeqClock, vars, seqOnly
<1>3. CASE PipeClock
  BY <1>3 DEF PipeClock
<1> QED
  BY <1>1, <1>2, <1>3 DEF Next

(* The sequential core runs every program as the instruction set promises, *)
(* whatever the width, the registers and the memory, as long as no         *)
(* instruction faults and no conditional instruction meets an overflow     *)
(* (y86_cpu.v:47-129).                                                     *)
THEOREM SequentialCoreCorrect == Spec /\ []SeqPromised => SeqImplementsIsa
<1>1. Init => SeqInv /\ (core = "seq" => SeqCore!Isa!IsaInit)
  BY SeqInitFacts
<1>2. SeqInv /\ [Next]_vars => SeqInv'
  BY SeqInvStep
<1>3. SeqInv /\ SeqPromised /\ [Next]_vars => [core = "seq" => SeqCore!Isa!IsaNext]_vars
  BY SeqStep
<1> QED
  BY <1>1, <1>2, <1>3, PTL DEF Spec, SeqImplementsIsa

-----------------------------------------------------------------------------
(* The pipelined core.                                                     *)

(* Nothing has stopped the core yet. *)
Running == cpu_stat = "AOK" /\ PipeCore!w_stat = "AOK"

(* What the pipelined core needs of the programs it runs: no instruction   *)
(* in D uses what the one in E loads (the bubble also clears E/M, so that  *)
(* the load is lost), there is no return and no call (M_valP is not        *)
(* driven), and nothing in D reads the register that a POPL in W both      *)
(* loads and computes (decode forwards W_valE before W_valM, while the     *)
(* register file keeps W_valM).                                            *)
PipePromised ==
  core = "pipe" /\ Running =>
    /\ ~PipeCore!load_use_hazard /\ ~PipeCore!ret_hazard
    /\ M.i.icode # "CALL"
    /\ W.dstE = W.dstM /\ W.dstM # F =>
         W.dstM \notin {PipeCore!d_srcA, PipeCore!d_srcB}

(* The registers as the instruction in M finds them, and the one in E. *)
ArchM == PipeCore!WriteBack(reg_file, W.dstE, W.valE, W.dstM, W.valM)
ArchE == PipeCore!WriteBack(ArchM, M.dstE, M.valE, M.dstM, PipeCore!m_valM)

(* A stage is empty, or holds the instruction fetched from its address. *)
Empty(s) == s.at = Modulus /\ s.i = PipeCore!Nop /\ s.stat = "AOK"
Fetched(s) ==
  /\ s.at \in Nat /\ s.at \leq ImemTop /\ s.at # Modulus
  /\ s.i = PipeCore!FetchAt(prog, s.at)
  /\ s.stat = IF PipeCore!InstrValid(s.i) THEN "AOK" ELSE "INS"

(* The stages fill from the front, with consecutive instructions. *)
Chain ==
  /\ f_pc \in Nat
  /\ \/ Empty(D) /\ Empty(E) /\ Empty(M)
     \/ Fetched(D) /\ f_pc = D.at + 1 /\ Empty(E) /\ Empty(M)
     \/ Fetched(D) /\ f_pc = D.at + 1 /\ Fetched(E) /\ D.at = E.at + 1 /\ Empty(M)
     \/ /\ Fetched(D) /\ f_pc = D.at + 1 /\ Fetched(E) /\ D.at = E.at + 1
        /\ Fetched(M) /\ E.at = M.at + 1

(* The sources of an instruction as the decode stage sees them. *)
ReadsA(i) == IF i.icode = "MRMOVL" THEN PipeCore!F ELSE PipeCore!SrcA(i)

(* What the instruction in E gets for its operands, once forwarded, is     *)
(* what the instruction before it leaves.                                  *)
EOperands ==
  /\ E.dstE = PipeCore!DstE(E.i) /\ E.dstM = PipeCore!DstM(E.i)
  /\ E.srcA = ReadsA(E.i) /\ E.srcB = PipeCore!SrcB(E.i)
  /\ M.dstM = F \/ M.dstM \notin {E.srcA, E.srcB}
  /\ E.i.icode \notin {"CALL", "JXX"} => PipeCore!aluA = PipeCore!Read(ArchE, E.srcA)
  /\ PipeCore!aluB = PipeCore!Read(ArchE, E.srcB)

(* What M holds is what the instruction set computes from the registers    *)
(* and flags that the instruction meets.                                   *)
MResults ==
  LET a == PipeCore!Read(ArchM, PipeCore!SrcA(M.i))
      b == PipeCore!Read(ArchM, PipeCore!SrcB(M.i)) IN
  /\ M.valE = PipeCore!ValE(M.i, a, b)
  /\ M.i.icode \notin {"MRMOVL", "CALL", "JXX"} => M.valA = a
  /\ M.dstE = IF M.i.icode = "RRMOVL" /\ ~M.Cnd THEN PipeCore!F ELSE PipeCore!DstE(M.i)
  /\ M.dstM = PipeCore!DstM(M.i)
  /\ M.at # Modulus =>
       /\ M.Cnd = PipeCore!Holds(M.i.ifun, M.cc)
       /\ CC = IF M.i.icode = "ALU" THEN PipeCore!Flags(M.i.ifun, a, b) ELSE M.cc

PipeInv ==
  core = "pipe" =>
    /\ prog \in PipePrograms
    /\ Running => Chain /\ EOperands /\ MResults /\ W.icode # "RET"

(* The instruction set and the pipelined core use the same operators. *)
LEMMA PipeSameArithmetic ==
  /\ \A a, b : PipeCore!Isa!WAdd(a, b) = PipeCore!WAdd(a, b)
  /\ \A a, b : PipeCore!Isa!WSub(a, b) = PipeCore!WSub(a, b)
  /\ \A a : PipeCore!Isa!Bits(a) = PipeCore!Bits(a)
  /\ \A S : PipeCore!Isa!FromBits(S) = PipeCore!FromBits(S)
  /\ \A a : PipeCore!Isa!Negative(a) = PipeCore!Negative(a)
<1>1. \A a, b : PipeCore!Isa!WAdd(a, b) = PipeCore!WAdd(a, b)
  BY Zenon DEF PipeCore!Isa!WAdd, PipeCore!WAdd, PipeCore!Isa!Modulus, PipeCore!Modulus
<1>2. \A a, b : PipeCore!Isa!WSub(a, b) = PipeCore!WSub(a, b)
  BY Zenon DEF PipeCore!Isa!WSub, PipeCore!WSub, PipeCore!Isa!Modulus, PipeCore!Modulus
<1>3. \A a : PipeCore!Isa!Bits(a) = PipeCore!Bits(a)
  BY Zenon DEF PipeCore!Isa!Bits, PipeCore!Bits
<1>4. \A S : PipeCore!Isa!FromBits(S) = PipeCore!FromBits(S)
  BY Zenon DEF PipeCore!FromBits, PipeCore!Isa!FromBits
<1>5. \A a : PipeCore!Isa!Negative(a) = PipeCore!Negative(a)
  BY <1>3, Zenon DEF PipeCore!Isa!Negative, PipeCore!Negative
<1> QED
  BY <1>1, <1>2, <1>3, <1>4, <1>5

(* Both compute the same results and flags (pipe_stage_execute.v). *)
LEMMA PipeSameResults ==
  /\ \A i, a, b : PipeCore!Isa!ValE(i, a, b) = PipeCore!ValE(i, a, b)
  /\ \A f, a, b : PipeCore!Isa!Flags(f, a, b) = PipeCore!Flags(f, a, b)
<1>1. \A f, a, b : PipeCore!Isa!AluOut(f, a, b) = PipeCore!AluOut(f, a, b)
  BY PipeSameArithmetic, Zenon DEF PipeCore!Isa!AluOut, PipeCore!AluOut
<1>2. \A i, a, b : PipeCore!Isa!ValE(i, a, b) = PipeCore!ValE(i, a, b)
  BY <1>1, PipeSameArithmetic, Zenon DEF PipeCore!Isa!ValE, PipeCore!ValE
<1>3. \A f, a, b : PipeCore!Isa!Flags(f, a, b) = PipeCore!Flags(f, a, b)
  BY <1>1, PipeSameArithmetic, Zenon DEF PipeCore!Isa!Flags, PipeCore!Flags
<1> QED
  BY <1>2, <1>3

(* Both agree on fetching, operands, validity, conditions, addresses and   *)
(* destinations (the pipe_stage modules).                                  *)
LEMMA PipeSameEffects ==
  /\ \A p, a : PipeCore!Isa!FetchAt(p, a) = PipeCore!FetchAt(p, a)
  /\ \A r, s : PipeCore!Isa!Read(r, s) = PipeCore!Read(r, s)
  /\ \A i : PipeCore!Isa!SrcA(i) = PipeCore!SrcA(i) /\ PipeCore!Isa!SrcB(i) = PipeCore!SrcB(i)
  /\ \A i : PipeCore!Isa!DstE(i) = PipeCore!DstE(i) /\ PipeCore!Isa!DstM(i) = PipeCore!DstM(i)
  /\ PipeCore!Isa!F = PipeCore!F
  /\ \A i : PipeCore!Isa!InstrValid(i) <=> PipeCore!InstrValid(i)
  /\ \A f, c : PipeCore!Isa!Holds(f, c) = PipeCore!Holds(f, c)
  /\ \A i, a, e : PipeCore!Isa!MemAddr(i, a, e) = PipeCore!MemAddr(i, a, e)
  /\ \A i, a : PipeCore!Isa!MemError(i, a) <=> PipeCore!MemError(i, a)
  /\ \A i, m, a : PipeCore!Isa!ValM(i, m, a) = PipeCore!ValM(i, m, a)
  /\ \A i : PipeCore!Isa!Writes(i) <=> PipeCore!Writes(i)
  /\ \A a : PipeCore!Isa!CellOf(a) = PipeCore!CellOf(a)
  /\ \A r, d, e, s, m : PipeCore!Isa!WriteBack(r, d, e, s, m) = PipeCore!WriteBack(r, d, e, s, m)
<1>1. \A p, a : PipeCore!Isa!FetchAt(p, a) = PipeCore!FetchAt(p, a)
  BY Zenon DEF PipeCore!Isa!FetchAt, PipeCore!FetchAt, PipeCore!Isa!Nop, PipeCore!Nop,
       PipeCore!Isa!F, PipeCore!F
<1>2. \A r, s : PipeCore!Isa!Read(r, s) = PipeCore!Read(r, s)
  BY Zenon DEF PipeCore!Isa!Read, PipeCore!Read, PipeCore!Isa!F, PipeCore!F
<1>3. \A i : PipeCore!Isa!SrcA(i) = PipeCore!SrcA(i) /\ PipeCore!Isa!SrcB(i) = PipeCore!SrcB(i)
  BY Zenon DEF PipeCore!Isa!SrcA, PipeCore!SrcA, PipeCore!Isa!SrcB, PipeCore!SrcB,
       PipeCore!RSP, PipeCore!Isa!RSP, PipeCore!F, PipeCore!Isa!F
<1>4. \A i : PipeCore!Isa!DstE(i) = PipeCore!DstE(i) /\ PipeCore!Isa!DstM(i) = PipeCore!DstM(i)
  BY Zenon DEF PipeCore!Isa!DstE, PipeCore!DstE, PipeCore!Isa!DstM, PipeCore!DstM,
       PipeCore!RSP, PipeCore!Isa!RSP, PipeCore!F, PipeCore!Isa!F
<1>5. PipeCore!Isa!F = PipeCore!F
  BY DEF PipeCore!Isa!F, PipeCore!F
<1>6. \A i : PipeCore!Isa!InstrValid(i) <=> PipeCore!InstrValid(i)
  BY Zenon DEF PipeCore!Isa!InstrValid, PipeCore!InstrValid
<1>7. \A f, c : PipeCore!Isa!Holds(f, c) = PipeCore!Holds(f, c)
  BY Zenon DEF PipeCore!Isa!Holds, PipeCore!Holds
<1>8. \A i, a, e : PipeCore!Isa!MemAddr(i, a, e) = PipeCore!MemAddr(i, a, e)
  BY Zenon DEF PipeCore!Isa!MemAddr, PipeCore!MemAddr
<1>9. \A i, a : PipeCore!Isa!MemError(i, a) <=> PipeCore!MemError(i, a)
  BY Zenon DEF PipeCore!Isa!MemError, PipeCore!MemError, PipeCore!Isa!Reads, PipeCore!Reads,
       PipeCore!Isa!Writes, PipeCore!Writes, PipeCore!Isa!AddrValid, PipeCore!AddrValid,
       PipeCore!Isa!CellOf, PipeCore!CellOf
<1>10. \A i, m, a : PipeCore!Isa!ValM(i, m, a) = PipeCore!ValM(i, m, a)
  BY Zenon DEF PipeCore!Isa!ValM, PipeCore!ValM, PipeCore!Isa!Reads, PipeCore!Reads,
       PipeCore!Isa!AddrValid, PipeCore!AddrValid, PipeCore!Isa!CellOf, PipeCore!CellOf
<1>11. \A i : PipeCore!Isa!Writes(i) <=> PipeCore!Writes(i)
  BY Zenon DEF PipeCore!Isa!Writes, PipeCore!Writes
<1>12. \A a : PipeCore!Isa!CellOf(a) = PipeCore!CellOf(a)
  BY Zenon DEF PipeCore!Isa!CellOf, PipeCore!CellOf
<1>13. \A r, d, e, s, m : PipeCore!Isa!WriteBack(r, d, e, s, m) = PipeCore!WriteBack(r, d, e, s, m)
  BY Zenon DEF PipeCore!Isa!WriteBack, PipeCore!WriteBack
<1> QED
  BY <1>1, <1>2, <1>3, <1>4, <1>5, <1>6, <1>7, <1>8, <1>9, <1>10, <1>11, <1>12, <1>13

RegOrNone == Regs \union {F}

(* The sources and destinations of an instruction of a program are         *)
(* registers, or none (pipe_stage_decode.v:60-145).                        *)
LEMMA Operands ==
  ASSUME prog \in PipePrograms, NEW a
  PROVE  LET i == PipeCore!FetchAt(prog, a) IN
         /\ PipeCore!SrcA(i) \in RegOrNone /\ PipeCore!SrcB(i) \in RegOrNone
         /\ ReadsA(i) \in RegOrNone
         /\ PipeCore!DstE(i) \in RegOrNone /\ PipeCore!DstM(i) \in RegOrNone
         /\ i.valC \in Nat /\ i.valC # Modulus
<1> DEFINE i == PipeCore!FetchAt(prog, a)
<1>1. i.rA \in RegOrNone /\ i.rB \in RegOrNone /\ i.valC \in Nat /\ i.valC # Modulus
  <2>1. CASE a \in DOMAIN prog
    <3>1. i = prog[a]
      BY <2>1 DEF PipeCore!FetchAt
    <3>2. prog[a].valC \in Words /\ {prog[a].rA, prog[a].rB} \subseteq Regs \union {F}
      BY <2>1, ProgramsAssumption
    <3>3. \A v \in Words : v \in Nat /\ v # Modulus
      BY DEF Words
    <3> HIDE DEF i
    <3> QED
      BY <3>1, <3>2, <3>3 DEF RegOrNone
  <2>2. CASE a \notin DOMAIN prog
    BY <2>2, Y86Assumption DEF PipeCore!FetchAt, PipeCore!Nop, PipeCore!F, F, RegOrNone
  <2> QED
    BY <2>1, <2>2
<1> HIDE DEF i
<1>2. PipeCore!F \in RegOrNone /\ PipeCore!RSP \in RegOrNone
  BY Y86Assumption DEF RegOrNone, PipeCore!F, F, PipeCore!RSP, RSP
<1>3. PipeCore!SrcA(i) \in {i.rA, PipeCore!RSP, PipeCore!F}
  <2>1. CASE i.icode \in {"RRMOVL", "IRMOVL", "RMMOVL", "MRMOVL", "ALU", "PUSHL"}
    BY <2>1, Zenon DEF PipeCore!SrcA
  <2>2. CASE i.icode \in {"POPL", "RET"}
    BY <2>2, Zenon DEF PipeCore!SrcA
  <2>3. CASE ~(i.icode \in {"RRMOVL", "IRMOVL", "RMMOVL", "MRMOVL", "ALU", "PUSHL"})
             /\ ~(i.icode \in {"POPL", "RET"})
    BY <2>3, Zenon DEF PipeCore!SrcA
  <2> QED
    BY <2>1, <2>2, <2>3
<1>4. PipeCore!SrcB(i) \in {i.rB, PipeCore!RSP, PipeCore!F}
  <2>1. CASE i.icode \in {"RRMOVL", "IRMOVL", "RMMOVL", "MRMOVL", "ALU"}
    BY <2>1, Zenon DEF PipeCore!SrcB
  <2>2. CASE i.icode \in {"PUSHL", "POPL", "CALL", "RET"}
    BY <2>2, Zenon DEF PipeCore!SrcB
  <2>3. CASE ~(i.icode \in {"RRMOVL", "IRMOVL", "RMMOVL", "MRMOVL", "ALU"})
             /\ ~(i.icode \in {"PUSHL", "POPL", "CALL", "RET"})
    BY <2>3, Zenon DEF PipeCore!SrcB
  <2> QED
    BY <2>1, <2>2, <2>3
<1>5. PipeCore!DstE(i) \in {i.rB, PipeCore!RSP, PipeCore!F}
  <2>1. CASE i.icode \in {"RRMOVL", "IRMOVL", "ALU"}
    BY <2>1, Zenon DEF PipeCore!DstE
  <2>2. CASE i.icode \in {"PUSHL", "POPL", "CALL", "RET"}
    BY <2>2, Zenon DEF PipeCore!DstE
  <2>3. CASE ~(i.icode \in {"RRMOVL", "IRMOVL", "ALU"})
             /\ ~(i.icode \in {"PUSHL", "POPL", "CALL", "RET"})
    BY <2>3, Zenon DEF PipeCore!DstE
  <2> QED
    BY <2>1, <2>2, <2>3
<1>6. PipeCore!DstM(i) \in {i.rA, PipeCore!F}
  BY DEF PipeCore!DstM
<1> QED
  BY <1>1, <1>2, <1>3, <1>4, <1>5, <1>6 DEF i, ReadsA

(* What the provers need to know of Nop (fetch of an address outside the   *)
(* program, and every bubble).                                             *)
LEMMA NopFacts ==
  /\ PipeCore!Nop.icode = "NOP" /\ PipeCore!Nop.ifun = 0 /\ PipeCore!Nop.valC = 0
  /\ PipeCore!SrcA(PipeCore!Nop) = PipeCore!F /\ PipeCore!SrcB(PipeCore!Nop) = PipeCore!F
  /\ PipeCore!DstE(PipeCore!Nop) = PipeCore!F /\ PipeCore!DstM(PipeCore!Nop) = PipeCore!F
  /\ ReadsA(PipeCore!Nop) = PipeCore!F
  /\ \A a, b : PipeCore!ValE(PipeCore!Nop, a, b) = 0
  /\ ~PipeCore!Reads(PipeCore!Nop) /\ ~PipeCore!Writes(PipeCore!Nop)
  /\ PipeCore!F = F
<1>1. PipeCore!Nop.icode = "NOP" /\ PipeCore!Nop.ifun = 0 /\ PipeCore!Nop.valC = 0
  BY DEF PipeCore!Nop
<1>2. PipeCore!SrcA(PipeCore!Nop) = PipeCore!F /\ PipeCore!SrcB(PipeCore!Nop) = PipeCore!F
  BY <1>1, Zenon DEF PipeCore!SrcA, PipeCore!SrcB
<1>3. PipeCore!DstE(PipeCore!Nop) = PipeCore!F /\ PipeCore!DstM(PipeCore!Nop) = PipeCore!F
  BY <1>1, Zenon DEF PipeCore!DstE, PipeCore!DstM
<1>4. ReadsA(PipeCore!Nop) = PipeCore!F
  BY <1>1, <1>2 DEF ReadsA
<1>5. \A a, b : PipeCore!ValE(PipeCore!Nop, a, b) = 0
  BY <1>1, Zenon DEF PipeCore!ValE
<1>6. ~PipeCore!Reads(PipeCore!Nop) /\ ~PipeCore!Writes(PipeCore!Nop)
  BY <1>1 DEF PipeCore!Reads, PipeCore!Writes
<1>7. PipeCore!F = F
  BY DEF PipeCore!F, F
<1> QED
  BY <1>1, <1>2, <1>3, <1>4, <1>5, <1>6, <1>7

(* The least element of a set of numbers, when one is known. *)
LEMMA LeastIs ==
  ASSUME NEW S \in SUBSET Int, NEW k \in S, \A j \in S : k \leq j
  PROVE  PipeCore!Min(S) = k
<1> DEFINE m == CHOOSE x \in S : \A y \in S : x \leq y
<1>1. m \in S /\ \A y \in S : m \leq y
  OBVIOUS
<1>2. PipeCore!Min(S) = m
  BY DEF PipeCore!Min
<1> HIDE DEF m
<1>3. m \leq k /\ k \leq m /\ m \in Int /\ k \in Int
  BY <1>1
<1> QED
  BY <1>2, <1>3

(* The port that the forwarding of the execute stage selects               *)
(* (pipe_stage_execute.v).                                                 *)
LEMMA BypassOf3 ==
  ASSUME NEW src, NEW d1, NEW v1, NEW d2, NEW v2, NEW d3, NEW v3, NEW val
  PROVE  PipeCore!Bypass(src, <<<<d1, v1>>, <<d2, v2>>, <<d3, v3>>>>, val) =
           IF src = PipeCore!F THEN val ELSE IF d1 = src THEN v1
           ELSE IF d2 = src THEN v2 ELSE IF d3 = src THEN v3 ELSE val
<1> DEFINE ports == <<<<d1, v1>>, <<d2, v2>>, <<d3, v3>>>>
           hits == {k \in DOMAIN ports : ports[k][1] = src}
<1>1. DOMAIN ports = {1, 2, 3} /\ ports[1] = <<d1, v1>> /\ ports[2] = <<d2, v2>> /\ ports[3] = <<d3, v3>>
  OBVIOUS
<1>2. PipeCore!Bypass(src, ports, val) =
        IF src = PipeCore!F \/ hits = {} THEN val ELSE ports[PipeCore!Min(hits)][2]
  BY DEF PipeCore!Bypass
<1> HIDE DEF ports
<1>3. (1 \in hits <=> d1 = src) /\ (2 \in hits <=> d2 = src) /\ (3 \in hits <=> d3 = src)
  BY <1>1
<1>4. hits \subseteq {1, 2, 3}
  BY <1>1
<1> HIDE DEF hits
<1>5. hits \in SUBSET Int
  BY <1>4
<1>6. CASE d1 = src
  <2>1. 1 \in hits /\ \A j \in hits : 1 \leq j
    BY <1>3, <1>4, <1>6
  <2>2. PipeCore!Min(hits) = 1
    BY <1>5, <2>1, LeastIs
  <2> QED
    BY <1>1, <1>2, <1>6, <2>1, <2>2 DEF ports
<1>7. CASE d1 # src /\ d2 = src
  <2>1. 2 \in hits /\ \A j \in hits : 2 \leq j
    BY <1>3, <1>4, <1>7
  <2>2. PipeCore!Min(hits) = 2
    BY <1>5, <2>1, LeastIs
  <2> QED
    BY <1>1, <1>2, <1>7, <2>1, <2>2 DEF ports
<1>8. CASE d1 # src /\ d2 # src /\ d3 = src
  <2>1. 3 \in hits /\ \A j \in hits : 3 \leq j
    BY <1>3, <1>4, <1>8
  <2>2. PipeCore!Min(hits) = 3
    BY <1>5, <2>1, LeastIs
  <2> QED
    BY <1>1, <1>2, <1>8, <2>1, <2>2 DEF ports
<1>9. CASE d1 # src /\ d2 # src /\ d3 # src
  <2>1. hits = {}
    BY <1>3, <1>4, <1>9
  <2> QED
    BY <1>2, <1>9, <2>1 DEF ports
<1> QED
  BY <1>6, <1>7, <1>8, <1>9

(* The port that the forwarding of the decode stage selects                *)
(* (pipe_stage_decode.v:150-175).                                          *)
LEMMA BypassOf5 ==
  ASSUME NEW src, NEW d1, NEW v1, NEW d2, NEW v2, NEW d3, NEW v3,
         NEW d4, NEW v4, NEW d5, NEW v5, NEW val
  PROVE  PipeCore!Bypass(src, <<<<d1, v1>>, <<d2, v2>>, <<d3, v3>>, <<d4, v4>>, <<d5, v5>>>>, val) =
           IF src = PipeCore!F THEN val ELSE IF d1 = src THEN v1
           ELSE IF d2 = src THEN v2 ELSE IF d3 = src THEN v3
           ELSE IF d4 = src THEN v4 ELSE IF d5 = src THEN v5 ELSE val
<1> DEFINE ports == <<<<d1, v1>>, <<d2, v2>>, <<d3, v3>>, <<d4, v4>>, <<d5, v5>>>>
           hits == {k \in DOMAIN ports : ports[k][1] = src}
<1>1. /\ DOMAIN ports = {1, 2, 3, 4, 5}
      /\ ports[1] = <<d1, v1>> /\ ports[2] = <<d2, v2>> /\ ports[3] = <<d3, v3>>
      /\ ports[4] = <<d4, v4>> /\ ports[5] = <<d5, v5>>
  OBVIOUS
<1>2. PipeCore!Bypass(src, ports, val) =
        IF src = PipeCore!F \/ hits = {} THEN val ELSE ports[PipeCore!Min(hits)][2]
  BY DEF PipeCore!Bypass
<1> HIDE DEF ports
<1>3. /\ (1 \in hits <=> d1 = src) /\ (2 \in hits <=> d2 = src) /\ (3 \in hits <=> d3 = src)
      /\ (4 \in hits <=> d4 = src) /\ (5 \in hits <=> d5 = src)
  BY <1>1
<1>4. hits \subseteq {1, 2, 3, 4, 5}
  BY <1>1
<1> HIDE DEF hits
<1>5. hits \in SUBSET Int
  BY <1>4
<1>6. CASE d1 = src
  <2>1. 1 \in hits /\ \A j \in hits : 1 \leq j
    BY <1>3, <1>4, <1>6
  <2>2. PipeCore!Min(hits) = 1
    BY <1>5, <2>1, LeastIs
  <2> QED
    BY <1>1, <1>2, <1>6, <2>1, <2>2 DEF ports
<1>7. CASE d1 # src /\ d2 = src
  <2>1. 2 \in hits /\ \A j \in hits : 2 \leq j
    BY <1>3, <1>4, <1>7
  <2>2. PipeCore!Min(hits) = 2
    BY <1>5, <2>1, LeastIs
  <2> QED
    BY <1>1, <1>2, <1>7, <2>1, <2>2 DEF ports
<1>8. CASE d1 # src /\ d2 # src /\ d3 = src
  <2>1. 3 \in hits /\ \A j \in hits : 3 \leq j
    BY <1>3, <1>4, <1>8
  <2>2. PipeCore!Min(hits) = 3
    BY <1>5, <2>1, LeastIs
  <2> QED
    BY <1>1, <1>2, <1>8, <2>1, <2>2 DEF ports
<1>9. CASE d1 # src /\ d2 # src /\ d3 # src /\ d4 = src
  <2>1. 4 \in hits /\ \A j \in hits : 4 \leq j
    BY <1>3, <1>4, <1>9
  <2>2. PipeCore!Min(hits) = 4
    BY <1>5, <2>1, LeastIs
  <2> QED
    BY <1>1, <1>2, <1>9, <2>1, <2>2 DEF ports
<1>10. CASE d1 # src /\ d2 # src /\ d3 # src /\ d4 # src /\ d5 = src
  <2>1. 5 \in hits /\ \A j \in hits : 5 \leq j
    BY <1>3, <1>4, <1>10
  <2>2. PipeCore!Min(hits) = 5
    BY <1>5, <2>1, LeastIs
  <2> QED
    BY <1>1, <1>2, <1>10, <2>1, <2>2 DEF ports
<1>11. CASE d1 # src /\ d2 # src /\ d3 # src /\ d4 # src /\ d5 # src
  <2>1. hits = {}
    BY <1>3, <1>4, <1>11
  <2> QED
    BY <1>2, <1>11, <2>1 DEF ports
<1> QED
  BY <1>6, <1>7, <1>8, <1>9, <1>10, <1>11

(* Reading a register that was just written back (dstM wins). *)
LEMMA ReadWritten ==
  ASSUME NEW r, NEW d, NEW e, NEW s, NEW m, NEW src \in RegOrNone
  PROVE  PipeCore!Read(PipeCore!WriteBack(r, d, e, s, m), src) =
           IF src = PipeCore!F THEN 0 ELSE IF src = s THEN m
           ELSE IF src = d THEN e ELSE r[src]
BY DEF PipeCore!Read, PipeCore!WriteBack, RegOrNone, PipeCore!F, F

(* Writing back nothing. *)
LEMMA NothingWritten ==
  ASSUME NEW q, NEW d, NEW e, NEW s, NEW m, NEW x, NEW y
  PROVE  LET r == PipeCore!WriteBack(q, d, e, s, m) IN
         PipeCore!WriteBack(r, PipeCore!F, x, PipeCore!F, y) = r
BY Y86Assumption DEF PipeCore!WriteBack, PipeCore!F, F

(* The registers the next instruction finds after an edge are those the    *)
(* one in M leaves (pipe_stage_decode.v).                                  *)
LEMMA ArchStep ==
  ASSUME PipeCore!Clock
  PROVE  reg_file' = ArchM /\ ArchM' = ArchE
<1>1. reg_file' = ArchM
  BY DEF PipeCore!Clock, ArchM
<1>2. /\ W'.dstE = M.dstE /\ W'.valE = M.valE /\ W'.dstM = M.dstM /\ W'.valM = PipeCore!m_valM
  BY DEF PipeCore!Clock, PipeCore!NextW
<1> QED
  BY <1>1, <1>2 DEF ArchM, ArchE

(* An edge at which no taken jump is in M: every instruction advances. *)
Advance ==
  /\ f_pc' = f_pc + 1
  /\ D' = [stat |-> PipeCore!f_stat, i |-> PipeCore!f_instr, valP |-> f_pc + 1, at |-> f_pc]
  /\ E' = [stat |-> D.stat, i |-> D.i, valA |-> PipeCore!d_valA,
           valB |-> PipeCore!Forward(PipeCore!d_srcB),
           dstE |-> PipeCore!DstE(D.i), dstM |-> PipeCore!DstM(D.i),
           srcA |-> PipeCore!d_srcA, srcB |-> PipeCore!d_srcB, at |-> D.at]
  /\ M' = [stat |-> E.stat, i |-> E.i, valA |-> PipeCore!aluA, valE |-> PipeCore!e_valE,
           dstE |-> PipeCore!e_dstE, dstM |-> E.dstM, Cnd |-> PipeCore!e_Cnd, at |-> E.at,
           cc |-> CC]
  /\ CC' = IF E.i.icode = "ALU" THEN PipeCore!Flags(E.i.ifun, PipeCore!aluA, PipeCore!aluB) ELSE CC

(* An edge at which a taken jump is in M: the younger ones are squashed. *)
Redirect ==
  /\ f_pc' = M.i.valC
  /\ D' = PipeCore!DBubble /\ E' = PipeCore!EBubble /\ M' = PipeCore!MBubble
  /\ CC' = CC

(* Under what is promised nothing stalls: every edge advances or redirects *)
(* (pipe_control.v:30-60, pipe_pc_logic.v).                                *)
LEMMA EdgeFacts ==
  ASSUME PipePromised, core = "pipe", Running, W.icode # "RET", PipeCore!Clock
  PROVE  /\ PipeCore!mispredicted => Redirect
         /\ ~PipeCore!mispredicted => Advance
<1>1. ~PipeCore!load_use_hazard /\ ~PipeCore!ret_hazard
  BY DEF PipePromised
<1>2. CASE PipeCore!mispredicted
  BY <1>1, <1>2 DEF Redirect, PipeCore!Clock, PipeCore!NextPc, PipeCore!NextD, PipeCore!NextE,
       PipeCore!NextM, PipeCore!F_stall, PipeCore!D_bubble, PipeCore!E_bubble, PipeCore!D_stall
<1>3. CASE ~PipeCore!mispredicted
  BY <1>1, <1>3 DEF Advance, PipeCore!Clock, PipeCore!NextPc, PipeCore!NextD, PipeCore!NextE,
       PipeCore!NextM, PipeCore!F_stall, PipeCore!D_bubble, PipeCore!E_bubble, PipeCore!D_stall
<1> QED
  BY <1>2, <1>3

(* An instruction that decode gives its operands has them right once the   *)
(* execute stage has forwarded what is newer: unless the one before it is  *)
(* a load of that register, or a POPL in W loads and computes it           *)
(* (pipe_stage_decode.v:150-175, pipe_stage_execute.v).                    *)
LEMMA ForwardsRight ==
  ASSUME PipeCore!Clock, Advance, NEW src \in RegOrNone,
         E.dstM = F \/ E.dstM # src,
         W.dstE = W.dstM /\ W.dstM # F => W.dstM # src
  PROVE  PipeCore!Bypass(src, <<<<M'.dstE, M'.valE>>, <<W'.dstM, W'.valM>>, <<W'.dstE, W'.valE>>>>,
                         PipeCore!Forward(src))
           = PipeCore!Read(ArchE', src)
<1> DEFINE val == PipeCore!Forward(src)
<1>1. /\ W'.dstE = M.dstE /\ W'.valE = M.valE /\ W'.dstM = M.dstM /\ W'.valM = PipeCore!m_valM
  BY DEF PipeCore!Clock, PipeCore!NextW
<1>2. M'.dstE = PipeCore!e_dstE /\ M'.valE = PipeCore!e_valE /\ M'.dstM = E.dstM
  BY DEF Advance
<1>3. val = IF src = PipeCore!F THEN PipeCore!Read(reg_file, src)
            ELSE IF PipeCore!e_dstE = src THEN PipeCore!e_valE
            ELSE IF M.dstE = src THEN M.valE ELSE IF M.dstM = src THEN PipeCore!m_valM
            ELSE IF W.dstE = src THEN W.valE ELSE IF W.dstM = src THEN W.valM
            ELSE PipeCore!Read(reg_file, src)
  BY BypassOf5 DEF PipeCore!Forward
<1>4. PipeCore!Read(reg_file, src) = IF src = PipeCore!F THEN 0 ELSE reg_file[src]
  BY DEF PipeCore!Read
<1>5. ArchE' = PipeCore!WriteBack(ArchE, PipeCore!e_dstE, PipeCore!e_valE, E.dstM, PipeCore!m_valM')
  BY <1>2, ArchStep DEF ArchE
<1>6. PipeCore!Read(ArchE', src) =
        IF src = PipeCore!F THEN 0 ELSE IF src = E.dstM THEN PipeCore!m_valM'
        ELSE IF src = PipeCore!e_dstE THEN PipeCore!e_valE ELSE ArchE[src]
  BY <1>5, ReadWritten
<1>7. src # PipeCore!F =>
        ArchE[src] = IF src = M.dstM THEN PipeCore!m_valM
                     ELSE IF src = M.dstE THEN M.valE ELSE ArchM[src]
  BY ReadWritten DEF ArchE, PipeCore!Read
<1>8. src # PipeCore!F =>
        ArchM[src] = IF src = W.dstM THEN W.valM
                     ELSE IF src = W.dstE THEN W.valE ELSE reg_file[src]
  BY ReadWritten DEF ArchM, PipeCore!Read
<1> HIDE DEF val
<1>9. PipeCore!Bypass(src, <<<<M'.dstE, M'.valE>>, <<W'.dstM, W'.valM>>, <<W'.dstE, W'.valE>>>>, val)
        = IF src = PipeCore!F THEN val ELSE IF M'.dstE = src THEN M'.valE
          ELSE IF W'.dstM = src THEN W'.valM ELSE IF W'.dstE = src THEN W'.valE ELSE val
  BY BypassOf3
<1>10. PipeCore!F = F
  BY NopFacts
<1>11. CASE src = PipeCore!F
  BY <1>3, <1>4, <1>6, <1>9, <1>11 DEF val
<1>12. CASE src # PipeCore!F /\ PipeCore!e_dstE = src
  BY <1>2, <1>6, <1>9, <1>10, <1>12 DEF val
<1>13. CASE src # PipeCore!F /\ PipeCore!e_dstE # src /\ M.dstM = src
  BY <1>1, <1>2, <1>6, <1>7, <1>9, <1>10, <1>13 DEF val
<1>14. CASE src # PipeCore!F /\ PipeCore!e_dstE # src /\ M.dstM # src /\ M.dstE = src
  BY <1>1, <1>2, <1>6, <1>7, <1>9, <1>10, <1>14 DEF val
<1>15. CASE src # PipeCore!F /\ PipeCore!e_dstE # src /\ M.dstM # src /\ M.dstE # src
  <2>1. PipeCore!Read(ArchE', src) = ArchM[src]
    BY <1>6, <1>7, <1>10, <1>15
  <2>2. val = ArchM[src]
    BY <1>3, <1>4, <1>8, <1>10, <1>15
  <2> QED
    BY <1>1, <1>2, <1>9, <1>15, <2>1, <2>2 DEF val
<1> QED
  BY <1>11, <1>12, <1>13, <1>14, <1>15

(* One end-of-memory marker in every module. *)
LEMMA OneModulus == PipeCore!Modulus = Modulus /\ PipeCore!Isa!Stopped = Modulus
BY DEF PipeCore!Modulus, Modulus, PipeCore!Isa!Stopped, PipeCore!Isa!Modulus

(* A core that still runs after an edge ran before it, and let an          *)
(* instruction without fault out of M (pipelined_y86_cpu.v:70).            *)
LEMMA RanBefore ==
  ASSUME PipeCore!Clock, Running'
  PROVE  Running /\ PipeCore!m_stat = "AOK" /\ M.i.icode # "HALT"
<1>1. W'.icode = M.i.icode /\ W'.stat = PipeCore!m_stat
  BY DEF PipeCore!Clock, PipeCore!NextW
<1>2. PipeCore!w_stat' = IF M.i.icode = "HALT" THEN "HLT" ELSE PipeCore!m_stat
  BY <1>1 DEF PipeCore!w_stat
<1>3. cpu_stat' = IF PipeCore!w_stat # "AOK" THEN PipeCore!w_stat ELSE cpu_stat
  BY DEF PipeCore!Clock
<1> QED
  BY <1>2, <1>3 DEF Running

(* A squashed pipeline is empty and starts again at the target             *)
(* (pipe_pc_logic.v).                                                      *)
LEMMA RedirectChains ==
  ASSUME prog \in PipePrograms, Chain, M.i.icode = "JXX", Redirect
  PROVE  Chain'
<1>1. Fetched(M)
  BY NopFacts DEF Chain, Empty
<1>2. f_pc' \in Nat
  BY <1>1, Operands DEF Fetched, Redirect
<1>3. Empty(D)' /\ Empty(E)' /\ Empty(M)'
  BY OneModulus DEF Redirect, Empty, PipeCore!DBubble, PipeCore!EBubble, PipeCore!MBubble
<1> QED
  BY <1>2, <1>3 DEF Chain

(* Every instruction moves one stage on, and the next one is fetched       *)
(* (pipe_pc_logic.v, pipe_reg_fd.v).                                       *)
LEMMA AdvanceChains ==
  ASSUME PipeCore!Clock, Chain, Advance
  PROVE  Chain'
<1>1. f_pc \in Nat /\ f_pc \leq ImemTop /\ prog' = prog
  BY DEF Chain, PipeCore!Clock
<1>2. Fetched(D)' /\ f_pc' = D'.at + 1 /\ f_pc' \in Nat
  <2>1. f_pc # Modulus
    BY <1>1, Y86Assumption
  <2>2. D'.at = f_pc /\ D'.i = PipeCore!FetchAt(prog, f_pc) /\ f_pc' = f_pc + 1
        /\ D'.stat = IF PipeCore!InstrValid(D'.i) THEN "AOK" ELSE "INS"
    BY DEF Advance, PipeCore!f_stat, PipeCore!f_instr
  <2>3. Fetched(D)'
    BY <1>1, <2>1, <2>2 DEF Fetched
  <2> QED
    BY <1>1, <2>2, <2>3
<1>3. D'.at = f_pc
  BY DEF Advance
<1>4. E'.at = D.at /\ E'.i = D.i /\ E'.stat = D.stat
  BY DEF Advance
<1>5. M'.at = E.at /\ M'.i = E.i /\ M'.stat = E.stat
  BY DEF Advance
<1>6. /\ Empty(D) => Empty(E)'
      /\ Fetched(D) => Fetched(E)'
  BY <1>1, <1>4 DEF Empty, Fetched
<1>7. /\ Empty(E) => Empty(M)'
      /\ Fetched(E) => Fetched(M)'
  BY <1>1, <1>5 DEF Empty, Fetched
<1>8. CASE Empty(D) /\ Empty(E)
  BY <1>2, <1>6, <1>7, <1>8 DEF Chain
<1>9. CASE Fetched(D) /\ f_pc = D.at + 1 /\ Empty(E)
  BY <1>2, <1>3, <1>4, <1>6, <1>7, <1>9 DEF Chain
<1>10. CASE Fetched(D) /\ f_pc = D.at + 1 /\ Fetched(E) /\ D.at = E.at + 1
  BY <1>2, <1>3, <1>4, <1>5, <1>6, <1>7, <1>10 DEF Chain
<1> QED
  BY <1>8, <1>9, <1>10 DEF Chain

(* Where nothing is known of an operand the result does not depend on it   *)
(* (pipe_stage_execute.v).                                                 *)
LEMMA OperandUnused ==
  ASSUME NEW i, i.icode \in {"MRMOVL", "CALL", "JXX"}, NEW a, NEW b, NEW c
  PROVE  PipeCore!ValE(i, a, b) = PipeCore!ValE(i, c, b)
<1>1. CASE i.icode = "MRMOVL"
  BY <1>1, Zenon DEF PipeCore!ValE
<1>2. CASE i.icode = "CALL"
  BY <1>2, Zenon DEF PipeCore!ValE
<1>3. CASE i.icode = "JXX"
  BY <1>3, Zenon DEF PipeCore!ValE
<1> QED
  BY <1>1, <1>2, <1>3

(* Bubbles have nothing to read and nothing to write (pipe_reg_de.v,        *)
(* pipe_reg_em.v).                                                          *)
LEMMA BubblesSound ==
  E = PipeCore!EBubble /\ M = PipeCore!MBubble => EOperands /\ MResults
<1> SUFFICES ASSUME E = PipeCore!EBubble, M = PipeCore!MBubble
             PROVE  EOperands /\ MResults
  OBVIOUS
<1>1. /\ E.i = PipeCore!Nop /\ E.dstE = PipeCore!F /\ E.dstM = PipeCore!F
      /\ E.srcA = PipeCore!F /\ E.srcB = PipeCore!F /\ E.valA = 0 /\ E.valB = 0
  BY DEF PipeCore!EBubble
<1>2. /\ M.i = PipeCore!Nop /\ M.dstE = PipeCore!F /\ M.dstM = PipeCore!F
      /\ M.valE = 0 /\ M.valA = 0 /\ M.at = Modulus
  BY OneModulus DEF PipeCore!MBubble
<1>3. PipeCore!aluA = 0 /\ PipeCore!aluB = 0
  BY <1>1, BypassOf3 DEF PipeCore!aluA, PipeCore!aluB, PipeCore!SelectE
<1>4. \A r : PipeCore!Read(r, PipeCore!F) = 0
  BY DEF PipeCore!Read
<1>5. EOperands
  BY <1>1, <1>2, <1>3, <1>4, NopFacts DEF EOperands
<1>6. MResults
  BY <1>2, <1>4, NopFacts DEF MResults
<1> QED
  BY <1>5, <1>6

(* Forwarding: the instruction that decode hands to E has the operands     *)
(* its predecessor leaves (pipe_stage_decode.v:120-175).                   *)
LEMMA DecodeSound ==
  ASSUME core = "pipe", Running, prog \in PipePrograms, PipePromised, Chain, EOperands,
         PipeCore!Clock, Advance
  PROVE  EOperands'
<1>1. /\ E'.i = D.i /\ E'.valA = PipeCore!d_valA /\ E'.valB = PipeCore!Forward(PipeCore!d_srcB)
      /\ E'.dstE = PipeCore!DstE(D.i) /\ E'.dstM = PipeCore!DstM(D.i)
      /\ E'.srcA = PipeCore!d_srcA /\ E'.srcB = PipeCore!d_srcB
  BY DEF Advance
<1>2. PipeCore!d_srcA = ReadsA(D.i) /\ PipeCore!d_srcB = PipeCore!SrcB(D.i)
  BY DEF PipeCore!d_srcA, PipeCore!d_srcB, ReadsA
<1>3. PipeCore!d_srcA \in RegOrNone /\ PipeCore!d_srcB \in RegOrNone
  <2>1. CASE Empty(D)
    BY <1>2, <2>1, NopFacts DEF Empty, RegOrNone
  <2>2. CASE Fetched(D)
    BY <1>2, <2>2, Operands DEF Fetched
  <2> QED
    BY <2>1, <2>2 DEF Chain
<1>4. E.dstM = F \/ E.dstM \notin {PipeCore!d_srcA, PipeCore!d_srcB}
  <2>1. E.dstM # F => E.i.icode \in {"MRMOVL", "POPL"}
    BY NopFacts DEF EOperands, PipeCore!DstM
  <2> QED
    BY <2>1, NopFacts DEF PipePromised, PipeCore!load_use_hazard
<1>5. W.dstE = W.dstM /\ W.dstM # F => W.dstM \notin {PipeCore!d_srcA, PipeCore!d_srcB}
  BY DEF PipePromised
<1>6. \A src \in {PipeCore!d_srcA, PipeCore!d_srcB} :
        PipeCore!Bypass(src, <<<<M'.dstE, M'.valE>>, <<W'.dstM, W'.valM>>, <<W'.dstE, W'.valE>>>>,
                        PipeCore!Forward(src))
          = PipeCore!Read(ArchE', src)
  BY <1>3, <1>4, <1>5, ForwardsRight
<1>7. PipeCore!aluB' = PipeCore!Read(ArchE', E'.srcB)
  BY <1>1, <1>6 DEF PipeCore!aluB, PipeCore!SelectE
<1>8. E'.i.icode \notin {"CALL", "JXX"} => PipeCore!aluA' = PipeCore!Read(ArchE', E'.srcA)
  BY <1>1, <1>6 DEF PipeCore!aluA, PipeCore!SelectE, PipeCore!d_valA
<1>9. M'.dstM = F \/ M'.dstM \notin {E'.srcA, E'.srcB}
  BY <1>1, <1>4 DEF Advance
<1> QED
  BY <1>1, <1>2, <1>7, <1>8, <1>9 DEF EOperands

(* What E computes is what the instruction set computes                    *)
(* (pipe_stage_execute.v).                                                 *)
LEMMA ExecuteSound ==
  ASSUME EOperands, PipeCore!Clock, Advance
  PROVE  MResults'
<1> DEFINE a == PipeCore!Read(ArchE, PipeCore!SrcA(E.i))
           b == PipeCore!Read(ArchE, PipeCore!SrcB(E.i))
<1>1. /\ M'.i = E.i /\ M'.valA = PipeCore!aluA /\ M'.valE = PipeCore!e_valE
      /\ M'.dstE = PipeCore!e_dstE /\ M'.dstM = E.dstM /\ M'.Cnd = PipeCore!e_Cnd
      /\ M'.cc = CC
      /\ CC' = IF E.i.icode = "ALU" THEN PipeCore!Flags(E.i.ifun, PipeCore!aluA, PipeCore!aluB)
               ELSE CC
  BY DEF Advance
<1>2. ArchM' = ArchE
  BY ArchStep
<1>3. PipeCore!aluB = b
  BY DEF EOperands
<1>4. E.i.icode \notin {"MRMOVL", "CALL", "JXX"} => PipeCore!aluA = a
  BY DEF EOperands, ReadsA
<1>5. PipeCore!e_valE = PipeCore!ValE(E.i, PipeCore!aluA, b)
  BY <1>3 DEF PipeCore!e_valE
<1>6. PipeCore!e_valE = PipeCore!ValE(E.i, a, b)
  <2>1. CASE E.i.icode \in {"MRMOVL", "CALL", "JXX"}
    BY <1>5, <2>1, OperandUnused
  <2>2. CASE E.i.icode \notin {"MRMOVL", "CALL", "JXX"}
    BY <1>4, <1>5, <2>2
  <2> QED
    BY <2>1, <2>2
<1>7. PipeCore!e_Cnd = PipeCore!Holds(E.i.ifun, CC)
  BY DEF PipeCore!e_Cnd
<1>8. M'.dstE = IF E.i.icode = "RRMOVL" /\ ~M'.Cnd THEN PipeCore!F ELSE PipeCore!DstE(E.i)
  BY <1>1 DEF PipeCore!e_dstE, EOperands
<1>9. M'.dstM = PipeCore!DstM(E.i)
  BY <1>1 DEF EOperands
<1>10. CC' = IF E.i.icode = "ALU" THEN PipeCore!Flags(E.i.ifun, a, b) ELSE CC
  BY <1>1, <1>3, <1>4
<1>11. PipeCore!Read(ArchM, PipeCore!SrcA(M.i))' = a /\ PipeCore!Read(ArchM, PipeCore!SrcB(M.i))' = b
  BY <1>1, <1>2 DEF PipeCore!Read, PipeCore!SrcA, PipeCore!SrcB
<1> HIDE DEF a, b
<1> QED
  BY <1>1, <1>4, <1>6, <1>7, <1>8, <1>9, <1>10, <1>11 DEF MResults

(* Reset leaves an empty pipeline, and the state the instruction set       *)
(* starts from (pipelined_y86_cpu.v, the reset branches).                  *)
LEMMA PipeInitFacts ==
  Init => PipeInv /\ (core = "pipe" => PipeCore!Isa!IsaInit)
<1> SUFFICES ASSUME Init, core = "pipe"
             PROVE  /\ prog \in PipePrograms
                    /\ Chain /\ EOperands /\ MResults /\ W.icode # "RET"
                    /\ PipeCore!Isa!IsaInit
  BY DEF PipeInv
<1>1. PipeCore!PipeInit
  BY DEF Init
<1>2. prog \in PipePrograms /\ f_pc = 0 /\ cpu_stat = "AOK"
  BY <1>1 DEF PipeCore!PipeInit
<1>3. /\ D = PipeCore!DBubble /\ E = PipeCore!EBubble /\ M = PipeCore!MBubble
      /\ W = PipeCore!WReset
  BY <1>1 DEF PipeCore!PipeInit
<1>4. EOperands /\ MResults
  BY <1>3, BubblesSound
<1>5. D.at = Modulus /\ E.at = Modulus /\ M.at = Modulus
  BY <1>3, OneModulus DEF PipeCore!DBubble, PipeCore!EBubble, PipeCore!MBubble
<1>6. Chain
  BY <1>2, <1>3, <1>5 DEF Chain, Empty, PipeCore!DBubble, PipeCore!EBubble, PipeCore!MBubble
<1>7. W.icode = "NOP" /\ PipeCore!w_stat = "AOK"
  BY <1>3 DEF PipeCore!WReset, PipeCore!w_stat
<1>8. PipeCore!Isa!IsaInit
  <2>1. PipeCore!Oldest = 0
    <3> DEFINE stages == <<M.at, E.at, D.at, f_pc>>
               held == {k \in 1 .. 4 : stages[k] # PipeCore!Modulus}
    <3>1. PipeCore!Oldest = stages[PipeCore!Min(held)]
      BY <1>2, <1>7 DEF PipeCore!Oldest
    <3>2. 0 # Modulus
      BY Y86Assumption
    <3>3. held = {4}
      BY <1>2, <1>5, <3>2, OneModulus
    <3>4. PipeCore!Min(held) = 4
      BY <3>3, LeastIs
    <3> QED
      BY <1>2, <3>1, <3>4
  <2>2. PipeCore!WriteBack(reg_file, W.dstE, W.valE, W.dstM, W.valM) = PipeCore!ZeroRegs
    <3>1. W.dstE = 15 /\ W.dstM = 15 /\ reg_file = [r \in Regs |-> 0] /\ 15 \notin Regs
      BY <1>1, <1>3, Y86Assumption DEF PipeCore!WReset, PipeCore!F, F, PipeCore!PipeInit,
           PipeCore!ZeroRegs
    <3> QED
      BY <3>1 DEF PipeCore!WriteBack, PipeCore!ZeroRegs
  <2>3. CC = PipeCore!ClearCC /\ data_mem = [c \in 0 .. Cells - 1 |-> 0]
    BY <1>1 DEF PipeCore!PipeInit
  <2> QED
    BY <1>5, <2>1, <2>2, <2>3, OneModulus DEF PipeCore!Isa!IsaInit
<1> QED
  BY <1>2, <1>4, <1>6, <1>7, <1>8

(* The invariant is kept at every edge (pipelined_y86_cpu.v). *)
LEMMA PipeInvStep == PipeInv /\ PipePromised /\ [Next]_vars => PipeInv'
<1> SUFFICES ASSUME PipeInv, PipePromised, [Next]_vars, core' = "pipe"
             PROVE  /\ prog' \in PipePrograms
                    /\ Running' => Chain' /\ EOperands' /\ MResults' /\ W'.icode # "RET"
  BY DEF PipeInv
<1>1. CASE UNCHANGED vars
  <2>1. core = "pipe"
    BY <1>1 DEF vars
  <2>2. /\ prog \in PipePrograms
        /\ Running => Chain /\ EOperands /\ MResults /\ W.icode # "RET"
    BY <2>1 DEF PipeInv
  <2>3. Running' => Running
    BY <1>1 DEF vars, pipeOnly, Running, PipeCore!w_stat
  <2>4. Chain => Chain'
    BY <1>1 DEF vars, pipeOnly, Chain, Empty, Fetched
  <2>5. ArchM' = ArchM /\ ArchE' = ArchE
    BY <1>1 DEF vars, pipeOnly, ArchM, ArchE, PipeCore!m_valM, PipeCore!m_addr
  <2>6. EOperands => EOperands'
    BY <1>1, <2>5 DEF vars, pipeOnly, EOperands, PipeCore!aluA, PipeCore!aluB, PipeCore!SelectE
  <2>7. MResults => MResults'
    BY <1>1, <2>5 DEF vars, pipeOnly, MResults
  <2> QED
    BY <1>1, <2>2, <2>3, <2>4, <2>6, <2>7 DEF vars, pipeOnly
<1>2. CASE PipeClock
  <2>1. core = "pipe" /\ PipeCore!Clock /\ prog' = prog
    BY <1>2 DEF PipeClock, PipeCore!Clock
  <2>2. prog \in PipePrograms
    BY <2>1 DEF PipeInv
  <2> SUFFICES ASSUME Running'
               PROVE  Chain' /\ EOperands' /\ MResults' /\ W'.icode # "RET"
    BY <2>1, <2>2
  <2>3. Running /\ Chain /\ EOperands /\ MResults /\ W.icode # "RET"
    BY <2>1, RanBefore DEF PipeInv
  <2>4. W'.icode # "RET"
    BY <2>1, <2>3 DEF PipeCore!Clock, PipeCore!NextW, PipePromised, PipeCore!ret_hazard
  <2>5. CASE PipeCore!mispredicted
    <3>1. Redirect /\ M.i.icode = "JXX"
      BY <2>1, <2>3, <2>5, EdgeFacts DEF PipeCore!mispredicted
    <3>2. Chain'
      BY <2>2, <2>3, <3>1, RedirectChains
    <3>3. E' = PipeCore!EBubble /\ M' = PipeCore!MBubble
      BY <3>1 DEF Redirect
    <3>4. (E = PipeCore!EBubble /\ M = PipeCore!MBubble => EOperands /\ MResults)'
      BY BubblesSound, PTL
    <3>5. PipeCore!EBubble' = PipeCore!EBubble /\ PipeCore!MBubble' = PipeCore!MBubble
      BY DEF PipeCore!EBubble, PipeCore!MBubble, PipeCore!Nop, PipeCore!F, PipeCore!Modulus,
           PipeCore!ClearCC
    <3> QED
      BY <2>4, <3>2, <3>3, <3>4, <3>5
  <2>6. CASE ~PipeCore!mispredicted
    <3>1. Advance
      BY <2>1, <2>3, <2>6, EdgeFacts
    <3>2. Chain'
      BY <2>1, <2>3, <3>1, AdvanceChains
    <3>3. EOperands'
      BY <2>1, <2>2, <2>3, <3>1, DecodeSound
    <3>4. MResults'
      BY <2>1, <2>3, <3>1, ExecuteSound
    <3> QED
      BY <2>4, <3>2, <3>3, <3>4
  <2> QED
    BY <2>5, <2>6
<1>3. CASE SeqClock
  BY <1>3 DEF SeqClock
<1> QED
  BY <1>1, <1>2, <1>3 DEF Next

(* The next instruction of the instruction set is the oldest one that has  *)
(* not left M; without one, the one that is fetched next.                  *)
LEMMA OldestIs ==
  Running =>
    /\ M.at # Modulus => PipeCore!Oldest = M.at
    /\ M.at = Modulus /\ E.at # Modulus => PipeCore!Oldest = E.at
    /\ M.at = Modulus /\ E.at = Modulus /\ D.at # Modulus => PipeCore!Oldest = D.at
    /\ M.at = Modulus /\ E.at = Modulus /\ D.at = Modulus /\ f_pc # Modulus =>
         PipeCore!Oldest = f_pc
<1> SUFFICES ASSUME Running
             PROVE  /\ M.at # Modulus => PipeCore!Oldest = M.at
                    /\ M.at = Modulus /\ E.at # Modulus => PipeCore!Oldest = E.at
                    /\ M.at = Modulus /\ E.at = Modulus /\ D.at # Modulus =>
                         PipeCore!Oldest = D.at
                    /\ M.at = Modulus /\ E.at = Modulus /\ D.at = Modulus /\ f_pc # Modulus =>
                         PipeCore!Oldest = f_pc
  OBVIOUS
<1> DEFINE stages == <<M.at, E.at, D.at, f_pc>>
           held == {k \in 1 .. 4 : stages[k] # PipeCore!Modulus}
<1>1. PipeCore!Oldest = stages[PipeCore!Min(held)]
  BY DEF PipeCore!Oldest, Running
<1>2. stages[1] = M.at /\ stages[2] = E.at /\ stages[3] = D.at /\ stages[4] = f_pc
  OBVIOUS
<1> HIDE DEF stages
<1>3. /\ (1 \in held <=> M.at # Modulus) /\ (2 \in held <=> E.at # Modulus)
      /\ (3 \in held <=> D.at # Modulus) /\ (4 \in held <=> f_pc # Modulus)
  BY <1>2, OneModulus
<1>4. held \subseteq {1, 2, 3, 4}
  OBVIOUS
<1> HIDE DEF held
<1>5. held \in SUBSET Int
  BY <1>4
<1>6. ASSUME M.at # Modulus PROVE PipeCore!Oldest = M.at
  <2>1. 1 \in held /\ \A j \in held : 1 \leq j
    BY <1>3, <1>4, <1>6
  <2>2. PipeCore!Min(held) = 1
    BY <1>5, <2>1, LeastIs
  <2> QED
    BY <1>1, <1>2, <2>2
<1>7. ASSUME M.at = Modulus, E.at # Modulus PROVE PipeCore!Oldest = E.at
  <2>1. 2 \in held /\ \A j \in held : 2 \leq j
    BY <1>3, <1>4, <1>7
  <2>2. PipeCore!Min(held) = 2
    BY <1>5, <2>1, LeastIs
  <2> QED
    BY <1>1, <1>2, <2>2
<1>8. ASSUME M.at = Modulus, E.at = Modulus, D.at # Modulus PROVE PipeCore!Oldest = D.at
  <2>1. 3 \in held /\ \A j \in held : 3 \leq j
    BY <1>3, <1>4, <1>8
  <2>2. PipeCore!Min(held) = 3
    BY <1>5, <2>1, LeastIs
  <2> QED
    BY <1>1, <1>2, <2>2
<1>9. ASSUME M.at = Modulus, E.at = Modulus, D.at = Modulus, f_pc # Modulus
      PROVE  PipeCore!Oldest = f_pc
  <2>1. 4 \in held /\ \A j \in held : 4 \leq j
    BY <1>3, <1>4, <1>9
  <2>2. PipeCore!Min(held) = 4
    BY <1>5, <2>1, LeastIs
  <2> QED
    BY <1>1, <1>2, <2>2
<1> QED
  BY <1>6, <1>7, <1>8, <1>9

(* The condition codes that the oldest instruction meets. *)
ArchCC == IF M.at # PipeCore!Modulus THEN M.cc ELSE CC

(* An edge with nothing in M changes nothing that a program sees, while    *)
(* the younger instructions move on (pipelined_y86_cpu.v).                 *)
LEMMA BubbleLeaves ==
  ASSUME core = "pipe", PipePromised, Running, Chain, EOperands, MResults,
         W.icode # "RET", PipeCore!Clock, Empty(M)
  PROVE  UNCHANGED PipeCore!Isa!isaVars
<1>1. M.i = PipeCore!Nop /\ M.at = Modulus /\ M.stat = "AOK"
  BY DEF Empty
<1>2. Advance
  BY <1>1, NopFacts, EdgeFacts DEF PipeCore!mispredicted
<1>3. PipeCore!m_stat = "AOK"
  BY <1>1, NopFacts DEF PipeCore!m_stat, PipeCore!MemError
<1>4. Running'
  <2>1. W'.icode = "NOP" /\ W'.stat = "AOK"
    BY <1>1, <1>3, NopFacts DEF PipeCore!Clock, PipeCore!NextW
  <2> QED
    BY <2>1 DEF Running, PipeCore!w_stat, PipeCore!Clock
<1>5. Chain'
  BY <1>2, AdvanceChains
<1>6. D'.at = f_pc /\ E'.at = D.at /\ M'.at = E.at /\ M'.cc = CC
  BY <1>2 DEF Advance
<1>7. f_pc # Modulus
  BY Y86Assumption DEF Chain, PipeCore!Clock
<1>8. (Running =>
        /\ M.at # Modulus => PipeCore!Oldest = M.at
        /\ M.at = Modulus /\ E.at # Modulus => PipeCore!Oldest = E.at
        /\ M.at = Modulus /\ E.at = Modulus /\ D.at # Modulus => PipeCore!Oldest = D.at
        /\ M.at = Modulus /\ E.at = Modulus /\ D.at = Modulus /\ f_pc # Modulus =>
             PipeCore!Oldest = f_pc)'
  BY OldestIs, PTL
<1>9. PipeCore!Oldest' = PipeCore!Oldest
  <2>1. Modulus' = Modulus
    BY DEF Modulus
  <2> QED
    BY <1>1, <1>4, <1>6, <1>7, <1>8, <2>1, OldestIs DEF Chain, Empty, Fetched
<1>10. ArchM' = ArchM
  <2>1. M.dstE = PipeCore!F /\ M.dstM = PipeCore!F
    BY <1>1, NopFacts DEF MResults
  <2> QED
    BY <2>1, ArchStep, NothingWritten DEF ArchM, ArchE
<1>11. ArchCC' = ArchCC
  <2>1. E.at = Modulus => CC' = CC
    <3>1. E.at = Modulus => E.i = PipeCore!Nop
      BY DEF Chain, Empty, Fetched
    <3> QED
      BY <1>2, <3>1, NopFacts DEF Advance
  <2>2. PipeCore!Modulus' = PipeCore!Modulus
    BY DEF PipeCore!Modulus
  <2> QED
    BY <1>1, <1>6, <2>1, <2>2, OneModulus DEF ArchCC
<1>12. data_mem' = data_mem /\ prog' = prog
  BY <1>1, NopFacts DEF PipeCore!Clock
<1> QED
  BY <1>9, <1>10, <1>11, <1>12 DEF PipeCore!Isa!isaVars, ArchM, ArchCC

(* What the instruction set sees of an instruction in M: the instruction,  *)
(* its operands, its address and its result (pipe_stage_memory.v).         *)
LEMMA MemorySees ==
  ASSUME Running, Fetched(M), MResults
  PROVE  /\ PipeCore!Isa!Instr = M.i
         /\ PipeCore!Isa!A = PipeCore!Read(ArchM, PipeCore!SrcA(M.i))
         /\ PipeCore!Isa!B = PipeCore!Read(ArchM, PipeCore!SrcB(M.i))
         /\ PipeCore!Isa!ValE(M.i, PipeCore!Isa!A, PipeCore!Isa!B) = M.valE
         /\ PipeCore!Isa!Address = PipeCore!m_addr
         /\ PipeCore!Oldest = M.at
         /\ PipeCore!Isa!Completes <=> PipeCore!m_stat = "AOK" /\ M.i.icode # "HALT"
<1>1. PipeCore!Oldest = M.at
  BY OldestIs DEF Fetched
<1>2. PipeCore!Isa!Instr = M.i
  BY <1>1, PipeSameEffects DEF PipeCore!Isa!Instr, Fetched
<1>3. /\ PipeCore!Isa!A = PipeCore!Read(ArchM, PipeCore!SrcA(M.i))
      /\ PipeCore!Isa!B = PipeCore!Read(ArchM, PipeCore!SrcB(M.i))
  BY <1>2, PipeSameEffects DEF PipeCore!Isa!A, PipeCore!Isa!B, ArchM
<1>4. PipeCore!Isa!ValE(M.i, PipeCore!Isa!A, PipeCore!Isa!B) = M.valE
  BY <1>3, PipeSameResults DEF MResults
<1>5. PipeCore!Isa!Address = PipeCore!m_addr
  <2>1. PipeCore!Isa!Address = PipeCore!MemAddr(M.i, PipeCore!Isa!A, M.valE)
    BY <1>2, <1>4, PipeSameEffects DEF PipeCore!Isa!Address
  <2>2. M.i.icode \in {"RET", "POPL"} => M.valA = PipeCore!Isa!A
    BY <1>3 DEF MResults
  <2> QED
    BY <2>1, <2>2 DEF PipeCore!m_addr, PipeCore!MemAddr
<1>6. PipeCore!Isa!Completes <=> PipeCore!m_stat = "AOK" /\ M.i.icode # "HALT"
  <2>1. PipeCore!Isa!Completes <=>
          /\ ~(M.at > ImemTop) /\ PipeCore!InstrValid(M.i) /\ M.i.icode # "HALT"
          /\ ~PipeCore!MemError(M.i, PipeCore!m_addr)
    BY <1>1, <1>2, <1>5, PipeSameEffects DEF PipeCore!Isa!Completes
  <2>2. ~(M.at > ImemTop)
    BY Y86Assumption DEF Fetched
  <2>3. PipeCore!m_stat = "AOK" <=>
          PipeCore!InstrValid(M.i) /\ ~PipeCore!MemError(M.i, PipeCore!m_addr)
    BY DEF PipeCore!m_stat, Fetched
  <2> QED
    BY <2>1, <2>2, <2>3
<1> QED
  BY <1>1, <1>2, <1>3, <1>4, <1>5, <1>6

(* An instruction that leaves M without fault has all the effects the      *)
(* instruction set gives it, and the next one is its successor or the      *)
(* target of its jump (pipe_stage_memory.v, pipe_stage_decode.v).          *)
LEMMA PipeExecutes ==
  ASSUME core = "pipe", prog \in PipePrograms, PipePromised, Running, Chain, EOperands, MResults,
         W.icode # "RET", PipeCore!Clock, Fetched(M),
         PipeCore!m_stat = "AOK", M.i.icode # "HALT"
  PROVE  PipeCore!Isa!Execute
<1> DEFINE i == M.i
           a == PipeCore!Read(ArchM, PipeCore!SrcA(M.i))
           b == PipeCore!Read(ArchM, PipeCore!SrcB(M.i))
<1>1. /\ PipeCore!Isa!Instr = i /\ PipeCore!Isa!A = a /\ PipeCore!Isa!B = b
      /\ PipeCore!Isa!ValE(i, a, b) = M.valE /\ PipeCore!Isa!Address = PipeCore!m_addr
      /\ PipeCore!Oldest = M.at /\ PipeCore!Isa!Completes
  BY MemorySees
<1>2. M.at # Modulus /\ M.at \in Nat /\ ArchCC = M.cc
  BY OneModulus DEF Fetched, ArchCC
<1>3. PipeCore!Isa!ValM(i, data_mem, PipeCore!m_addr) = PipeCore!m_valM
  BY PipeSameEffects DEF PipeCore!m_valM
<1>4. M.Cnd = PipeCore!Isa!Holds(i.ifun, M.cc)
  BY <1>2, PipeSameEffects DEF MResults
<1>5. i.icode # "CALL" /\ i.icode # "RET"
  BY DEF PipePromised, PipeCore!ret_hazard
<1>6. Running'
  <2>1. W'.icode # "HALT" /\ W'.stat = "AOK"
    BY DEF PipeCore!Clock, PipeCore!NextW
  <2> QED
    BY <2>1 DEF Running, PipeCore!w_stat, PipeCore!Clock
<1>7. (Running =>
        /\ M.at # Modulus => PipeCore!Oldest = M.at
        /\ M.at = Modulus /\ E.at # Modulus => PipeCore!Oldest = E.at
        /\ M.at = Modulus /\ E.at = Modulus /\ D.at # Modulus => PipeCore!Oldest = D.at
        /\ M.at = Modulus /\ E.at = Modulus /\ D.at = Modulus /\ f_pc # Modulus =>
             PipeCore!Oldest = f_pc)'
  BY OldestIs, PTL
<1>8. Modulus' = Modulus /\ PipeCore!Modulus' = PipeCore!Modulus
  BY DEF Modulus, PipeCore!Modulus
<1>9. PipeCore!mispredicted <=> i.icode = "JXX" /\ PipeCore!Isa!Holds(i.ifun, M.cc)
  BY <1>4 DEF PipeCore!mispredicted
<1>10. CC = IF i.icode = "ALU" THEN PipeCore!Isa!Flags(i.ifun, a, b) ELSE M.cc
  BY <1>2, PipeSameResults DEF MResults
<1>11. /\ PipeCore!Oldest' = IF PipeCore!mispredicted THEN i.valC ELSE M.at + 1
       /\ ArchCC' = CC
  <2>1. CASE PipeCore!mispredicted
    <3>1. Redirect
      BY <2>1, EdgeFacts
    <3>2. D'.at = Modulus /\ E'.at = Modulus /\ M'.at = Modulus /\ CC' = CC /\ f_pc' = i.valC
      BY <3>1, OneModulus DEF Redirect, PipeCore!DBubble, PipeCore!EBubble, PipeCore!MBubble
    <3>3. i.valC # Modulus
      BY Operands DEF Fetched
    <3> QED
      BY <1>6, <1>7, <1>8, <2>1, <3>2, <3>3, OneModulus DEF ArchCC
  <2>2. CASE ~PipeCore!mispredicted
    <3>1. Advance
      BY <2>2, EdgeFacts
    <3>2. E.at = M.at + 1 /\ E.at # Modulus
      BY <1>2 DEF Chain, Empty, Fetched
    <3>3. M'.at = E.at /\ M'.cc = CC
      BY <3>1 DEF Advance
    <3> QED
      BY <1>6, <1>7, <1>8, <2>2, <3>2, <3>3, OneModulus DEF ArchCC
  <2> QED
    BY <2>1, <2>2
<1>12. ArchM' = PipeCore!Isa!WriteBack(ArchM,
                  IF i.icode = "RRMOVL" /\ ~PipeCore!Isa!Holds(i.ifun, M.cc)
                  THEN PipeCore!Isa!F ELSE PipeCore!Isa!DstE(i),
                  M.valE, PipeCore!Isa!DstM(i), PipeCore!m_valM)
  <2>1. M.dstE = IF i.icode = "RRMOVL" /\ ~PipeCore!Isa!Holds(i.ifun, M.cc)
                 THEN PipeCore!Isa!F ELSE PipeCore!Isa!DstE(i)
    BY <1>4, PipeSameEffects DEF MResults
  <2>2. M.dstM = PipeCore!Isa!DstM(i)
    BY PipeSameEffects DEF MResults
  <2>3. ArchM' = PipeCore!Isa!WriteBack(ArchM, M.dstE, M.valE, M.dstM, PipeCore!m_valM)
    BY ArchStep, PipeSameEffects DEF ArchE
  <2> QED
    BY <2>1, <2>2, <2>3
<1>13. data_mem' = IF PipeCore!Isa!Writes(i)
                   THEN [data_mem EXCEPT ![PipeCore!Isa!CellOf(PipeCore!m_addr)] =
                           IF i.icode = "CALL" THEN M.at + 1 ELSE a]
                   ELSE data_mem
  <2>1. PipeCore!Writes(i) => PipeCore!AddrValid(PipeCore!m_addr)
    BY DEF PipeCore!m_stat, PipeCore!MemError
  <2>2. PipeCore!Writes(i) => M.valA = a
    BY <1>5 DEF PipeCore!Writes, MResults
  <2>3. data_mem' = IF PipeCore!Writes(i) /\ PipeCore!AddrValid(PipeCore!m_addr)
                    THEN [data_mem EXCEPT ![PipeCore!CellOf(PipeCore!m_addr)] = M.valA]
                    ELSE data_mem
    BY <1>5 DEF PipeCore!Clock
  <2> QED
    BY <1>5, <2>1, <2>2, <2>3, PipeSameEffects
<1>14. prog' = prog
  BY DEF PipeCore!Clock
<1>15. M.at # PipeCore!Isa!Stopped
  BY <1>2, OneModulus
<1>16. PipeCore!Oldest' =
         CASE i.icode = "CALL" \/ (i.icode = "JXX" /\ PipeCore!Isa!Holds(i.ifun, M.cc)) -> i.valC
           [] i.icode = "RET" -> PipeCore!m_valM
           [] OTHER -> M.at + 1
  <2>1. CASE PipeCore!mispredicted
    BY <1>5, <1>9, <1>11, <2>1, Zenon
  <2>2. CASE ~PipeCore!mispredicted
    BY <1>5, <1>9, <1>11, <2>2, Zenon
  <2> QED
    BY <2>1, <2>2
<1> HIDE DEF i, a, b
<1> QED
  BY <1>1, <1>2, <1>3, <1>10, <1>11, <1>12, <1>13, <1>14, <1>15, <1>16, Zenon
     DEF PipeCore!Isa!Execute, ArchM, ArchCC

(* Every clock edge of the pipelined core is one step of the instruction   *)
(* set, or none (pipelined_y86_cpu.v).                                     *)
LEMMA PipeStep ==
  ASSUME PipeInv, PipePromised, [Next]_vars
  PROVE  [core = "pipe" => [PipeCore!Isa!IsaNext]_(PipeCore!Isa!isaVars)]_vars
<1>1. CASE PipeClock
  <2>1. core = "pipe" /\ PipeCore!Clock /\ prog \in PipePrograms /\ prog' = prog
    BY <1>1 DEF PipeClock, PipeInv, PipeCore!Clock
  <2>2. ~Running => PipeCore!Oldest = PipeCore!Isa!Stopped
    BY OneModulus DEF Running, PipeCore!Oldest
  <2>3. ~Running' => PipeCore!Oldest' = PipeCore!Isa!Stopped
    <3>1. (~Running => PipeCore!Oldest = PipeCore!Modulus)'
      BY DEF Running, PipeCore!Oldest
    <3>2. PipeCore!Modulus' = PipeCore!Modulus
      BY DEF PipeCore!Modulus
    <3> QED
      BY <3>1, <3>2, OneModulus
  <2>4. CASE ~Running
    <3>1. ~Running'
      BY <2>1, <2>4, RanBefore
    <3> QED
      BY <2>1, <2>2, <2>3, <2>4, <3>1 DEF PipeCore!Isa!IsaNext, PipeCore!Isa!AfterStop
  <2>5. CASE Running
    <3>1. Chain /\ EOperands /\ MResults /\ W.icode # "RET"
      BY <2>1, <2>5 DEF PipeInv
    <3>2. CASE Empty(M)
      BY <2>1, <2>5, <3>1, <3>2, BubbleLeaves
    <3>3. CASE Fetched(M) /\ PipeCore!m_stat = "AOK" /\ M.i.icode # "HALT"
      BY <2>1, <2>5, <3>1, <3>3, PipeExecutes DEF PipeCore!Isa!IsaNext
    <3>4. CASE Fetched(M) /\ ~(PipeCore!m_stat = "AOK" /\ M.i.icode # "HALT")
      <4>1. ~Running'
        BY <2>1, <3>4, RanBefore
      <4>2. ~PipeCore!Isa!Completes /\ PipeCore!Oldest = M.at
        BY <2>5, <3>1, <3>4, MemorySees
      <4>3. M.at # PipeCore!Isa!Stopped
        BY <3>4, OneModulus DEF Fetched
      <4> QED
        BY <2>1, <2>3, <4>1, <4>2, <4>3 DEF PipeCore!Isa!IsaNext, PipeCore!Isa!Stop
    <3> QED
      BY <3>1, <3>2, <3>3, <3>4 DEF Chain
  <2> QED
    BY <2>4, <2>5
<1>2. CASE SeqClock
  BY <1>2 DEF SeqClock
<1> QED
  BY <1>1, <1>2 DEF Next

(* Forwarding, the squashing behind a taken jump and the stop at a fault   *)
(* stay invisible: whatever the width, the registers, the memory and the   *)
(* programs, the pipelined core commits what the instruction set promises, *)
(* as long as the program keeps clear of the cases that PipePromised       *)
(* names (pipelined_y86_cpu.v, pipe_control.v, pipe_stage_decode.v).       *)
THEOREM PipelinedCoreCorrect == Spec /\ []PipePromised => PipeImplementsIsa
<1>1. Init => PipeInv /\ (core = "pipe" => PipeCore!Isa!IsaInit)
  BY PipeInitFacts
<1>2. PipeInv /\ PipePromised /\ [Next]_vars => PipeInv'
  BY PipeInvStep
<1>3. PipeInv /\ PipePromised /\ [Next]_vars
        => [core = "pipe" => [PipeCore!Isa!IsaNext]_(PipeCore!Isa!isaVars)]_vars
  BY PipeStep
<1> QED
  BY <1>1, <1>2, <1>3, PTL DEF Spec, PipeImplementsIsa
=============================================================================
