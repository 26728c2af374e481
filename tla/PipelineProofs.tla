--------------------------- MODULE PipelineProofs ---------------------------
(***************************************************************************)
(* Proofs about Pipeline for every instruction set, data path, register    *)
(* set, memory size and program.                                           *)
(***************************************************************************)
EXTENDS PipelinePerf, Integers, TLAPS

-----------------------------------------------------------------------------
(* Facts about the combinational blocks. *)

(* The fields of an instruction, and those of the bubble. *)
LEMMA InstrFacts ==
  /\ \A i \in Instr : /\ i.op \in Opcode
                      /\ i.rd \in Reg
                      /\ i.rs1 \in Reg
                      /\ i.rs2 \in Reg
                      /\ i.fn \in Fn
                      /\ i.imm \in Word
  /\ NOP \in Instr
  /\ NOP.op = "ALUI"
  /\ NOP.rd = x0
  /\ NOP.rs1 = x0
  /\ NOP.rs2 = x0
  BY StateAssumption DEF InstrFields, NOP

(* Fetching yields an instruction (dpi_instr_mem_read). *)
LEMMA FetchType ==
  ASSUME NEW m \in Mem, NEW a \in Word
  PROVE  Fetch(m, a) \in Instr
  BY DataPathAssumption DEF Fetch, Mem

(* The register read port yields a word. *)
LEMMA ReadRegType ==
  ASSUME NEW regs \in [Reg -> Word], NEW r \in Reg
  PROVE  ReadReg(regs, r) \in Word
  BY StateAssumption DEF ReadReg

(* The ALU yields a word for every opcode. *)
LEMMA AluResultType ==
  ASSUME NEW i \in Instr, NEW p \in Word, NEW a \in Word, NEW b \in Word
  PROVE  AluResult(i, p, a, b) \in Word
  <1>1. i.op \in Opcode /\ i.fn \in Fn /\ i.imm \in Word
    BY InstrFacts
  <1>2. QED
    BY <1>1, StateAssumption, DataPathAssumption DEF AluResult, Opcode

(* A load yields a word. *)
LEMMA LoadDataType ==
  ASSUME NEW i \in Instr, NEW m \in Mem, NEW a \in Word
  PROVE  LoadData(i, m, a) \in Word
  <1>1. i.fn \in Fn
    BY InstrFacts
  <1>2. QED
    BY <1>1, StateAssumption, DataPathAssumption DEF LoadData, Mem

(* A store leaves a memory. *)
LEMMA MemAfterType ==
  ASSUME NEW i \in Instr, NEW m \in Mem, NEW a \in Word, NEW d \in Word
  PROVE  MemAfter(i, m, a, d) \in Mem
  <1>1. i.fn \in Fn
    BY InstrFacts
  <1>2. QED
    BY <1>1, DataPathAssumption DEF MemAfter, Mem

(* The value written back is a word. *)
LEMMA WrDataType ==
  ASSUME NEW i \in Instr, NEW p \in Word, NEW a \in Word, NEW d \in Word
  PROVE  WrData(i, p, a, d) \in Word
  BY StateAssumption, DataPathAssumption DEF WrData

(* Writing back leaves a register file. *)
LEMMA RegsAfterType ==
  ASSUME NEW i \in Instr, NEW regs \in [Reg -> Word], NEW v \in Word
  PROVE  RegsAfter(i, regs, v) \in [Reg -> Word]
  <1>1. i.rd \in Reg
    BY InstrFacts
  <1>2. QED
    BY <1>1 DEF RegsAfter

(* The counters stay within their width. *)
LEMMA IncType ==
  ASSUME NEW n \in 0 .. CounterMod - 1
  PROVE  Inc(n) \in 0 .. CounterMod - 1
  BY StateAssumption DEF Inc

(* After a write-back, the read port gives the written value for rd and    *)
(* the old one for every other register; x0 reads as zero.                 *)
LEMMA ReadAfterWrite ==
  ASSUME NEW i \in Instr, NEW regs \in [Reg -> Word], NEW v \in Word, NEW r \in Reg
  PROVE  ReadReg(RegsAfter(i, regs, v), r) =
           IF RegWrEn(i) /\ i.rd # x0 /\ i.rd = r THEN v ELSE ReadReg(regs, r)
  <1>1. i.rd \in Reg
    BY InstrFacts
  <1>2. QED
    BY <1>1 DEF ReadReg, RegsAfter

-----------------------------------------------------------------------------
(* Type correctness *)

(* Every wire of the pipeline carries a value of its type. *)
LEMMA WireTypes ==
  ASSUME TypeOK
  PROVE  /\ wb_wr_data \in Word
         /\ mem_mem_data \in Word
         /\ rs1_val \in Word
         /\ rs2_val \in Word
         /\ ex_alu_result \in Word
         /\ ex_branch_taken \in BOOLEAN
         /\ ex_pc_target \in Word
         /\ ex_next_pc \in Word
         /\ \A r \in Reg : ReadPort(r) \in Word
         /\ ArchRegs \in [Reg -> Word]
         /\ Fetch(pmem, pc) \in Instr
  <1> USE DEF TypeOK
  <1>1. wb_wr_data \in Word
    BY WrDataType DEF wb_wr_data
  <1>2. mem_mem_data \in Word
    BY LoadDataType DEF mem_mem_data
  <1>3. rs1_val \in Word /\ rs2_val \in Word
    BY <1>1 DEF rs1_val, rs2_val, Operand
  <1>4. ex_alu_result \in Word
    BY <1>3, AluResultType DEF ex_alu_result
  <1>5. ex_branch_taken \in BOOLEAN
    BY DEF ex_branch_taken
  <1>6. ex_pc_target \in Word
    BY <1>3, InstrFacts, DataPathAssumption DEF ex_pc_target
  <1>7. ex_next_pc \in Word
    BY <1>6, DataPathAssumption DEF ex_next_pc
  <1>8. \A r \in Reg : ReadPort(r) \in Word
    BY <1>1, StateAssumption DEF ReadPort
  <1>9. ArchRegs \in [Reg -> Word]
    BY <1>1, RegsAfterType DEF ArchRegs
  <1>10. Fetch(pmem, pc) \in Instr
    BY FetchType
  <1>11. QED
    BY <1>1, <1>2, <1>3, <1>4, <1>5, <1>6, <1>7, <1>8, <1>9, <1>10

(* The reset state is well typed. *)
LEMMA InitTypeOK == Init => TypeOK
  BY StateAssumption, DataPathAssumption, InstrFacts
  DEF Init, TypeOK, IfIdReset, IdExReset, ExMemReset, MemWbReset, Mem

(* A clock edge preserves the types. *)
LEMMA ClockTypeOK == TypeOK /\ Clock => TypeOK'
  <1> SUFFICES ASSUME TypeOK, Clock
               PROVE  TypeOK'
    OBVIOUS
  <1>1. pc' \in Word
    BY WireTypes, DataPathAssumption DEF Clock, FetchEdge, TypeOK
  <1>2. if_id' \in [pc : Word, instr : Instr]
    BY WireTypes, StateAssumption, InstrFacts DEF Clock, IfIdEdge, IfIdReset, TypeOK
  <1>3. id_ex' \in [pc : Word, instr : Instr, rs1_data : Word, rs2_data : Word]
    BY WireTypes, StateAssumption, InstrFacts DEF Clock, IdExEdge, IdExReset, TypeOK
  <1>4. ex_mem' \in [pc : Word, instr : Instr, alu_result : Word,
                     rs2_data : Word, next_pc : Word]
    BY WireTypes DEF Clock, ExMemEdge, TypeOK
  <1>5. mem_wb' \in [pc : Word, instr : Instr, alu_result : Word,
                     mem_data : Word, next_pc : Word]
    BY WireTypes DEF Clock, MemWbEdge, TypeOK
  <1>6. regfile' \in [Reg -> Word]
    BY WireTypes DEF Clock, RegfileEdge, ArchRegs
  <1>7. pmem' \in Mem
    BY MemAfterType DEF Clock, PmemEdge, TypeOK
  <1>8. /\ cycle_cnt' \in 0 .. CounterMod - 1
        /\ instr_cnt' \in 0 .. CounterMod - 1
        /\ stall_cnt' \in 0 .. CounterMod - 1
    BY IncType DEF Clock, CounterEdge, TypeOK
  <1>9. QED
    BY <1>1, <1>2, <1>3, <1>4, <1>5, <1>6, <1>7, <1>8 DEF TypeOK

(* Every register of the pipeline always holds a value of its type.        *)
THEOREM TypeCorrect == Spec => []TypeOK
  <1>1. TypeOK /\ [Next]_vars => TypeOK'
    <2> SUFFICES ASSUME TypeOK, [Next]_vars
                 PROVE  TypeOK'
      OBVIOUS
    <2>1. CASE Next
      BY <2>1, ClockTypeOK DEF Next
    <2>2. CASE UNCHANGED vars
      BY <2>2 DEF TypeOK, vars
    <2>3. QED
      BY <2>1, <2>2
  <1>2. QED
    BY InitTypeOK, <1>1, PTL DEF Spec

-----------------------------------------------------------------------------
(* What one clock edge does to the programmer's view *)

(* The WB bypass makes the read port of ID see the architectural registers *)
(* (decode_pipe.v:92-98).                                                  *)
LEMMA ReadPortCorrect ==
  ASSUME TypeOK
  PROVE  \A r \in Reg : ReadPort(r) = ReadReg(ArchRegs, r)
  <1> SUFFICES ASSUME NEW r \in Reg
               PROVE  ReadPort(r) = ReadReg(ArchRegs, r)
    OBVIOUS
  <1>1. mem_wb.instr \in Instr /\ regfile \in [Reg -> Word] /\ wb_wr_data \in Word
    BY WireTypes DEF TypeOK
  <1>2. ReadReg(ArchRegs, r) =
          IF RegWrEn(mem_wb.instr) /\ mem_wb.instr.rd # x0 /\ mem_wb.instr.rd = r
          THEN wb_wr_data ELSE ReadReg(regfile, r)
    BY <1>1, ReadAfterWrite DEF ArchRegs
  <1>3. QED
    BY <1>2 DEF ReadPort, ReadReg, wb_reg_wr_en

(* The instruction leaving MEM is the one whose effect appears.            *)
LEMMA ArchRegsStep ==
  ASSUME Clock
  PROVE  ArchRegs' = RegsAfterMem
  BY DEF Clock, RegfileEdge, MemWbEdge, ArchRegs, RegsAfterMem, wb_wr_data

(* EX computes from its operands what the single-cycle core computes.      *)
LEMMA ExecuteCorrect ==
  ASSUME TypeOK
  PROVE  ex_next_pc = SC!NextPC(id_ex.instr, id_ex.pc, rs1_val, rs2_val)
  BY DEF ex_next_pc, ex_branch_taken, ex_pc_target, SC!NextPC, SC!BranchTaken

(* What MEM forwards is what WB will write, unless it is a load.           *)
LEMMA ForwardedIsWritten ==
  ASSUME KnownOpcodes, TypeOK, id_ex.instr.op # "LOAD", RegWrEn(id_ex.instr), NEW d
  PROVE  WrData(id_ex.instr, id_ex.pc, ex_alu_result, d) = ex_alu_result
  BY DEF WrData, RegWrEn, ex_alu_result, AluResult

(* For every register but the target of a load in EX, the multiplexer of   *)
(* the next cycle selects what the older instructions leave there.         *)
LEMMA ForwardCorrect ==
  ASSUME KnownOpcodes, TypeOK, Clock, NEW r \in Reg,
         ~(id_ex.instr.op = "LOAD" /\ id_ex.instr.rd # x0 /\ id_ex.instr.rd = r)
  PROVE  (IF mem_reg_wr_en' /\ ex_mem'.instr.rd = r THEN ex_mem'.alu_result
          ELSE IF wb_reg_wr_en' /\ mem_wb'.instr.rd # x0 /\ mem_wb'.instr.rd = r
               THEN wb_wr_data'
          ELSE ReadReg(ArchRegs, r)) = ReadReg(RegsAfterMem', r)
  <1> DEFINE E == id_ex.instr
             M == ex_mem.instr
             vE == WrData(E, id_ex.pc, ex_alu_result, mem_mem_data')
             vM == WrData(M, ex_mem.pc, ex_mem.alu_result, mem_mem_data)
  <1>1. TypeOK'
    BY ClockTypeOK
  <1>2. E \in Instr /\ M \in Instr /\ E.op \in Opcode /\ M.op \in Opcode
    BY InstrFacts DEF TypeOK
  <1>3. vM \in Word /\ ArchRegs \in [Reg -> Word] /\ ArchRegs' \in [Reg -> Word]
    <2>1. ex_mem.pc \in Word /\ ex_mem.alu_result \in Word /\ mem_mem_data \in Word
      BY WireTypes DEF TypeOK
    <2>2. vM \in Word
      BY <1>2, <2>1, WrDataType
    <2>3. ArchRegs \in [Reg -> Word]
      BY WireTypes
    <2>4. RegsAfter(M, ArchRegs, vM) \in [Reg -> Word]
      BY <1>2, <2>2, <2>3, RegsAfterType
    <2>5. QED
      BY <2>2, <2>3, <2>4, ArchRegsStep DEF RegsAfterMem
  <1>4. mem_mem_data' \in Word
    BY <1>1, WireTypes, LoadDataType DEF TypeOK, mem_mem_data
  <1>5. vE \in Word
    BY <1>2, <1>4, WireTypes, WrDataType DEF TypeOK
  <1>6. RegsAfterMem' = RegsAfter(E, ArchRegs', vE)
    BY DEF RegsAfterMem, Clock, ExMemEdge
  <1>7. ReadReg(RegsAfterMem', r) =
          IF RegWrEn(E) /\ E.rd # x0 /\ E.rd = r THEN vE ELSE ReadReg(ArchRegs', r)
    BY <1>2, <1>3, <1>5, <1>6, ReadAfterWrite
  <1>8. ReadReg(ArchRegs', r) =
          IF RegWrEn(M) /\ M.rd # x0 /\ M.rd = r THEN vM ELSE ReadReg(ArchRegs, r)
    BY <1>2, <1>3, ArchRegsStep, ReadAfterWrite DEF RegsAfterMem
  <1>9. ex_mem'.instr = E /\ ex_mem'.alu_result = ex_alu_result
    BY DEF Clock, ExMemEdge
  <1>10. mem_wb'.instr = M /\ wb_wr_data' = vM /\ wb_reg_wr_en' = RegWrEn(M)
    BY DEF Clock, MemWbEdge, wb_wr_data, wb_reg_wr_en
  <1>11. mem_reg_wr_en' = (RegWrEn(E) /\ E.rd # x0)
    BY <1>2, <1>9 DEF mem_reg_wr_en, RegWrEn, KnownOpcodes, Opcode
  <1>12. RegWrEn(E) /\ E.rd # x0 /\ E.rd = r => vE = ex_alu_result
    BY ForwardedIsWritten
  <1>13. QED
    BY <1>7, <1>8, <1>9, <1>10, <1>11, <1>12

-----------------------------------------------------------------------------
(* The inductive invariant *)

(* The reset state satisfies it. *)
LEMMA InitInv == Init /\ ResetNotNOP => PipelineInv
  <1> SUFFICES ASSUME Init, ResetNotNOP
               PROVE  PipelineInv
    OBVIOUS
  <1>1. ~Valid(if_id) /\ ~Valid(id_ex) /\ ~Valid(ex_mem)
    BY DEF Init, Valid, IfIdReset, IdExReset, ExMemReset
  <1>2. QED
    BY <1>1, InitTypeOK DEF PipelineInv, FetchedOK, PathOK, MemStageOK, OperandsOK

(* A stage that fetch has just filled is never taken for a bubble. *)
LEMMA FetchedIsValid ==
  ASSUME TypeOK, ResetNotNOP, Clock, ~ex_branch_taken, ~load_use
  PROVE  if_id' = [pc |-> pc, instr |-> Fetch(pmem, pc)] /\ Valid(if_id)'
  BY DEF Clock, IfIdEdge, flush_if_id, stall_id, Valid, ResetNotNOP

(* A bubble in EX neither jumps nor stalls. *)
LEMMA BubbleIsIdle ==
  ASSUME ~Valid(id_ex)
  PROVE  ~ex_branch_taken /\ ~load_use
  BY InstrFacts DEF Valid, ex_branch_taken, load_use

(* A load never jumps: stall and redirection exclude each other. *)
LEMMA StallExcludesJump == ~(load_use /\ ex_branch_taken)
  BY DEF load_use, ex_branch_taken

(* The instructions in flight stay those of the text. *)
LEMMA FetchedStep ==
  ASSUME TypeOK, FetchedOK, Clock, TextStable
  PROVE  FetchedOK'
  <1>1. ResetNotNOP'
    BY StateAssumption DEF ResetNotNOP, FetchedOK, TextStable
  <1>2. Valid(if_id)' => if_id'.instr = Fetch(pmem', if_id'.pc)
    BY DEF TypeOK, FetchedOK, Clock, IfIdEdge, IfIdReset, Valid, TextStable
  <1>3. Valid(id_ex)' => id_ex'.instr = Fetch(pmem', id_ex'.pc)
    BY DEF TypeOK, FetchedOK, Clock, IdExEdge, IdExReset, Valid, TextStable
  <1>4. Valid(ex_mem)' => ex_mem'.instr = Fetch(pmem', ex_mem'.pc)
    BY DEF TypeOK, FetchedOK, Clock, ExMemEdge, Valid, TextStable
  <1>5. QED
    BY <1>1, <1>2, <1>3, <1>4 DEF FetchedOK

(* The stages keep following one path. *)
LEMMA PathStep ==
  ASSUME TypeOK, ResetNotNOP, PathOK, Clock
  PROVE  PathOK'
  <1>1. Valid(ex_mem)' <=> Valid(id_ex)
    BY DEF Clock, ExMemEdge, Valid
  <1>2. CASE ex_branch_taken
    <2>1. ~load_use
      BY <1>2, StallExcludesJump
    <2>2. ~Valid(if_id)' /\ ~Valid(id_ex)'
      BY <1>2 DEF Clock, IfIdEdge, IdExEdge, flush_if_id, flush_id_ex,
                  IfIdReset, IdExReset, Valid
    <2>3. pc' = ex_pc_target /\ ex_mem'.next_pc = ex_pc_target
      BY <1>2, <2>1 DEF Clock, FetchEdge, ExMemEdge, stall_if, ex_next_pc
    <2>4. QED
      BY <2>2, <2>3 DEF PathOK, FrontPC
  <1>3. CASE load_use
    <2>1. ~ex_branch_taken
      BY <1>3, StallExcludesJump
    <2>2. if_id' = if_id /\ pc' = pc /\ ~Valid(id_ex)'
      BY <1>3, <2>1 DEF Clock, FetchEdge, IfIdEdge, IdExEdge, flush_if_id,
                        flush_id_ex, stall_if, stall_id, IdExReset, Valid
    <2>3. ex_mem'.next_pc = Plus4(id_ex.pc)
      BY <2>1 DEF Clock, ExMemEdge, ex_next_pc
    <2>4. QED
      BY <1>1, <2>2, <2>3 DEF PathOK, FrontPC, Valid
  <1>4. CASE ~ex_branch_taken /\ ~load_use
    <2>1. if_id'.pc = pc /\ Valid(if_id)' /\ pc' = Plus4(pc)
      BY <1>4, FetchedIsValid DEF Clock, FetchEdge, stall_if
    <2>2. id_ex'.pc = if_id.pc /\ (Valid(id_ex)' <=> Valid(if_id))
      BY <1>4 DEF Clock, IdExEdge, flush_id_ex, Valid
    <2>3. ex_mem'.next_pc = Plus4(id_ex.pc)
      BY <1>4 DEF Clock, ExMemEdge, ex_next_pc
    <2>4. QED
      BY <1>1, <2>1, <2>2, <2>3 DEF PathOK, FrontPC
  <1>5. QED
    BY <1>2, <1>3, <1>4

(* MEM receives what the instruction computes from the registers as its    *)
(* predecessors leave them.                                                *)
LEMMA MemStageStep ==
  ASSUME TypeOK, OperandsOK, Clock
  PROVE  MemStageOK'
  <1> SUFFICES ASSUME Valid(ex_mem)'
               PROVE  /\ ex_mem'.alu_result =
                           AluResult(ex_mem'.instr, ex_mem'.pc,
                                     ReadReg(ArchRegs', ex_mem'.instr.rs1),
                                     ReadReg(ArchRegs', ex_mem'.instr.rs2))
                      /\ ex_mem'.rs2_data = ReadReg(ArchRegs', ex_mem'.instr.rs2)
                      /\ ex_mem'.next_pc =
                           SC!NextPC(ex_mem'.instr, ex_mem'.pc,
                                     ReadReg(ArchRegs', ex_mem'.instr.rs1),
                                     ReadReg(ArchRegs', ex_mem'.instr.rs2))
    BY DEF MemStageOK
  <1>1. ex_mem' = [pc |-> id_ex.pc, instr |-> id_ex.instr,
                   alu_result |-> ex_alu_result, rs2_data |-> rs2_val,
                   next_pc |-> ex_next_pc]
    BY DEF Clock, ExMemEdge
  <1>2. Valid(id_ex)
    BY <1>1 DEF Valid
  <1>3. /\ rs1_val = ReadReg(ArchRegs', id_ex.instr.rs1)
        /\ rs2_val = ReadReg(ArchRegs', id_ex.instr.rs2)
    BY <1>2, ArchRegsStep DEF OperandsOK
  <1>4. QED
    BY <1>1, <1>3, ExecuteCorrect DEF ex_alu_result

(* The instruction entering EX gets the operands its predecessors leave.   *)
LEMMA OperandsStep ==
  ASSUME KnownOpcodes, TypeOK, Clock
  PROVE  OperandsOK'
  <1> SUFFICES ASSUME Valid(id_ex)'
               PROVE  /\ rs1_val' = ReadReg(RegsAfterMem', id_ex'.instr.rs1)
                      /\ rs2_val' = ReadReg(RegsAfterMem', id_ex'.instr.rs2)
    BY DEF OperandsOK
  <1>1. ~flush_id_ex
    BY DEF Clock, IdExEdge, IdExReset, Valid
  <1>2. ~load_use
    BY <1>1 DEF flush_id_ex
  <1>3. id_ex' = [pc |-> if_id.pc, instr |-> if_id.instr,
                  rs1_data |-> ReadPort(if_id.instr.rs1),
                  rs2_data |-> ReadPort(if_id.instr.rs2)]
    BY <1>1 DEF Clock, IdExEdge
  <1>4. if_id.instr.rs1 \in Reg /\ if_id.instr.rs2 \in Reg
    BY InstrFacts DEF TypeOK
  <1>5. /\ id_ex'.rs1_data = ReadReg(ArchRegs, id_ex'.instr.rs1)
        /\ id_ex'.rs2_data = ReadReg(ArchRegs, id_ex'.instr.rs2)
        /\ id_ex'.instr.rs1 \in Reg
        /\ id_ex'.instr.rs2 \in Reg
    BY <1>3, <1>4, ReadPortCorrect
  <1>6. /\ ~(id_ex.instr.op = "LOAD" /\ id_ex.instr.rd # x0
               /\ id_ex.instr.rd = id_ex'.instr.rs1)
        /\ ~(id_ex.instr.op = "LOAD" /\ id_ex.instr.rd # x0
               /\ id_ex.instr.rd = id_ex'.instr.rs2)
    BY <1>2, <1>3 DEF load_use
  <1>7. rs1_val' = ReadReg(RegsAfterMem', id_ex'.instr.rs1)
    BY <1>5, <1>6, ForwardCorrect DEF rs1_val, Operand, Forward, mem_reg_wr_en
  <1>8. rs2_val' = ReadReg(RegsAfterMem', id_ex'.instr.rs2)
    BY <1>5, <1>6, ForwardCorrect DEF rs2_val, Operand, Forward, mem_reg_wr_en
  <1>9. QED
    BY <1>7, <1>8

(* A clock edge that leaves the text alone preserves the invariant.        *)
LEMMA InvStep ==
  ASSUME KnownOpcodes, PipelineInv, [Next]_vars, [TextStable]_vars
  PROVE  PipelineInv'
  <1>1. CASE UNCHANGED vars
    BY <1>1 DEF PipelineInv, TypeOK, FetchedOK, ResetNotNOP, PathOK, FrontPC, MemStageOK,
       OperandsOK, RegsAfterMem, ArchRegs, rs1_val, rs2_val, Operand, Forward,
       wb_wr_data, wb_reg_wr_en, mem_mem_data, mem_reg_wr_en, Valid, vars
  <1>2. CASE Clock /\ TextStable
    <2>1. TypeOK /\ FetchedOK /\ PathOK /\ OperandsOK /\ ResetNotNOP
      BY DEF PipelineInv, FetchedOK
    <2>2. TypeOK'
      BY <1>2, <2>1, ClockTypeOK
    <2>3. FetchedOK'
      BY <1>2, <2>1, FetchedStep
    <2>4. PathOK'
      BY <1>2, <2>1, PathStep
    <2>5. MemStageOK'
      BY <1>2, <2>1, MemStageStep
    <2>6. OperandsOK'
      BY <1>2, <2>1, OperandsStep
    <2>7. QED
      BY <2>2, <2>3, <2>4, <2>5, <2>6 DEF PipelineInv
  <1>3. QED
    BY <1>1, <1>2 DEF Next

-----------------------------------------------------------------------------
(* The pipeline implements the single-cycle core *)

(* The blocks of RV32I are the same seen from either core. *)
LEMMA SameBlocks ==
  /\ SC!Mem = Mem
  /\ \A m, p : SC!Fetch(m, p) = Fetch(m, p)
  /\ \A regs, r : SC!ReadReg(regs, r) = ReadReg(regs, r)
  /\ \A i, p, a, b : SC!AluResult(i, p, a, b) = AluResult(i, p, a, b)
  /\ \A i, m, a : SC!LoadData(i, m, a) = LoadData(i, m, a)
  /\ \A i, m, a, d : SC!MemAfter(i, m, a, d) = MemAfter(i, m, a, d)
  /\ \A i, p, a, d : SC!WrData(i, p, a, d) = WrData(i, p, a, d)
  /\ \A i, regs, v : SC!RegsAfter(i, regs, v) = RegsAfter(i, regs, v)
  /\ \A n : SC!Inc(n) = Inc(n)
  BY DEF SC!Mem, Mem, SC!Fetch, Fetch, SC!ReadReg, ReadReg, SC!AluResult, AluResult,
         SC!LoadData, LoadData, SC!MemAfter, MemAfter, SC!WrData, WrData,
         SC!RegsAfter, RegsAfter, SC!RegWrEn, RegWrEn, SC!Inc, Inc

(* Reset maps to reset. *)
LEMMA InitRefines == Init => SC!Init
  <1> SUFFICES ASSUME Init
               PROVE  SC!Init
    OBVIOUS
  <1>1. ~Valid(if_id) /\ ~Valid(id_ex) /\ ~Valid(ex_mem) /\ ~wb_valid
    BY DEF Init, Valid, wb_valid, IfIdReset, IdExReset, ExMemReset, MemWbReset
  <1>2. ArchPC = ResetPC
    BY <1>1 DEF Init, ArchPC
  <1>3. ArchRegs = [r \in Reg |-> WordZero]
    BY InstrFacts DEF Init, ArchRegs, RegsAfter, MemWbReset
  <1>4. Retired = 0
    BY <1>1 DEF Init, Retired
  <1>5. pmem \in Mem
    BY StateAssumption DEF Init, Mem
  <1>6. QED
    BY <1>2, <1>3, <1>4, <1>5, SameBlocks DEF SC!Init

(* The retirement count moves with the instruction leaving MEM. *)
LEMMA RetiredStep ==
  ASSUME Clock
  PROVE  Retired' = IF Valid(ex_mem) THEN Inc(Retired) ELSE Retired
  BY DEF Clock, CounterEdge, MemWbEdge, Retired, wb_valid, Valid

(* The programmer's pc: the successor of the instruction leaving MEM, or   *)
(* the same pc if a bubble leaves it.                                      *)
LEMMA ArchPCStep ==
  ASSUME TypeOK, ResetNotNOP, PathOK, Clock
  PROVE  ArchPC' = IF Valid(ex_mem) THEN ex_mem.next_pc ELSE ArchPC
  <1>1. ex_mem'.pc = id_ex.pc /\ (Valid(ex_mem)' <=> Valid(id_ex))
    BY DEF Clock, ExMemEdge, Valid
  <1>2. CASE Valid(id_ex)
    <2>1. ArchPC' = id_ex.pc
      BY <1>1, <1>2 DEF ArchPC
    <2>2. QED
      BY <1>2, <2>1 DEF PathOK, ArchPC
  <1>3. CASE ~Valid(id_ex)
    <2>1. ~ex_branch_taken /\ ~load_use
      BY <1>3, BubbleIsIdle
    <2>2. if_id'.pc = pc /\ Valid(if_id)'
      BY <2>1, FetchedIsValid
    <2>3. id_ex'.pc = if_id.pc /\ (Valid(id_ex)' <=> Valid(if_id))
      BY <2>1 DEF Clock, IdExEdge, flush_id_ex, Valid
    <2>4. ArchPC' = FrontPC
      BY <1>1, <1>3, <2>2, <2>3 DEF ArchPC, FrontPC
    <2>5. QED
      BY <1>3, <2>4 DEF PathOK, ArchPC, FrontPC
  <1>4. QED
    BY <1>2, <1>3

(* A bubble leaving MEM changes nothing the programmer sees. *)
LEMMA BubbleStep ==
  ASSUME PipelineInv, Clock, ~Valid(ex_mem)
  PROVE  UNCHANGED SC!vars
  <1>1. ex_mem.instr = NOP
    BY DEF Valid
  <1>2. ArchRegs' = ArchRegs
    BY <1>1, ArchRegsStep, InstrFacts DEF RegsAfterMem, RegsAfter
  <1>3. pmem' = pmem
    BY <1>1, InstrFacts DEF Clock, PmemEdge, MemAfter
  <1>4. ArchPC' = ArchPC
    BY ArchPCStep DEF PipelineInv, FetchedOK
  <1>5. Retired' = Retired
    BY RetiredStep
  <1>6. QED
    BY <1>2, <1>3, <1>4, <1>5 DEF SC!vars

(* An instruction leaving MEM does what one cycle of the other core does.  *)
LEMMA RetireStep ==
  ASSUME PipelineInv, Clock, Valid(ex_mem)
  PROVE  SC!Clock
  <1> DEFINE i == ex_mem.instr
             a == ReadReg(ArchRegs, i.rs1)
             b == ReadReg(ArchRegs, i.rs2)
  <1>1. ArchPC = ex_mem.pc /\ Fetch(pmem, ArchPC) = i
    BY DEF ArchPC, PipelineInv, FetchedOK
  <1>2. /\ ex_mem.alu_result = AluResult(i, ArchPC, a, b)
        /\ ex_mem.rs2_data = b
        /\ ex_mem.next_pc = SC!NextPC(i, ArchPC, a, b)
    BY <1>1 DEF PipelineInv, MemStageOK
  <1>3. ArchPC' = SC!NextPC(i, ArchPC, a, b)
    BY <1>2, ArchPCStep DEF PipelineInv, FetchedOK
  <1>4. ArchRegs' = RegsAfter(i, ArchRegs,
                      WrData(i, ArchPC, AluResult(i, ArchPC, a, b),
                             LoadData(i, pmem, AluResult(i, ArchPC, a, b))))
    BY <1>1, <1>2, ArchRegsStep DEF RegsAfterMem, mem_mem_data
  <1>5. pmem' = MemAfter(i, pmem, AluResult(i, ArchPC, a, b), b)
    BY <1>2 DEF Clock, PmemEdge
  <1>6. Retired' = Inc(Retired)
    BY RetiredStep
  <1>7. QED
    BY <1>1, <1>3, <1>4, <1>5, <1>6, SameBlocks DEF SC!Clock

(* PipelineInv holds throughout, for programs of known opcodes that do not *)
(* start with a NOP and do not modify themselves.                          *)
THEOREM InvariantHolds ==
  ASSUME KnownOpcodes
  PROVE  Spec /\ ResetNotNOP /\ [][TextStable]_vars => []PipelineInv
  <1>1. PipelineInv /\ [Next]_vars /\ [TextStable]_vars => PipelineInv'
    BY InvStep
  <1>2. QED
    BY InitInv, <1>1, PTL DEF Spec

(* Under the same conditions the pipeline implements the single-cycle      *)
(* core: every instruction retires in program order with the effect it has *)
(* there, whatever was forwarded, stalled or flushed.                      *)
THEOREM Refinement ==
  ASSUME KnownOpcodes
  PROVE  Spec /\ ResetNotNOP /\ [][TextStable]_vars => ImplementsSingleCycle
  <1>1. PipelineInv /\ [Next]_vars => [SC!Next]_(SC!vars)
    <2> SUFFICES ASSUME PipelineInv, [Next]_vars
                 PROVE  [SC!Next]_(SC!vars)
      OBVIOUS
    <2>1. CASE Clock /\ Valid(ex_mem)
      BY <2>1, RetireStep DEF SC!Next
    <2>2. CASE Clock /\ ~Valid(ex_mem)
      BY <2>2, BubbleStep
    <2>3. CASE UNCHANGED vars
      BY <2>3 DEF vars, SC!vars, ArchPC, ArchRegs, Retired, Valid, wb_valid, wb_wr_data
    <2>4. QED
      BY <2>1, <2>2, <2>3 DEF Next
  <1>2. QED
    BY InvariantHolds, InitRefines, <1>1, PTL DEF Spec, SC!Spec, ImplementsSingleCycle

-----------------------------------------------------------------------------
(* Further consequences *)

(* No program whatsoever makes EX take a load's address for its result:    *)
(* the stall keeps a load and its user two stages apart.                   *)
THEOREM LoadUseSafe == Spec => []NoLoadForwarding
  <1>1. Init => NoLoadForwarding
    BY InstrFacts DEF Init, NoLoadForwarding, ExMemReset
  <1>2. NoLoadForwarding /\ [Next]_vars => NoLoadForwarding'
    <2> SUFFICES ASSUME NoLoadForwarding, [Next]_vars
                 PROVE  NoLoadForwarding'
      OBVIOUS
    <2>1. CASE UNCHANGED vars
      BY <2>1 DEF NoLoadForwarding, Forward, mem_reg_wr_en, wb_reg_wr_en, vars
    <2>2. CASE Clock /\ flush_id_ex
      <3>1. id_ex'.instr = NOP
        BY <2>2 DEF Clock, IdExEdge, IdExReset
      <3>2. QED
        BY <3>1, InstrFacts DEF NoLoadForwarding, Forward
    <2>3. CASE Clock /\ ~flush_id_ex
      <3>1. ~load_use /\ id_ex'.instr = if_id.instr /\ ex_mem'.instr = id_ex.instr
        BY <2>3 DEF Clock, IdExEdge, ExMemEdge, flush_id_ex
      <3>2. QED
        BY <3>1 DEF NoLoadForwarding, Forward, load_use
    <2>4. QED
      BY <2>1, <2>2, <2>3 DEF Next
  <1>3. QED
    BY <1>1, <1>2, PTL DEF Spec

(* What difftest reads with a commit is the next instruction to execute.   *)
THEOREM CommitNextPCCorrect ==
  ASSUME KnownOpcodes
  PROVE  Spec /\ ResetNotNOP /\ [][TextStable]_vars => []CommitNextPC
  <1>1. Init => CommitNextPC
    BY DEF Init, CommitNextPC, wb_valid, Valid, MemWbReset
  <1>2. PipelineInv /\ CommitNextPC /\ [Next]_vars => CommitNextPC'
    <2> SUFFICES ASSUME PipelineInv, CommitNextPC, [Next]_vars
                 PROVE  CommitNextPC'
      OBVIOUS
    <2>1. CASE UNCHANGED vars
      BY <2>1 DEF CommitNextPC, wb_valid, Valid, ArchPC, vars
    <2>2. CASE Clock
      <3>1. /\ mem_wb'.next_pc = ex_mem.next_pc
            /\ wb_valid' <=> Valid(ex_mem)
        BY <2>2 DEF Clock, MemWbEdge, wb_valid, Valid
      <3>2. Valid(ex_mem) => ArchPC' = ex_mem.next_pc
        BY <2>2, ArchPCStep DEF PipelineInv, FetchedOK
      <3>3. QED
        BY <3>1, <3>2 DEF CommitNextPC
    <2>3. QED
      BY <2>1, <2>2 DEF Next
  <1>3. QED
    BY InvariantHolds, <1>1, <1>2, PTL DEF Spec

(* Between two commits at most two cycles commit nothing.                  *)
THEOREM BubblesBoundedHolds ==
  ASSUME KnownOpcodes
  PROVE  Spec /\ ResetNotNOP /\ [][TextStable]_vars => []BubblesBounded
  <1>1. Init => BubblesBounded
    BY DEF Init, BubblesBounded, Valid, MemWbReset
  <1>2. PipelineInv /\ BubblesBounded /\ [Next]_vars => BubblesBounded'
    <2> SUFFICES ASSUME PipelineInv, BubblesBounded, [Next]_vars
                 PROVE  BubblesBounded'
      OBVIOUS
    <2>1. CASE UNCHANGED vars
      BY <2>1 DEF BubblesBounded, Valid, vars
    <2>2. CASE Clock /\ Valid(id_ex)
      BY <2>2 DEF Clock, ExMemEdge, BubblesBounded, Valid
    <2>3. CASE Clock /\ ~Valid(id_ex)
      BY <2>3, BubbleIsIdle, FetchedIsValid DEF PipelineInv, FetchedOK, BubblesBounded
    <2>4. QED
      BY <2>1, <2>2, <2>3 DEF Next
  <1>3. QED
    BY InvariantHolds, <1>1, <1>2, PTL DEF Spec

-----------------------------------------------------------------------------
(* The performance counters *)

(* A multiple of m strictly between -m and m is 0. *)
LEMMA SmallMultiple ==
  ASSUME NEW m \in Nat \ {0}, NEW k \in Int, NEW d \in Int, d = m * k, -m < d, d < m
  PROVE  d = 0
  <1>1. CASE k >= 1
    <2>1. m * k >= m
      BY <1>1
    <2>2. QED
      BY <2>1
  <1>2. CASE k <= -1
    <2>1. m * k <= -m
      BY <1>2
    <2>2. QED
      BY <2>1
  <1>3. CASE k = 0
    BY <1>3
  <1>4. QED
    BY <1>1, <1>2, <1>3

(* A number is a multiple of m and its remainder. *)
LEMMA QuotientAndRemainder ==
  ASSUME NEW x \in Nat, NEW m \in Nat \ {0}
  PROVE  \E q \in Nat, r \in 0 .. m - 1 : r = x % m /\ x = m * q + r
  <1> DEFINE q == x \div m
             r == x % m
  <1>1. q \in Nat /\ r \in 0 .. m - 1 /\ q = x \div m /\ r = x % m
    OBVIOUS
  <1> HIDE DEF q, r
  <1>2. x = m * q + r
    BY <1>1
  <1>3. QED
    BY <1>1, <1>2

(* The remainder of a sum of a multiple and a small number. *)
LEMMA Remainder ==
  ASSUME NEW m \in Nat \ {0}, NEW p \in Nat, NEW s \in 0 .. m - 1,
         NEW x \in Nat, x = m * p + s
  PROVE  x % m = s
  <1>1. PICK q \in Nat, r \in 0 .. m - 1 : r = x % m /\ x = m * q + r
    BY QuotientAndRemainder
  <1>2. s - r = m * (q - p)
    <2>1. m * q + r = m * p + s
      BY <1>1
    <2>2. m * (q - p) = m * q - m * p /\ m * q \in Int /\ m * p \in Int
      OBVIOUS
    <2>3. QED
      BY <2>1, <2>2
  <1>3. s - r = 0
    BY <1>2, SmallMultiple
  <1>4. QED
    BY <1>1, <1>3

(* Counting modulo m: a whole turn is no change, and the successor of a    *)
(* number depends on its remainder only.                                   *)
LEMMA CountModulo ==
  ASSUME NEW m \in Nat \ {0}, NEW x \in Nat
  PROVE  /\ (x + m) % m = x % m
         /\ (x + 1) % m = IF x % m = m - 1 THEN 0 ELSE (x % m) + 1
  <1>1. PICK q \in Nat, r \in 0 .. m - 1 : r = x % m /\ x = m * q + r
    BY QuotientAndRemainder
  <1>2. (x + m) % m = r
    <2> DEFINE y == x + m
               p == q + 1
    <2>1. y = m * p + r /\ y \in Nat /\ p \in Nat
      BY <1>1
    <2> HIDE DEF y, p
    <2>2. y % m = r
      BY <2>1, Remainder
    <2>3. QED
      BY <2>2 DEF y
  <1>3. (x + 1) % m = IF r = m - 1 THEN 0 ELSE r + 1
    <2> DEFINE y == x + 1
    <2>1. CASE r = m - 1
      <3> DEFINE p == q + 1
      <3>1. y = m * p + 0 /\ y \in Nat /\ p \in Nat /\ 0 \in 0 .. m - 1
        BY <1>1, <2>1
      <3> HIDE DEF y, p
      <3>2. y % m = 0
        BY <3>1, Remainder
      <3>3. QED
        BY <2>1, <3>2 DEF y
    <2>2. CASE r # m - 1
      <3> DEFINE s == r + 1
      <3>1. y = m * q + s /\ y \in Nat /\ s \in 0 .. m - 1
        <4>1. x = m * q + r /\ m * q \in Nat
          BY <1>1
        <4>2. s \in 0 .. m - 1 /\ y \in Nat
          BY <2>2
        <4>3. y = m * q + s
          BY <4>1
        <4>4. QED
          BY <4>2, <4>3
      <3> HIDE DEF y, s
      <3>2. y % m = s
        BY <3>1, Remainder
      <3>3. QED
        BY <2>2, <3>2 DEF y, s
    <2>3. QED
      BY <2>1, <2>2
  <1>4. QED
    BY <1>1, <1>2, <1>3

(* Two numbers that count alike count alike after the same increments.     *)
LEMMA AddAlike ==
  ASSUME NEW m \in Nat \ {0}, NEW x \in Nat, NEW y \in Nat, x % m = y % m
  PROVE  (x + 1) % m = (y + 1) % m /\ (x + 2) % m = (y + 2) % m /\ (x + 3) % m = (y + 3) % m
  <1>1. (x + 1) % m = (y + 1) % m
    BY CountModulo
  <1>2. ((x + 1) + 1) % m = ((y + 1) + 1) % m
    <2> DEFINE u == x + 1
               v == y + 1
    <2>1. u \in Nat /\ v \in Nat /\ u % m = v % m
      BY <1>1
    <2> HIDE DEF u, v
    <2>2. (u + 1) % m = (v + 1) % m
      BY <2>1, CountModulo
    <2>3. QED
      BY <2>2 DEF u, v
  <1>3. x + 2 = (x + 1) + 1 /\ y + 2 = (y + 1) + 1
    OBVIOUS
  <1>4. (x + 2) % m = (y + 2) % m
    BY <1>2, <1>3, Zenon
  <1>5. ((x + 2) + 1) % m = ((y + 2) + 1) % m
    <2> DEFINE u == x + 2
               v == y + 2
    <2>1. u \in Nat /\ v \in Nat /\ u % m = v % m
      BY <1>4
    <2> HIDE DEF u, v
    <2>2. (u + 1) % m = (v + 1) % m
      BY <2>1, CountModulo
    <2>3. QED
      BY <2>2 DEF u, v
  <1>6. x + 3 = (x + 2) + 1 /\ y + 3 = (y + 2) + 1
    OBVIOUS
  <1>7. (x + 3) % m = (y + 3) % m
    BY <1>5, <1>6, Zenon
  <1>8. QED
    BY <1>1, <1>4, <1>7

(* A counter that wraps counts like one that does not. *)
LEMMA IncAlike ==
  ASSUME NEW n \in 0 .. CounterMod - 1, NEW c \in Nat
  PROVE  /\ (Inc(n) + c) % CounterMod = (n + 1 + c) % CounterMod
         /\ (2 * Inc(n) + c) % CounterMod = (2 * n + 2 + c) % CounterMod
  <1> DEFINE M == CounterMod
  <1>0. M \in Nat \ {0}
    BY StateAssumption
  <1>1. CASE n + 1 < M
    <2>1. Inc(n) = n + 1
      BY <1>0, <1>1 DEF Inc
    <2>2. 2 * Inc(n) = 2 * n + 2
      BY <2>1
    <2>3. QED
      BY <2>1, <2>2, Zenon
  <1>2. CASE n + 1 = M
    <2>1. Inc(n) = 0
      BY <1>0, <1>2 DEF Inc
    <2>2. n + 1 + c = c + M /\ 2 * n + 2 + c = (c + M) + M
      BY <1>0, <1>2
    <2>3. (c + M) % M = c % M
      BY <1>0, CountModulo
    <2>4. ((c + M) + M) % M = (c + M) % M
      <3>1. c + M \in Nat
        BY <1>0
      <3>2. QED
        BY <1>0, <3>1, CountModulo
    <2>5. Inc(n) + c = c /\ 2 * Inc(n) + c = c
      BY <2>1
    <2> HIDE DEF M
    <2>6. (Inc(n) + c) % M = (n + 1 + c) % M
      BY <2>2, <2>3, <2>5, Zenon
    <2>7. (2 * Inc(n) + c) % M = (2 * n + 2 + c) % M
      BY <2>2, <2>3, <2>4, <2>5, Zenon
    <2>8. QED
      BY <2>6, <2>7 DEF M
  <1>3. QED
    BY <1>0, <1>1, <1>2

(* What the counters and the history of jumps are while instructions, stalls *)
(* and jumps are counted: e is 1 when WB commits, s for a stall, j for a     *)
(* jump.                                                                     *)
LEMMA CountersStep ==
  ASSUME TypeOK, jumps \in 0 .. CounterMod - 1, CounterEdge,
         jumps' = IF ex_branch_taken THEN Inc(jumps) ELSE jumps,
         NEW e \in {0, 1}, NEW s \in {0, 1}, NEW j \in {0, 1},
         e = 1 <=> wb_valid, s = 1 <=> load_use, j = 1 <=> ex_branch_taken
  PROVE  (instr_cnt' + 4 + stall_cnt' + 2 * jumps') % CounterMod
           = (instr_cnt + 4 + stall_cnt + 2 * jumps + (e + s + 2 * j)) % CounterMod
  <1> DEFINE M == CounterMod
  <1>0. /\ instr_cnt \in 0 .. M - 1 /\ stall_cnt \in 0 .. M - 1 /\ jumps \in 0 .. M - 1
        /\ M \in Nat \ {0}
    BY StateAssumption DEF TypeOK
  <1>1. /\ instr_cnt' = IF e = 1 THEN Inc(instr_cnt) ELSE instr_cnt
        /\ stall_cnt' = IF s = 1 THEN Inc(stall_cnt) ELSE stall_cnt
        /\ jumps' = IF j = 1 THEN Inc(jumps) ELSE jumps
    BY DEF CounterEdge, stall_if
  <1>2. instr_cnt' \in Nat /\ stall_cnt' \in Nat /\ jumps' \in Nat
    BY <1>0, <1>1, IncType
  <1>3. ASSUME NEW c \in Nat PROVE (instr_cnt' + c) % M = (instr_cnt + e + c) % M
    <2>1. CASE e = 1
      BY <1>0, <1>1, <2>1, IncAlike
    <2>2. CASE e = 0
      <3>1. instr_cnt' + c = instr_cnt + e + c
        BY <1>0, <1>1, <2>2
      <3>2. QED
        BY <3>1, Zenon
    <2>3. QED
      BY <2>1, <2>2
  <1>4. ASSUME NEW c \in Nat PROVE (stall_cnt' + c) % M = (stall_cnt + s + c) % M
    <2>1. CASE s = 1
      BY <1>0, <1>1, <2>1, IncAlike
    <2>2. CASE s = 0
      <3>1. stall_cnt' + c = stall_cnt + s + c
        BY <1>0, <1>1, <2>2
      <3>2. QED
        BY <3>1, Zenon
    <2>3. QED
      BY <2>1, <2>2
  <1>5. ASSUME NEW c \in Nat PROVE (2 * jumps' + c) % M = (2 * jumps + 2 * j + c) % M
    <2>1. CASE j = 1
      <3>1. (2 * Inc(jumps) + c) % M = (2 * jumps + 2 + c) % M
        BY <1>0, IncAlike
      <3>2. QED
        BY <1>0, <1>1, <2>1, <3>1
    <2>2. CASE j = 0
      <3>1. 2 * jumps' + c = 2 * jumps + 2 * j + c
        BY <1>0, <1>1, <2>2
      <3>2. QED
        BY <3>1, Zenon
    <2>3. QED
      BY <2>1, <2>2
  <1> HIDE DEF M
  <1>6. (instr_cnt' + 4 + stall_cnt' + 2 * jumps') % M
          = (instr_cnt + e + 4 + stall_cnt' + 2 * jumps') % M
    <2> DEFINE c == 4 + stall_cnt' + 2 * jumps'
    <2>1. c \in Nat
      BY <1>2
    <2>2. /\ instr_cnt' + 4 + stall_cnt' + 2 * jumps' = instr_cnt' + c
          /\ instr_cnt + e + 4 + stall_cnt' + 2 * jumps' = instr_cnt + e + c
      BY <1>0, <1>2
    <2> HIDE DEF c
    <2>3. QED
      BY <1>3, <2>1, <2>2, Zenon
  <1>7. (instr_cnt + e + 4 + stall_cnt' + 2 * jumps') % M
          = (instr_cnt + e + 4 + stall_cnt + s + 2 * jumps') % M
    <2> DEFINE c == instr_cnt + e + 4 + 2 * jumps'
    <2>1. c \in Nat
      BY <1>0, <1>2
    <2>2. /\ instr_cnt + e + 4 + stall_cnt' + 2 * jumps' = stall_cnt' + c
          /\ instr_cnt + e + 4 + stall_cnt + s + 2 * jumps' = stall_cnt + s + c
      BY <1>0, <1>2
    <2> HIDE DEF c
    <2>3. QED
      BY <1>4, <2>1, <2>2, Zenon
  <1>8. (instr_cnt + e + 4 + stall_cnt + s + 2 * jumps') % M
          = (instr_cnt + 4 + stall_cnt + 2 * jumps + (e + s + 2 * j)) % M
    <2> DEFINE c == instr_cnt + e + 4 + stall_cnt + s
    <2>1. c \in Nat
      BY <1>0
    <2>2. /\ instr_cnt + e + 4 + stall_cnt + s + 2 * jumps' = 2 * jumps' + c
          /\ instr_cnt + 4 + stall_cnt + 2 * jumps + (e + s + 2 * j) = 2 * jumps + 2 * j + c
      BY <1>0, <1>2
    <2> HIDE DEF c
    <2>3. QED
      BY <1>5, <2>1, <2>2, Zenon
  <1>9. QED
    BY <1>6, <1>7, <1>8, Zenon DEF M

(* A filled EX has a filled ID behind it, so that a jump makes two bubbles. *)
FrontFilled == Valid(id_ex) => Valid(if_id)

(* The bubble in a stage, 1 if it holds one. *)
Gap(stage) == IF Valid(stage) THEN 0 ELSE 1

(* The invariant behind CyclesAccountedFor. *)
PerfInv ==
  /\ TypeOK
  /\ jumps \in 0 .. CounterMod - 1
  /\ FrontFilled
  /\ CyclesAccountedFor

(* At reset the pipeline holds four bubbles and every counter is 0.        *)
LEMMA PerfInitInv == PerfInit => PerfInv
  <1> SUFFICES ASSUME PerfInit PROVE PerfInv
    OBVIOUS
  <1>1. ~Valid(if_id) /\ ~Valid(id_ex) /\ ~Valid(ex_mem) /\ ~Valid(mem_wb)
    BY DEF PerfInit, Init, Valid, IfIdReset, IdExReset, ExMemReset, MemWbReset
  <1>2. BubblesInFlight = 4
    BY <1>1 DEF BubblesInFlight
  <1>3. cycle_cnt + BubblesInFlight = instr_cnt + 4 + stall_cnt + 2 * jumps
    BY <1>2 DEF PerfInit, Init
  <1>4. CyclesAccountedFor
    BY <1>3, Zenon DEF CyclesAccountedFor
  <1>5. jumps \in 0 .. CounterMod - 1
    BY StateAssumption DEF PerfInit
  <1>6. QED
    BY <1>1, <1>4, <1>5, InitTypeOK DEF PerfInv, FrontFilled, PerfInit

(* A clock edge moves the bubbles on: it adds one for a stall, two for a   *)
(* jump, and takes out the one in WB.                                      *)
LEMMA BubblesStep ==
  ASSUME TypeOK, ResetNotNOP, FrontFilled, Clock,
         NEW e \in {0, 1}, NEW s \in {0, 1}, NEW j \in {0, 1},
         e = 1 <=> wb_valid, s = 1 <=> load_use, j = 1 <=> ex_branch_taken
  PROVE  /\ BubblesInFlight \in Nat /\ BubblesInFlight' \in Nat
         /\ 1 + BubblesInFlight' = BubblesInFlight + (e + s + 2 * j)
         /\ FrontFilled'
  <1>1. /\ BubblesInFlight = Gap(if_id) + Gap(id_ex) + Gap(ex_mem) + Gap(mem_wb)
        /\ BubblesInFlight' = Gap(if_id)' + Gap(id_ex)' + Gap(ex_mem)' + Gap(mem_wb)'
    BY DEF BubblesInFlight, Gap
  <1>2. Gap(mem_wb)' = Gap(ex_mem) /\ Gap(ex_mem)' = Gap(id_ex)
    BY DEF Clock, MemWbEdge, ExMemEdge, Gap, Valid
  <1>3. /\ Gap(if_id) \in {0, 1} /\ Gap(id_ex) \in {0, 1}
        /\ Gap(ex_mem) \in {0, 1} /\ Gap(mem_wb) \in {0, 1}
        /\ e = 1 - Gap(mem_wb)
    BY DEF Gap, wb_valid
  <1>4. CASE ex_branch_taken
    <2>1. ~load_use /\ Valid(id_ex)
      BY <1>4, StallExcludesJump, BubbleIsIdle
    <2>2. Gap(if_id)' = 1 /\ Gap(id_ex)' = 1
      BY <1>4 DEF Clock, IfIdEdge, IdExEdge, flush_if_id, flush_id_ex,
                  IfIdReset, IdExReset, Gap, Valid
    <2>3. Gap(if_id) = 0 /\ Gap(id_ex) = 0
      BY <2>1 DEF FrontFilled, Gap
    <2>4. FrontFilled'
      BY <2>2 DEF FrontFilled, Gap
    <2>5. s = 0 /\ j = 1
      BY <1>4, <2>1
    <2>6. QED
      BY <1>1, <1>2, <1>3, <2>2, <2>3, <2>4, <2>5
  <1>5. CASE load_use
    <2>1. ~ex_branch_taken
      BY <1>5, StallExcludesJump
    <2>2. Gap(if_id)' = Gap(if_id) /\ Gap(id_ex)' = 1
      BY <1>5, <2>1 DEF Clock, IfIdEdge, IdExEdge, flush_if_id, flush_id_ex, stall_id,
                        IdExReset, Gap, Valid
    <2>3. Gap(id_ex) = 0
      BY <1>5, BubbleIsIdle DEF Gap
    <2>4. FrontFilled'
      BY <2>2 DEF FrontFilled, Gap
    <2>5. s = 1 /\ j = 0
      BY <1>5, <2>1
    <2>6. QED
      BY <1>1, <1>2, <1>3, <2>2, <2>3, <2>4, <2>5
  <1>6. CASE ~ex_branch_taken /\ ~load_use
    <2>1. Gap(if_id)' = 0 /\ Valid(if_id)'
      BY <1>6, FetchedIsValid DEF Gap
    <2>2. Gap(id_ex)' = Gap(if_id)
      BY <1>6 DEF Clock, IdExEdge, flush_id_ex, Gap, Valid
    <2>3. FrontFilled'
      BY <2>1 DEF FrontFilled
    <2>4. s = 0 /\ j = 0
      BY <1>6
    <2>5. QED
      BY <1>1, <1>2, <1>3, <2>1, <2>2, <2>3, <2>4
  <1>7. QED
    BY <1>4, <1>5, <1>6

(* Every cycle counts: a clock edge keeps the balance of the counters.     *)
LEMMA PerfStep ==
  ASSUME PerfInv, ResetNotNOP, [PerfNext]_PerfVars
  PROVE  PerfInv'
  <1>1. CASE UNCHANGED PerfVars
    BY <1>1 DEF PerfInv, PerfVars, vars, TypeOK, FrontFilled, CyclesAccountedFor,
                BubblesInFlight, Valid
  <1>2. CASE PerfNext
    <2> DEFINE M == CounterMod
               e == IF wb_valid THEN 1 ELSE 0
               s == IF load_use THEN 1 ELSE 0
               j == IF ex_branch_taken THEN 1 ELSE 0
               k == e + s + 2 * j
               x == cycle_cnt + BubblesInFlight
               y == instr_cnt + 4 + stall_cnt + 2 * jumps
    <2>0. /\ TypeOK /\ jumps \in 0 .. M - 1 /\ FrontFilled /\ M \in Nat \ {0}
          /\ Clock /\ CounterEdge /\ TypeOK'
          /\ jumps' = IF ex_branch_taken THEN Inc(jumps) ELSE jumps
      BY <1>2, ClockTypeOK, StateAssumption DEF PerfInv, PerfNext, Clock
    <2>1. /\ e \in {0, 1} /\ s \in {0, 1} /\ j \in {0, 1}
          /\ (e = 1 <=> wb_valid) /\ (s = 1 <=> load_use) /\ (j = 1 <=> ex_branch_taken)
      OBVIOUS
    <2>2. ~(load_use /\ ex_branch_taken)
      BY StallExcludesJump
    <2>3. k \in 0 .. 3
      BY <2>2
    <2> HIDE DEF e, s, j
    <2>4. (instr_cnt' + 4 + stall_cnt' + 2 * jumps') % M = (y + k) % M
      BY <2>0, <2>1, CountersStep
    <2>5. /\ BubblesInFlight \in Nat /\ BubblesInFlight' \in Nat
          /\ 1 + BubblesInFlight' = BubblesInFlight + k
          /\ FrontFilled'
      BY <2>0, <2>1, BubblesStep
    <2>6. (cycle_cnt' + BubblesInFlight') % M = (x + k) % M
      <3>1. cycle_cnt \in 0 .. M - 1 /\ cycle_cnt' = Inc(cycle_cnt)
        BY <2>0 DEF TypeOK, CounterEdge
      <3>2. (Inc(cycle_cnt) + BubblesInFlight') % M = (cycle_cnt + 1 + BubblesInFlight') % M
        BY <2>5, <3>1, IncAlike
      <3>3. cycle_cnt + 1 + BubblesInFlight' = x + k
        BY <2>3, <2>5, <3>1
      <3> HIDE DEF x, k, M
      <3>4. QED
        BY <3>1, <3>2, <3>3, Zenon
    <2>7. x \in Nat /\ y \in Nat
      BY <2>0, <2>5 DEF TypeOK
    <2>8. x % M = y % M
      BY DEF PerfInv, CyclesAccountedFor
    <2>9. jumps' \in 0 .. M - 1
      BY <2>0, IncType
    <2> HIDE DEF x, y, k, M
    <2>10. (x + k) % M = (y + k) % M
      <3>1. CASE k = 0
        BY <2>7, <2>8, <3>1
      <3>2. CASE k # 0
        <4>1. k \in {1, 2, 3} /\ M \in Nat \ {0}
          BY <2>0, <2>3, <3>2
        <4>2. /\ (x + 1) % M = (y + 1) % M /\ (x + 2) % M = (y + 2) % M
              /\ (x + 3) % M = (y + 3) % M
          BY <2>7, <2>8, <4>1, AddAlike
        <4>3. QED
          BY <4>1, <4>2, Zenon
      <3>3. QED
        BY <3>1, <3>2
    <2>11. CyclesAccountedFor'
      BY <2>4, <2>6, <2>10, Zenon DEF CyclesAccountedFor, M
    <2>12. QED
      BY <2>0, <2>5, <2>9, <2>11 DEF PerfInv, M
  <1>3. QED
    BY <1>1, <1>2

(* Every cycle of every program commits an instruction or carries a bubble *)
(* of reset, of a stall or of a jump to WB, while the instruction at the   *)
(* reset vector is not the one that looks like a bubble (top_cpu.v:335).   *)
THEOREM CountersExplained ==
  PerfSpec /\ []ResetNotNOP => []CyclesAccountedFor
  <1>1. PerfInv /\ ResetNotNOP /\ [PerfNext]_PerfVars => PerfInv'
    BY PerfStep
  <1>2. PerfInv => CyclesAccountedFor
    BY DEF PerfInv
  <1>3. QED
    BY <1>1, <1>2, PerfInitInv, PTL DEF PerfSpec
=============================================================================
