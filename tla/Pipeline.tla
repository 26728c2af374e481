------------------------------ MODULE Pipeline ------------------------------
(***************************************************************************)
(* rv32-pipeline-cpu-new: IF -> ID -> EX -> MEM -> WB with forwarding into *)
(* EX, a one-cycle stall for load-use and a flush of two stages for a      *)
(* taken jump.  One Clock step is one rising edge of clk with rst low: the *)
(* wires are operators over the registers, and each register has one       *)
(* operator for its always block.                                          *)
(*                                                                         *)
(* A pipeline register keeps pc and instr; the opcode, rd, rs1, rs2,       *)
(* funct and imm registers of the source are always the fields of that     *)
(* instr (the reset values are the fields of NOP), and pc_plus4 is always  *)
(* Plus4(pc).                                                              *)
(***************************************************************************)
EXTENDS RV32I

VARIABLES
  pc,         \* fetch_pipe.PC
  if_id,      \* if_id_reg
  id_ex,      \* id_ex_reg
  ex_mem,     \* ex_mem_reg
  mem_wb,     \* mem_wb_reg
  regfile,    \* decode_pipe.regfile
  pmem,       \* the memory behind the DPI calls
  cycle_cnt,  \* top_cpu performance counters
  instr_cnt,
  stall_cnt

vars == <<pc, if_id, id_ex, ex_mem, mem_wb, regfile, pmem,
          cycle_cnt, instr_cnt, stall_cnt>>

TypeOK ==
  /\ pc \in Word
  /\ if_id \in [pc : Word, instr : Instr]
  /\ id_ex \in [pc : Word, instr : Instr, rs1_data : Word, rs2_data : Word]
  /\ ex_mem \in [pc : Word, instr : Instr, alu_result : Word, rs2_data : Word,
                 next_pc : Word]
  /\ mem_wb \in [pc : Word, instr : Instr, alu_result : Word, mem_data : Word,
                 next_pc : Word]
  /\ regfile \in [Reg -> Word]
  /\ pmem \in Mem
  /\ cycle_cnt \in 0 .. CounterMod - 1
  /\ instr_cnt \in 0 .. CounterMod - 1
  /\ stall_cnt \in 0 .. CounterMod - 1

-----------------------------------------------------------------------------
(* What rst (and, for the first two, flush) loads into the registers. *)
IfIdReset == [pc |-> ResetPC, instr |-> NOP]

IdExReset == [pc |-> ResetPC, instr |-> NOP,
              rs1_data |-> WordZero, rs2_data |-> WordZero]

ExMemReset == [pc |-> ResetPC, instr |-> NOP, alu_result |-> WordZero,
               rs2_data |-> WordZero, next_pc |-> Plus4(ResetPC)]

MemWbReset == [pc |-> ResetPC, instr |-> NOP, alu_result |-> WordZero,
               mem_data |-> WordZero, next_pc |-> Plus4(ResetPC)]

(* The state after the reset cycle, with a program loaded. *)
Init ==
  /\ pc = ResetPC
  /\ if_id = IfIdReset
  /\ id_ex = IdExReset
  /\ ex_mem = ExMemReset
  /\ mem_wb = MemWbReset
  /\ regfile = [r \in Reg |-> WordZero]
  /\ pmem \in Images
  /\ cycle_cnt = 0
  /\ instr_cnt = 0
  /\ stall_cnt = 0

-----------------------------------------------------------------------------
(* WB: write_back_pipe and the commit signals *)

wb_reg_wr_en == RegWrEn(mem_wb.instr)

wb_wr_data ==
  WrData(mem_wb.instr, mem_wb.pc, mem_wb.alu_result, mem_wb.mem_data)

(* A stage is taken for a bubble by its contents: a NOP at the reset       *)
(* vector.                                                                 *)
Valid(stage) == stage.instr # NOP \/ stage.pc # ResetPC

wb_valid == Valid(mem_wb)

(* MEM: memory_access_pipe *)

mem_mem_data == LoadData(ex_mem.instr, pmem, ex_mem.alu_result)

(* Faulty variant: stores and branches count as register writes. *)
AnyRdWrites == ex_mem.instr.rd # x0

mem_reg_wr_en ==
  /\ ex_mem.instr.rd # x0
  /\ ex_mem.instr.op \notin {"STORE", "BRANCH", "FENCE", "SYSTEM"}

(* EX: hazard_unit forwarding, execute_pipe *)

(* Faulty variant: the older result wins. *)
WbFirst(r) ==
  IF wb_reg_wr_en /\ mem_wb.instr.rd # x0 /\ mem_wb.instr.rd = r THEN "WB"
  ELSE IF mem_reg_wr_en /\ ex_mem.instr.rd # x0 /\ ex_mem.instr.rd = r THEN "MEM"
  ELSE "ID"

(* forward_a, forward_b: where the value of source register r comes from *)
Forward(r) ==
  IF mem_reg_wr_en /\ ex_mem.instr.rd # x0 /\ ex_mem.instr.rd = r THEN "MEM"
  ELSE IF wb_reg_wr_en /\ mem_wb.instr.rd # x0 /\ mem_wb.instr.rd = r THEN "WB"
  ELSE "ID"

(* The forwarding multiplexer; MEM forwards mem_wr_data = mem_alu_result. *)
Operand(r, from_id) ==
  CASE Forward(r) = "MEM" -> ex_mem.alu_result
    [] Forward(r) = "WB"  -> wb_wr_data
    [] OTHER              -> from_id

rs1_val == Operand(id_ex.instr.rs1, id_ex.rs1_data)

rs2_val == Operand(id_ex.instr.rs2, id_ex.rs2_data)

ex_alu_result == AluResult(id_ex.instr, id_ex.pc, rs1_val, rs2_val)

ex_branch_taken ==
  \/ id_ex.instr.op \in {"JAL", "JALR"}
  \/ id_ex.instr.op = "BRANCH" /\ BranchCond(id_ex.instr.fn, rs1_val, rs2_val)

ex_pc_target ==
  CASE id_ex.instr.op \in {"JAL", "BRANCH"} -> Add(id_ex.pc, id_ex.instr.imm)
    [] id_ex.instr.op = "JALR" -> Even(Add(rs1_val, id_ex.instr.imm))
    [] OTHER -> Plus4(id_ex.pc)

(* Faulty variant: the target never reaches the commit signals. *)
NextPCIgnoresJump == Plus4(id_ex.pc)

ex_next_pc == IF ex_branch_taken THEN ex_pc_target ELSE Plus4(id_ex.pc)

(* ID: decode_pipe; the read port sees the value WB is about to write *)
ReadPort(r) ==
  IF r = x0 THEN WordZero
  ELSE IF wb_reg_wr_en /\ mem_wb.instr.rd = r THEN wb_wr_data
  ELSE regfile[r]

(* Faulty variant: only the first source register is compared. *)
LoadUseRs1Only ==
  /\ id_ex.instr.op = "LOAD"
  /\ id_ex.instr.rd # x0
  /\ id_ex.instr.rd = if_id.instr.rs1

(* Faulty variant: only the register numbers are compared. *)
LoadUseFieldsOnly == id_ex.instr.rd \in {if_id.instr.rs1, if_id.instr.rs2}

(* hazard_unit: stall and flush *)
load_use ==
  /\ id_ex.instr.op = "LOAD"
  /\ id_ex.instr.rd # x0
  /\ id_ex.instr.rd \in {if_id.instr.rs1, if_id.instr.rs2}

stall_if == load_use

stall_id == load_use

(* Faulty variant: a jump keeps flushing while it is in MEM. *)
FlushTwice == ex_branch_taken \/ ex_mem.instr.op \in {"JAL", "JALR"}

flush_if_id == ex_branch_taken

flush_id_ex == ex_branch_taken \/ load_use

-----------------------------------------------------------------------------
(* The rising edge, one operator per register. *)

FetchEdge ==
  pc' = IF stall_if THEN pc
        ELSE IF ex_branch_taken THEN ex_pc_target ELSE Plus4(pc)

IfIdEdge ==
  if_id' = IF flush_if_id THEN IfIdReset
           ELSE IF stall_id THEN if_id
           ELSE [pc |-> pc, instr |-> Fetch(pmem, pc)]

IdExEdge ==
  id_ex' = IF flush_id_ex THEN IdExReset
           ELSE [pc |-> if_id.pc, instr |-> if_id.instr,
                 rs1_data |-> ReadPort(if_id.instr.rs1),
                 rs2_data |-> ReadPort(if_id.instr.rs2)]

ExMemEdge ==
  ex_mem' = [pc |-> id_ex.pc, instr |-> id_ex.instr,
             alu_result |-> ex_alu_result, rs2_data |-> rs2_val,
             next_pc |-> ex_next_pc]

MemWbEdge ==
  mem_wb' = [pc |-> ex_mem.pc, instr |-> ex_mem.instr,
             alu_result |-> ex_mem.alu_result, mem_data |-> mem_mem_data,
             next_pc |-> ex_mem.next_pc]

RegfileEdge == regfile' = RegsAfter(mem_wb.instr, regfile, wb_wr_data)

PmemEdge ==
  pmem' = MemAfter(ex_mem.instr, pmem, ex_mem.alu_result, ex_mem.rs2_data)

(* Faulty variant: every cycle without a stall counts as an instruction. *)
CountUnlessStalled ==
  /\ cycle_cnt' = Inc(cycle_cnt)
  /\ instr_cnt' = IF stall_if THEN instr_cnt ELSE Inc(instr_cnt)
  /\ stall_cnt' = IF stall_if THEN Inc(stall_cnt) ELSE stall_cnt

CounterEdge ==
  /\ cycle_cnt' = Inc(cycle_cnt)
  /\ instr_cnt' = IF wb_valid THEN Inc(instr_cnt) ELSE instr_cnt
  /\ stall_cnt' = IF stall_if THEN Inc(stall_cnt) ELSE stall_cnt

Clock ==
  /\ FetchEdge
  /\ IfIdEdge
  /\ IdExEdge
  /\ ExMemEdge
  /\ MemWbEdge
  /\ RegfileEdge
  /\ PmemEdge
  /\ CounterEdge

Next == Clock

Spec == Init /\ [][Next]_vars

-----------------------------------------------------------------------------
(***************************************************************************)
(* What the programmer sees.  An instruction counts as executed when it    *)
(* leaves MEM: its store is then in memory and its register write is in    *)
(* the register file or on the write-back wires.                           *)
(***************************************************************************)
ArchRegs == RegsAfter(mem_wb.instr, regfile, wb_wr_data)

(* The oldest instruction that has not been executed. *)
ArchPC ==
  CASE Valid(ex_mem) -> ex_mem.pc
    [] ~Valid(ex_mem) /\ Valid(id_ex) -> id_ex.pc
    [] ~Valid(ex_mem) /\ ~Valid(id_ex) /\ Valid(if_id) -> if_id.pc
    [] OTHER -> pc

Retired == IF wb_valid THEN Inc(instr_cnt) ELSE instr_cnt

SC == INSTANCE SingleCycle
        WITH pc <- ArchPC, regfile <- ArchRegs, pmem <- pmem,
             cycle_cnt <- Retired, instr_cnt <- Retired

(* The pipeline executes the program as the single-cycle core does: every  *)
(* clock edge either retires one instruction with exactly the effect it    *)
(* has there, or changes nothing the programmer sees (top_cpu.v:7-9).      *)
ImplementsSingleCycle == SC!Spec

(* What the environment must grant: no store changes an instruction        *)
(* (FENCE.I is a no-op and fetched instructions are not checked again).    *)
TextStable == \A a \in Word : Fetch(pmem', a) = Fetch(pmem, a)

(* Every instruction is one the core decodes: for any other opcode, MEM    *)
(* forwards a result that WB does not write (top_cpu.v:252-261).           *)
KnownOpcodes == \A i \in Instr : i.op # "OTHER"

(* The first instruction is not mistaken for a bubble (top_cpu.v:335).     *)
ResetNotNOP == Fetch(pmem, ResetPC) # NOP

(* The commit_next_pc of a commit is the next instruction to execute, even *)
(* when younger stages were flushed or stalled meanwhile: difftest         *)
(* compares it with the reference's pc (top_cpu.v:226, 358).               *)
CommitNextPC == wb_valid => mem_wb.next_pc = ArchPC

(* MEM forwards alu_result, which for a load is the address: a load must   *)
(* never sit in MEM while EX needs its result (top_cpu.v:181-185).         *)
NoLoadForwarding ==
  \A r \in {id_ex.instr.rs1, id_ex.instr.rs2} :
    Forward(r) = "MEM" => ex_mem.instr.op # "LOAD"

(* At most two bubbles reach WB between two commits: one for a load-use    *)
(* stall, two for a taken jump, never both for one instruction.            *)
BubblesBounded ==
  Valid(mem_wb) => Valid(ex_mem) \/ Valid(id_ex) \/ Valid(if_id)

(* The core never stops committing. *)
KeepsCommitting == []<>wb_valid
-----------------------------------------------------------------------------
(***************************************************************************)
(* The inductive invariant behind ImplementsSingleCycle.                   *)
(***************************************************************************)

(* Where fetching continues on the path the pipeline is following. *)
FrontPC == IF Valid(if_id) THEN if_id.pc ELSE pc

(* The register file as the instruction in EX must see it. *)
RegsAfterMem ==
  RegsAfter(ex_mem.instr, ArchRegs,
            WrData(ex_mem.instr, ex_mem.pc, ex_mem.alu_result, mem_mem_data))

(* The instructions in flight are those of the program text. *)
FetchedOK ==
  /\ ResetNotNOP
  /\ Valid(if_id) => if_id.instr = Fetch(pmem, if_id.pc)
  /\ Valid(id_ex) => id_ex.instr = Fetch(pmem, id_ex.pc)
  /\ Valid(ex_mem) => ex_mem.instr = Fetch(pmem, ex_mem.pc)

(* Each stage holds the successor of the stage ahead of it; EX's successor *)
(* is guessed to be the following instruction until the jump is resolved.  *)
PathOK ==
  /\ Valid(if_id) => pc = Plus4(if_id.pc)
  /\ Valid(id_ex) => FrontPC = Plus4(id_ex.pc)
  /\ Valid(ex_mem) =>
       ex_mem.next_pc = IF Valid(id_ex) THEN id_ex.pc ELSE FrontPC

(* The values in MEM are what the instruction computes from the            *)
(* architectural state.                                                    *)
MemStageOK ==
  LET i == ex_mem.instr
      a == ReadReg(ArchRegs, i.rs1)
      b == ReadReg(ArchRegs, i.rs2)
  IN  Valid(ex_mem) =>
        /\ ex_mem.alu_result = AluResult(i, ex_mem.pc, a, b)
        /\ ex_mem.rs2_data = b
        /\ ex_mem.next_pc = SC!NextPC(i, ex_mem.pc, a, b)

(* The operands the forwarding multiplexers give EX are those the older    *)
(* instructions leave in the register file.                                *)
OperandsOK ==
  Valid(id_ex) =>
    /\ rs1_val = ReadReg(RegsAfterMem, id_ex.instr.rs1)
    /\ rs2_val = ReadReg(RegsAfterMem, id_ex.instr.rs2)

PipelineInv ==
  /\ TypeOK
  /\ FetchedOK
  /\ PathOK
  /\ MemStageOK
  /\ OperandsOK
=============================================================================
