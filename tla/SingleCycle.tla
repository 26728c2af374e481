---------------------------- MODULE SingleCycle ----------------------------
(***************************************************************************)
(* rv32-single-cycle-cpu-escaper: the whole instruction in one clock       *)
(* cycle.  It is the reference the pipelined core is compared with.        *)
(***************************************************************************)
EXTENDS RV32I

VARIABLES
  pc,         \* pc_update.PC_o
  regfile,    \* decode.regfile
  pmem,       \* the memory behind dpi_mem_read and dpi_mem_write
  cycle_cnt,  \* top_cpu performance counters
  instr_cnt

vars == <<pc, regfile, pmem, cycle_cnt, instr_cnt>>

TypeOK ==
  /\ pc \in Word
  /\ regfile \in [Reg -> Word]
  /\ pmem \in Mem
  /\ cycle_cnt \in 0 .. CounterMod - 1
  /\ instr_cnt \in 0 .. CounterMod - 1

(* The state after the reset cycle, whatever image is in memory. *)
Init ==
  /\ pc = ResetPC
  /\ regfile = [r \in Reg |-> WordZero]
  /\ pmem \in Mem
  /\ cycle_cnt = 0
  /\ instr_cnt = 0

(* execute.branch_taken_o: the branch condition only *)
BranchTaken(i, a, b) == i.op = "BRANCH" /\ BranchCond(i.fn, a, b)

(* pc_update.new_PC *)
NextPC(i, p, a, b) ==
  CASE i.op = "JAL"    -> Add(p, i.imm)
    [] i.op = "JALR"   -> Even(Add(a, i.imm))
    [] i.op = "BRANCH" -> IF BranchTaken(i, a, b) THEN Add(p, i.imm) ELSE Plus4(p)
    [] OTHER           -> Plus4(p)

(* One rising edge of clk with rst low. *)
Clock ==
  LET i   == Fetch(pmem, pc)
      a   == ReadReg(regfile, i.rs1)
      b   == ReadReg(regfile, i.rs2)
      alu == AluResult(i, pc, a, b)
  IN  /\ pc' = NextPC(i, pc, a, b)
      /\ regfile' = RegsAfter(i, regfile, WrData(i, pc, alu, LoadData(i, pmem, alu)))
      /\ pmem' = MemAfter(i, pmem, alu, b)
      /\ cycle_cnt' = Inc(cycle_cnt)
      /\ instr_cnt' = Inc(instr_cnt)

Next == Clock

Spec == Init /\ [][Next]_vars
=============================================================================
