----------------------------- MODULE Simulator ------------------------------
(***************************************************************************)
(* The simulator around the pipelined core: the execute loop, which clocks *)
(* the core from commit to commit, traces every committed instruction and  *)
(* lets a reference model (a shared library) execute one instruction per   *)
(* commit to compare with.                                                 *)
(***************************************************************************)
EXTENDS Pipeline

CONSTANTS
  EBREAK,            \* inst_ebreak
  CsrInstrs,         \* SYSTEM instructions that access a CSR (func3 # 0)
  TimerReads,        \* those of them whose csr_id is timer
  a0,                \* the register that holds a program's exit code
  TraceStart,        \* CONFIG_INSTR_TRACE_START
  ITRACE_POOL_SIZE

ASSUME SimulatorAssumption ==
  /\ EBREAK \in Instr
  /\ EBREAK.op = "SYSTEM"
  /\ CsrInstrs \subseteq {i \in Instr \ {EBREAK} : i.op = "SYSTEM"}
  /\ TimerReads \subseteq CsrInstrs
  /\ a0 \in Reg
  /\ TraceStart \in Nat
  /\ ITRACE_POOL_SIZE \in Nat \ {0}

VARIABLES
  status,           \* "running", "diff_error", or why sim_exit was called
  ref,              \* registers, csr and memory of the reference
  sim_instr_count,
  commit,           \* the last commit_t: pc, next_pc, instr
  itrace_pool, itrace_ptr, pool_full

simVars == <<vars, status, ref, sim_instr_count, commit,
             itrace_pool, itrace_ptr, pool_full>>

ZeroCommit == [pc |-> WordZero, next_pc |-> WordZero, instr |-> NOP]

IT == INSTANCE InstrTrace
        WITH TraceEntry <- [pc : Word, instr : Instr],
             ZeroEntry <- [pc |-> WordZero, instr |-> NOP]

SimTypeOK ==
  /\ TypeOK
  /\ status \in {"running", "diff_error", "exit_ebreak", "exit_diff"}
  /\ ref \in [pc : Word, gpr : [Reg -> Word], pmem : Mem, csr : Word]
  /\ sim_instr_count \in 0 .. CounterMod - 1
  /\ commit \in [pc : Word, next_pc : Word, instr : Instr]
  /\ IT!TraceTypeOK

(* npc_reset, then init_difftest copies image and registers to the         *)
(* reference.                                                              *)
SimInit ==
  /\ Init
  /\ status = "running"
  /\ ref = [pc |-> pc, gpr |-> regfile, pmem |-> pmem, csr |-> WordZero]
  /\ sim_instr_count = 0
  /\ commit = ZeroCommit
  /\ IT!Init

-----------------------------------------------------------------------------
(* ref_difftest_exec(1): the reference executes the instruction at its pc  *)
(* as the single-cycle core does, and CSR instructions as well.  One CSR   *)
(* stands for all of them; csr_val is what a CSR instruction reads.        *)
RefInstr(s) == Fetch(s.pmem, s.pc)

RefRs1(s) == ReadReg(s.gpr, RefInstr(s).rs1)

RefRs2(s) == ReadReg(s.gpr, RefInstr(s).rs2)

RefAlu(s) == AluResult(RefInstr(s), s.pc, RefRs1(s), RefRs2(s))

RefPC(s) == SC!NextPC(RefInstr(s), s.pc, RefRs1(s), RefRs2(s))

RefRegs(s) ==
  RegsAfter(RefInstr(s), s.gpr,
            WrData(RefInstr(s), s.pc, RefAlu(s), LoadData(RefInstr(s), s.pmem, RefAlu(s))))

RefMem(s) == MemAfter(RefInstr(s), s.pmem, RefAlu(s), RefRs2(s))

RefExec(s, csr_val) ==
  [pc   |-> RefPC(s),
   gpr  |-> IF RefInstr(s) \in CsrInstrs /\ RefInstr(s).rd # x0
            THEN [s.gpr EXCEPT ![RefInstr(s).rd] = csr_val]
            ELSE RefRegs(s),
   pmem |-> RefMem(s),
   csr  |-> IF RefInstr(s) \in CsrInstrs \ TimerReads THEN RefRs1(s) ELSE s.csr]

(* The timer can read as anything; the other CSR as what was written. *)
CsrValues(s) == IF RefInstr(s) \in TimerReads THEN Word ELSE {s.csr}

(* Faulty variant: no instruction is special. *)
NeverSpecial(c) == FALSE

(* mem_addr is always 0, outside the MMIO window, so that a load or store  *)
(* is never special: only a read of the timer is.                          *)
is_special_instr(c) == c.instr \in TimerReads

(* The DUT overrides the reference after a special instruction. *)
AfterSpecial(c, s, cpu) ==
  IF is_special_instr(c)
  THEN [s EXCEPT !.pc = c.next_pc, !.gpr = cpu.gpr, !.csr = cpu.csr]
  ELSE s

check_inst_trigger(n) == n >= TraceStart

RegsDiffer(c, s, cpu) ==
  \/ c.next_pc # s.pc
  \/ \E r \in Reg : s.gpr[r] # cpu.gpr[r]

(* The enumerator instret is nonzero, so that every CSR is skipped. *)
CsrSkipped(id) == id = "cycle" \/ id = "timer" \/ 3074 # 0

CsrsDiffer(s, cpu) ==
  \E id \in {"cycle", "timer", "instret", "mtvec"} :
    ~CsrSkipped(id) /\ s.csr # cpu.csr

Differs(c, s, cpu) == RegsDiffer(c, s, cpu) \/ CsrsDiffer(s, cpu)

-----------------------------------------------------------------------------
(* The while loop: clock the core until it commits. *)
WaitForCommit ==
  /\ status = "running"
  /\ ~wb_valid
  /\ Clock
  /\ UNCHANGED <<status, ref, sim_instr_count, commit,
                 itrace_pool, itrace_ptr, pool_full>>

(* Faulty variant: the commit signals are read after the clock edge. *)
LateCommitInfo ==
  [pc |-> mem_wb'.pc, next_pc |-> mem_wb'.next_pc, instr |-> mem_wb'.instr]

get_commit_info ==
  [pc |-> mem_wb.pc, next_pc |-> mem_wb.next_pc, instr |-> mem_wb.instr]

(* The simulator leaves after one more clock cycle; the counters it prints *)
(* are those of the state it leaves in.                                    *)
sim_exit(why) ==
  /\ Clock
  /\ status' = why

(* check_ebreak *)
HitEbreak ==
  /\ status = "running"
  /\ wb_valid
  /\ mem_wb.instr = EBREAK
  /\ sim_exit("exit_ebreak")
  /\ commit' = get_commit_info
  /\ UNCHANGED <<ref, sim_instr_count, itrace_pool, itrace_ptr, pool_full>>

(* update_cpu_state; no instruction of the core writes csrfile. *)
update_cpu_state == [gpr |-> regfile', csr |-> WordZero]

(* Faulty variant: the trace is taken only once difftest agrees. *)
TraceAfterDifftest ==
  LET cpu == update_cpu_state IN
  /\ status = "running"
  /\ wb_valid
  /\ mem_wb.instr # EBREAK
  /\ Clock
  /\ commit' = get_commit_info
  /\ sim_instr_count' = Inc(sim_instr_count)
  /\ \E v \in CsrValues(ref) : ref' = AfterSpecial(commit', RefExec(ref, v), cpu)
  /\ status' = IF check_inst_trigger(sim_instr_count') /\ Differs(commit', ref', cpu)
               THEN "diff_error" ELSE "running"
  /\ IF check_inst_trigger(sim_instr_count') /\ status' = "running"
     THEN IT!instr_itrace([pc |-> commit'.pc, instr |-> commit'.instr])
     ELSE UNCHANGED <<itrace_pool, itrace_ptr, pool_full>>

(* The rest of an iteration of execute, with difftest_step. *)
ExecuteOne ==
  LET cpu == update_cpu_state IN
  /\ status = "running"
  /\ wb_valid
  /\ mem_wb.instr # EBREAK
  /\ Clock
  /\ commit' = get_commit_info
  /\ sim_instr_count' = Inc(sim_instr_count)
  /\ IF check_inst_trigger(sim_instr_count')
     THEN IT!instr_itrace([pc |-> commit'.pc, instr |-> commit'.instr])
     ELSE UNCHANGED <<itrace_pool, itrace_ptr, pool_full>>
  /\ \E v \in CsrValues(ref) : ref' = AfterSpecial(commit', RefExec(ref, v), cpu)
  /\ status' = IF check_inst_trigger(sim_instr_count') /\ Differs(commit', ref', cpu)
               THEN "diff_error" ELSE "running"

(* display_diff_error prints and ends in sim_exit. *)
ExitOnDifference ==
  /\ status = "diff_error"
  /\ sim_exit("exit_diff")
  /\ UNCHANGED <<ref, sim_instr_count, commit, itrace_pool, itrace_ptr, pool_full>>

SimNext == WaitForCommit \/ HitEbreak \/ ExecuteOne \/ ExitOnDifference

SimSpec == SimInit /\ [][SimNext]_simVars

-----------------------------------------------------------------------------
(* A program the core executes as the reference does is never stopped:     *)
(* commit_next_pc, read before the clock edge, and the registers, copied   *)
(* after it, are those of one and the same instruction, at every distance  *)
(* between commits (exec.c:42-51).                                         *)
NoFalseAlarm == status \notin {"diff_error", "exit_diff"}

(* The core's own count of instructions, which sim_exit prints, is the     *)
(* simulator's; after ebreak it counts the ebreak too, because sim_exit    *)
(* clocks the core once more before it reads the counter (sim.c:17-24).    *)
CountersAgree ==
  /\ status \in {"running", "diff_error"} => instr_cnt = sim_instr_count
  /\ status = "exit_ebreak" => instr_cnt = Inc(sim_instr_count)

(* When difftest stops the run, the line the trace marks is the            *)
(* instruction after which the difference showed: tracing comes before     *)
(* difftest_step (exec.c:50-51, difftest.c:62-63).                         *)
CulpritMarked ==
  status \in {"diff_error", "exit_diff"} =>
    itrace_pool[IT!last_idx] = [pc |-> commit.pc, instr |-> commit.instr]

(* A run that ends with "hit ebreak" is one whose program returned 0: the  *)
(* softtest target counts it as passed.                                    *)
PassMeansSuccess == status = "exit_ebreak" => regfile[a0] = WordZero

(* A CSR in which the core differs from the reference stops the run:       *)
(* checkcsrs reports CSRs that differ (difftest.c:87-90).                  *)
CsrsCompared ==
  status = "running" /\ check_inst_trigger(sim_instr_count) => ref.csr = WordZero

-----------------------------------------------------------------------------
(* The invariant behind NoFalseAlarm.  While a commit is on the wires the  *)
(* reference is one instruction behind the programmer's view of the core;  *)
(* otherwise the two are equal.                                            *)
RefInSync ==
  status = "running" =>
    IF wb_valid
    THEN /\ RefInstr(ref) = mem_wb.instr
         /\ RefPC(ref) = ArchPC
         /\ RefRegs(ref) = ArchRegs
         /\ RefMem(ref) = pmem
         /\ mem_wb.next_pc = ArchPC
    ELSE /\ ref.pc = ArchPC
         /\ ref.gpr = ArchRegs
         /\ ref.pmem = pmem

(* Core and reference stay in step, commit by commit.                      *)
SimInv == NoFalseAlarm /\ RefInSync
=============================================================================
