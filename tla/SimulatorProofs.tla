--------------------------- MODULE SimulatorProofs --------------------------
(***************************************************************************)
(* Difftest never stops a program the pipelined core can run, for every    *)
(* instruction set, data path, memory size and program.                    *)
(***************************************************************************)
EXTENDS Simulator, PipelineProofs

(* Every step of the simulator clocks the core or leaves it alone.         *)
LEMMA SimStepsClock == [SimNext]_simVars => [Next]_vars
  BY DEF SimNext, simVars, Next, WaitForCommit, HitEbreak, ExecuteOne, ExitOnDifference,
         sim_exit

(* What one clock edge does, in the terms of a reference that is equal to  *)
(* the programmer's view: if an instruction leaves MEM, it commits next,   *)
(* and the reference executes it to the same result.                       *)
LEMMA ClockAndReference ==
  ASSUME PipelineInv, Clock, NEW s,
         s.pc = ArchPC, s.gpr = ArchRegs, s.pmem = pmem
  PROVE  IF wb_valid'
         THEN /\ RefInstr(s) = mem_wb'.instr
              /\ RefPC(s) = ArchPC'
              /\ RefRegs(s) = ArchRegs'
              /\ RefMem(s) = pmem'
              /\ mem_wb'.next_pc = ArchPC'
         ELSE /\ s.pc = ArchPC'
              /\ s.gpr = ArchRegs'
              /\ s.pmem = pmem'
  <1>1. /\ wb_valid' <=> Valid(ex_mem)
        /\ mem_wb'.instr = ex_mem.instr
        /\ mem_wb'.next_pc = ex_mem.next_pc
    BY DEF Clock, MemWbEdge, wb_valid, Valid
  <1>2. CASE Valid(ex_mem)
    <2>1. SC!Clock
      BY <1>2, RetireStep
    <2>2. /\ RefPC(s) = ArchPC'
          /\ RefRegs(s) = ArchRegs'
          /\ RefMem(s) = pmem'
      BY <2>1, SameBlocks
      DEF SC!Clock, RefPC, RefRegs, RefMem, RefInstr, RefRs1, RefRs2, RefAlu
    <2>3. RefInstr(s) = ex_mem.instr
      BY <1>2 DEF RefInstr, ArchPC, PipelineInv, FetchedOK
    <2>4. ArchPC' = ex_mem.next_pc
      BY <1>2, ArchPCStep DEF PipelineInv, FetchedOK
    <2>5. QED
      BY <1>1, <1>2, <2>2, <2>3, <2>4
  <1>3. CASE ~Valid(ex_mem)
    <2>1. UNCHANGED SC!vars
      BY <1>3, BubbleStep
    <2>2. ArchPC' = ArchPC /\ ArchRegs' = ArchRegs /\ pmem' = pmem
      BY <2>1 DEF SC!vars
    <2>3. QED
      BY <1>1, <1>3, <2>2
  <1>4. QED
    BY <1>2, <1>3

(* At reset the reference is a copy of the core. *)
LEMMA SimInitInv == SimInit => SimInv
  <1> SUFFICES ASSUME SimInit
               PROVE  SimInv
    OBVIOUS
  <1>1. ~Valid(if_id) /\ ~Valid(id_ex) /\ ~Valid(ex_mem) /\ ~wb_valid
    BY DEF SimInit, Init, Valid, wb_valid, IfIdReset, IdExReset, ExMemReset, MemWbReset
  <1>2. ArchPC = pc
    BY <1>1 DEF ArchPC
  <1>3. ArchRegs = regfile
    BY InstrFacts DEF SimInit, Init, ArchRegs, RegsAfter, MemWbReset
  <1>4. QED
    BY <1>1, <1>2, <1>3 DEF SimInit, SimInv, NoFalseAlarm, RefInSync

(* The condition on CSR instructions: the core executes none of them, and  *)
(* difftest makes up for reads of the timer only.                          *)
OnlyTimerCsr == CsrInstrs = TimerReads

(* After an iteration of execute the reference is what the programmer saw  *)
(* before its clock edge, and difftest finds no difference.                *)
LEMMA ExecuteKeepsSync ==
  ASSUME OnlyTimerCsr, PipelineInv, SimInv, ExecuteOne
  PROVE  /\ ref'.pc = ArchPC
         /\ ref'.gpr = ArchRegs
         /\ ref'.pmem = pmem
         /\ status' = "running"
  <1>1. /\ Clock
        /\ wb_valid
        /\ commit' = get_commit_info
        /\ status = "running"
    BY DEF ExecuteOne
  <1>2. PICK v \in CsrValues(ref) :
          ref' = AfterSpecial(commit', RefExec(ref, v), update_cpu_state)
    BY DEF ExecuteOne
  <1>3. /\ commit'.instr = mem_wb.instr
        /\ commit'.next_pc = ArchPC
        /\ RefInstr(ref) = mem_wb.instr
        /\ RefPC(ref) = ArchPC
        /\ RefRegs(ref) = ArchRegs
        /\ RefMem(ref) = pmem
    BY <1>1 DEF get_commit_info, SimInv, RefInSync
  <1>4. regfile' = ArchRegs
    BY <1>1 DEF Clock, RegfileEdge, ArchRegs
  <1>5. ref'.pc = ArchPC /\ ref'.gpr = ArchRegs /\ ref'.pmem = pmem
    <2>1. CASE mem_wb.instr \in TimerReads
      BY <1>2, <1>3, <1>4, <2>1
      DEF AfterSpecial, is_special_instr, RefExec, update_cpu_state
    <2>2. CASE mem_wb.instr \notin TimerReads
      BY <1>2, <1>3, <2>2
      DEF AfterSpecial, is_special_instr, RefExec, OnlyTimerCsr
    <2>3. QED
      BY <2>1, <2>2
  <1>6. ~RegsDiffer(commit', ref', update_cpu_state)
    BY <1>3, <1>4, <1>5 DEF RegsDiffer, update_cpu_state
  <1>7. ~CsrsDiffer(ref', update_cpu_state)
    BY DEF CsrsDiffer, CsrSkipped
  <1>8. QED
    BY <1>5, <1>6, <1>7 DEF ExecuteOne, Differs

(* Every step keeps core and reference in step. *)
LEMMA SimStepInv ==
  ASSUME OnlyTimerCsr, PipelineInv, SimInv, [SimNext]_simVars
  PROVE  SimInv'
  <1>1. CASE WaitForCommit
    <2>1. /\ Clock /\ status' = "running" /\ ref' = ref
          /\ ref.pc = ArchPC /\ ref.gpr = ArchRegs /\ ref.pmem = pmem
      BY <1>1 DEF WaitForCommit, SimInv, RefInSync
    <2>2. RefInSync'
      BY <2>1, ClockAndReference
      DEF RefInSync, RefInstr, RefPC, RefRegs, RefMem, RefRs1, RefRs2, RefAlu
    <2>3. QED
      BY <2>1, <2>2 DEF SimInv, NoFalseAlarm
  <1>2. CASE HitEbreak
    BY <1>2 DEF HitEbreak, sim_exit, SimInv, NoFalseAlarm, RefInSync
  <1>3. CASE ExecuteOne
    <2>1. Clock /\ status' = "running"
      BY <1>3, ExecuteKeepsSync DEF ExecuteOne
    <2>2. ref'.pc = ArchPC /\ ref'.gpr = ArchRegs /\ ref'.pmem = pmem
      BY <1>3, ExecuteKeepsSync
    <2>3. RefInSync'
      BY <2>1, <2>2, ClockAndReference
      DEF RefInSync, RefInstr, RefPC, RefRegs, RefMem, RefRs1, RefRs2, RefAlu
    <2>4. QED
      BY <2>1, <2>3 DEF SimInv, NoFalseAlarm
  <1>4. CASE ExitOnDifference
    BY <1>4 DEF ExitOnDifference, sim_exit, SimInv, NoFalseAlarm
  <1>5. CASE UNCHANGED simVars
    BY <1>5 DEF simVars, vars, SimInv, NoFalseAlarm, RefInSync, wb_valid, Valid, ArchPC,
       ArchRegs, wb_wr_data, RefInstr, RefPC, RefRegs, RefMem, RefRs1, RefRs2, RefAlu
  <1>6. QED
    BY <1>1, <1>2, <1>3, <1>4, <1>5 DEF SimNext

(* Core and reference stay in step through every stall, flush and          *)
(* forwarding, for programs of known opcodes that do not start with a NOP, *)
(* do not modify themselves and access no CSR but the timer.               *)
THEOREM DifftestInSync ==
  ASSUME KnownOpcodes, OnlyTimerCsr
  PROVE  SimSpec /\ ResetNotNOP /\ [][TextStable]_vars => []SimInv
  <1>1. SimSpec => Spec
    BY SimStepsClock, PTL DEF SimSpec, SimInit, Spec
  <1>2. PipelineInv /\ SimInv /\ [SimNext]_simVars => SimInv'
    BY SimStepInv
  <1>3. QED
    BY <1>1, <1>2, InvariantHolds, SimInitInv, PTL DEF SimSpec

(* Under the same conditions the simulator never reports a difference.     *)
THEOREM DifftestNeverStops ==
  ASSUME KnownOpcodes, OnlyTimerCsr
  PROVE  SimSpec /\ ResetNotNOP /\ [][TextStable]_vars => []NoFalseAlarm
  <1>1. SimInv => NoFalseAlarm
    BY DEF SimInv
  <1>2. QED
    BY <1>1, DifftestInSync, PTL

-----------------------------------------------------------------------------
(* The simulator's own state *)

RefStates == [pc : Word, gpr : [Reg -> Word], pmem : Mem, csr : Word]

(* The reference executes an instruction from a well-typed state to one    *)
(* (ref_difftest_exec, external).                                          *)
LEMMA RefExecType ==
  ASSUME NEW s \in RefStates, NEW v \in Word
  PROVE  RefExec(s, v) \in RefStates
  <1> DEFINE i == RefInstr(s)
  <1>0. s.pc \in Word /\ s.gpr \in [Reg -> Word] /\ s.pmem \in Mem /\ s.csr \in Word
    BY DEF RefStates
  <1>1. i \in Instr
    BY <1>0, FetchType DEF RefInstr
  <1>2. i.rs1 \in Reg /\ i.rs2 \in Reg /\ i.rd \in Reg /\ i.imm \in Word
    BY <1>1, InstrFacts
  <1>3. RefRs1(s) \in Word /\ RefRs2(s) \in Word
    BY <1>0, <1>2, ReadRegType DEF RefRs1, RefRs2
  <1>4. RefAlu(s) \in Word
    BY <1>0, <1>1, <1>3, AluResultType DEF RefAlu
  <1>5. RefPC(s) \in Word
    BY <1>0, <1>2, <1>3, DataPathAssumption DEF RefPC, SC!NextPC
  <1>6. RefRegs(s) \in [Reg -> Word]
    <2>1. LoadData(i, s.pmem, RefAlu(s)) \in Word
      BY <1>0, <1>1, <1>4, LoadDataType
    <2>2. WrData(i, s.pc, RefAlu(s), LoadData(i, s.pmem, RefAlu(s))) \in Word
      BY <1>0, <1>1, <1>4, <2>1, WrDataType
    <2>3. QED
      BY <1>0, <1>1, <2>2, RegsAfterType DEF RefRegs
  <1>7. RefMem(s) \in Mem
    BY <1>0, <1>1, <1>3, <1>4, MemAfterType DEF RefMem
  <1> HIDE DEF i
  <1>8. (IF i \in CsrInstrs /\ i.rd # x0 THEN [s.gpr EXCEPT ![i.rd] = v] ELSE RefRegs(s))
           \in [Reg -> Word]
    BY <1>0, <1>2, <1>6
  <1>9. (IF i \in CsrInstrs \ TimerReads THEN RefRs1(s) ELSE s.csr) \in Word
    BY <1>0, <1>3
  <1>10. QED
    BY <1>5, <1>7, <1>8, <1>9 DEF RefExec, RefStates, i

(* Tracing an instruction keeps the ring's types and makes it the marked   *)
(* line (instr_trace.c:22-46).                                             *)
LEMMA TracedIsMarked ==
  ASSUME IT!TraceTypeOK, NEW e \in [pc : Word, instr : Instr], IT!instr_itrace(e)
  PROVE  IT!TraceTypeOK' /\ itrace_pool'[IT!last_idx'] = e
  <1> DEFINE S == ITRACE_POOL_SIZE
  <1>0. S \in Nat \ {0} /\ itrace_ptr \in 0 .. S - 1
    BY SimulatorAssumption DEF IT!TraceTypeOK, IT!Slots
  <1>1. (itrace_ptr + 1) % S = IF itrace_ptr = S - 1 THEN 0 ELSE itrace_ptr + 1
    BY <1>0
  <1>2. itrace_ptr' \in 0 .. S - 1 /\ (itrace_ptr' + S - 1) % S = itrace_ptr
    <2>1. itrace_ptr' = IF itrace_ptr = S - 1 THEN 0 ELSE itrace_ptr + 1
      BY <1>1 DEF IT!instr_itrace
    <2>2. CASE itrace_ptr = S - 1
      BY <1>0, <2>1, <2>2
    <2>3. CASE itrace_ptr # S - 1
      <3>1. itrace_ptr' + S - 1 = itrace_ptr + S
        BY <1>0, <2>1, <2>3
      <3>2. (itrace_ptr + S) % S = itrace_ptr % S
        <4> DEFINE x == itrace_ptr
        <4>1. x \in Nat /\ S \in Nat \ {0}
          BY <1>0
        <4> HIDE DEF x, S
        <4>2. (x + S) % S = x % S
          BY <4>1, CountModulo
        <4>3. QED
          BY <4>2 DEF x
      <3>3. itrace_ptr % S = itrace_ptr
        BY <1>0
      <3>4. itrace_ptr' \in 0 .. S - 1
        BY <1>0, <2>1, <2>3
      <3>5. QED
        BY <3>1, <3>2, <3>3, <3>4, Zenon
    <2>4. QED
      BY <2>2, <2>3
  <1>3. IT!last_idx' = itrace_ptr
    BY <1>2 DEF IT!last_idx
  <1>4. itrace_pool' \in [IT!Slots -> [pc : Word, instr : Instr]
                                       \cup {[pc |-> WordZero, instr |-> NOP]}]
    BY <1>0 DEF IT!TraceTypeOK, IT!instr_itrace, IT!Slots
  <1>5. itrace_pool'[itrace_ptr] = e
    BY <1>0 DEF IT!TraceTypeOK, IT!instr_itrace, IT!Slots
  <1>6. pool_full' \in BOOLEAN
    BY Zenon DEF IT!instr_itrace
  <1>7. QED
    BY <1>2, <1>3, <1>4, <1>5, <1>6 DEF IT!TraceTypeOK, IT!Slots

(* What holds of the simulator's state whatever the program does. *)
SimStateInv == SimTypeOK /\ CountersAgree /\ CulpritMarked

(* After reset. *)
LEMMA SimInitState == SimInit => SimStateInv
  <1> SUFFICES ASSUME SimInit PROVE SimStateInv
    OBVIOUS
  <1>1. TypeOK
    BY InitTypeOK DEF SimInit
  <1>2. ref \in RefStates
    BY <1>1, StateAssumption DEF SimInit, TypeOK, RefStates
  <1>3. commit \in [pc : Word, next_pc : Word, instr : Instr] /\ 0 \in 0 .. CounterMod - 1
    BY StateAssumption DEF SimInit, ZeroCommit
  <1>4. IT!TraceTypeOK
    <2>1. itrace_ptr \in IT!Slots
      BY SimulatorAssumption DEF SimInit, IT!Init, IT!Slots
    <2>2. itrace_pool \in [IT!Slots -> [pc : Word, instr : Instr]
                                        \cup {[pc |-> WordZero, instr |-> NOP]}]
      BY DEF SimInit, IT!Init
    <2>3. pool_full \in BOOLEAN
      BY Zenon DEF SimInit, IT!Init
    <2>4. QED
      BY <2>1, <2>2, <2>3 DEF IT!TraceTypeOK
  <1>5. SimTypeOK
    BY <1>1, <1>2, <1>3, <1>4 DEF SimTypeOK, SimInit, RefStates
  <1>6. CountersAgree /\ CulpritMarked
    BY DEF SimInit, Init, CountersAgree, CulpritMarked
  <1>7. QED
    BY <1>5, <1>6 DEF SimStateInv

(* One iteration of execute counts, traces and compares one instruction.   *)
LEMMA ExecuteState ==
  ASSUME SimStateInv, ExecuteOne
  PROVE  SimStateInv'
  <1> DEFINE cpu == update_cpu_state
             e == [pc |-> commit'.pc, instr |-> commit'.instr]
  <1>1. /\ status = "running" /\ wb_valid /\ Clock /\ commit' = get_commit_info
        /\ sim_instr_count' = Inc(sim_instr_count)
    BY DEF ExecuteOne
  <1>2. TypeOK /\ TypeOK' /\ ref \in RefStates /\ IT!TraceTypeOK
    BY <1>1, ClockTypeOK DEF SimStateInv, SimTypeOK, RefStates
  <1>3. commit' \in [pc : Word, next_pc : Word, instr : Instr]
    BY <1>1, <1>2 DEF get_commit_info, TypeOK
  <1>4. sim_instr_count' \in 0 .. CounterMod - 1
    BY <1>1, IncType DEF SimStateInv, SimTypeOK
  <1>5. ref' \in RefStates
    <2>1. PICK v \in CsrValues(ref) : ref' = AfterSpecial(commit', RefExec(ref, v), cpu)
      BY DEF ExecuteOne
    <2>2. v \in Word
      BY <1>2 DEF CsrValues, RefStates
    <2>3. RefExec(ref, v) \in RefStates
      BY <1>2, <2>2, RefExecType
    <2> DEFINE s == RefExec(ref, v)
    <2>4. cpu.gpr \in [Reg -> Word] /\ cpu.csr \in Word /\ commit'.next_pc \in Word
      BY <1>2, <1>3, StateAssumption DEF update_cpu_state, TypeOK
    <2> HIDE DEF s, cpu
    <2>5. [s EXCEPT !.pc = commit'.next_pc, !.gpr = cpu.gpr, !.csr = cpu.csr] \in RefStates
      BY <2>3, <2>4 DEF s, RefStates
    <2>6. QED
      BY <2>1, <2>3, <2>5 DEF AfterSpecial, s, cpu
  <1>6. e \in [pc : Word, instr : Instr]
    BY <1>3
  <1>7. /\ IT!TraceTypeOK'
        /\ check_inst_trigger(sim_instr_count') => itrace_pool'[IT!last_idx'] = e
    <2>1. CASE check_inst_trigger(sim_instr_count')
      <3>1. IT!instr_itrace(e)
        BY <2>1 DEF ExecuteOne
      <3>2. QED
        BY <1>2, <1>6, <3>1, TracedIsMarked
    <2>2. CASE ~check_inst_trigger(sim_instr_count')
      <3>1. UNCHANGED <<itrace_pool, itrace_ptr, pool_full>>
        BY <2>2 DEF ExecuteOne
      <3>2. QED
        BY <1>2, <2>2, <3>1 DEF IT!TraceTypeOK, IT!Slots
    <2>3. QED
      BY <2>1, <2>2
  <1>8. /\ status' \in {"running", "diff_error"}
        /\ status' = "diff_error" => check_inst_trigger(sim_instr_count')
    BY DEF ExecuteOne
  <1>9. SimTypeOK'
    BY <1>2, <1>3, <1>4, <1>5, <1>7, <1>8 DEF SimTypeOK, RefStates
  <1>10. CountersAgree'
    BY <1>1, <1>8 DEF SimStateInv, CountersAgree, Clock, CounterEdge
  <1>11. CulpritMarked'
    BY <1>7, <1>8 DEF CulpritMarked
  <1>12. QED
    BY <1>9, <1>10, <1>11 DEF SimStateInv

(* The other steps leave the trace and the reference alone. *)
LEMMA SimStepState == SimStateInv /\ [SimNext]_simVars => SimStateInv'
  <1> SUFFICES ASSUME SimStateInv, [SimNext]_simVars PROVE SimStateInv'
    OBVIOUS
  <1>0. TypeOK /\ IT!TraceTypeOK /\ CountersAgree /\ CulpritMarked /\ SimTypeOK
    BY DEF SimStateInv, SimTypeOK
  <1>1. ASSUME UNCHANGED <<ref, sim_instr_count, itrace_pool, itrace_ptr, pool_full>>,
               TypeOK', commit' \in [pc : Word, next_pc : Word, instr : Instr],
               status' \in {"running", "diff_error", "exit_ebreak", "exit_diff"}
        PROVE  SimTypeOK' /\ IT!last_idx' = IT!last_idx
    <2>1. IT!TraceTypeOK'
      BY <1>0, <1>1 DEF IT!TraceTypeOK, IT!Slots
    <2>2. SimTypeOK'
      BY <1>0, <1>1, <2>1 DEF SimTypeOK
    <2>3. QED
      BY <1>1, <2>2 DEF IT!last_idx
  <1>2. CASE WaitForCommit
    <2>1. TypeOK' /\ instr_cnt' = instr_cnt
      BY <1>0, <1>2, ClockTypeOK DEF WaitForCommit, Clock, CounterEdge
    <2>2. SimTypeOK' /\ CulpritMarked'
      BY <1>0, <1>1, <1>2, <2>1 DEF WaitForCommit, SimTypeOK, CulpritMarked
    <2>3. CountersAgree'
      BY <1>0, <1>2, <2>1 DEF WaitForCommit, CountersAgree
    <2>4. QED
      BY <2>2, <2>3 DEF SimStateInv
  <1>3. CASE HitEbreak
    <2>1. TypeOK' /\ instr_cnt' = Inc(instr_cnt)
      BY <1>0, <1>3, ClockTypeOK DEF HitEbreak, sim_exit, Clock, CounterEdge
    <2>2. commit' \in [pc : Word, next_pc : Word, instr : Instr]
      BY <1>0, <1>3 DEF HitEbreak, get_commit_info, TypeOK
    <2>3. SimTypeOK' /\ CulpritMarked'
      BY <1>1, <1>3, <2>1, <2>2 DEF HitEbreak, sim_exit, CulpritMarked
    <2>4. CountersAgree'
      BY <1>0, <1>3, <2>1 DEF HitEbreak, sim_exit, CountersAgree
    <2>5. QED
      BY <2>3, <2>4 DEF SimStateInv
  <1>4. CASE ExecuteOne
    BY <1>4, ExecuteState
  <1>5. CASE ExitOnDifference
    <2>1. TypeOK'
      BY <1>0, <1>5, ClockTypeOK DEF ExitOnDifference, sim_exit
    <2>2. SimTypeOK' /\ CulpritMarked'
      BY <1>0, <1>1, <1>5, <2>1 DEF ExitOnDifference, sim_exit, SimTypeOK, CulpritMarked
    <2>3. CountersAgree'
      BY <1>5 DEF ExitOnDifference, sim_exit, CountersAgree
    <2>4. QED
      BY <2>2, <2>3 DEF SimStateInv
  <1>6. CASE UNCHANGED simVars
    <2>1. TypeOK' /\ UNCHANGED <<status, ref, sim_instr_count, commit, itrace_pool, itrace_ptr,
                                 pool_full, instr_cnt>>
      BY <1>0, <1>6 DEF simVars, vars, TypeOK
    <2>2. SimTypeOK' /\ CulpritMarked'
      BY <1>0, <1>1, <2>1 DEF SimTypeOK, CulpritMarked
    <2>3. CountersAgree'
      BY <1>0, <2>1 DEF CountersAgree
    <2>4. QED
      BY <2>2, <2>3 DEF SimStateInv
  <1>7. QED
    BY <1>2, <1>3, <1>4, <1>5, <1>6 DEF SimNext

(* For every program, also one the core executes wrongly: the simulator's  *)
(* count is the core's, the ebreak that ends a run is counted by the core  *)
(* alone, and when difftest stops the run the trace marks the instruction  *)
(* after which the difference showed (exec.c:42-51, sim.c:17-24).          *)
THEOREM SimulatorSound == SimSpec => [](SimTypeOK /\ CountersAgree /\ CulpritMarked)
  <1>1. SimStateInv => SimTypeOK /\ CountersAgree /\ CulpritMarked
    BY DEF SimStateInv
  <1>2. QED
    BY <1>1, SimInitState, SimStepState, PTL DEF SimSpec
=============================================================================
