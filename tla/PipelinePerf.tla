---------------------------- MODULE PipelinePerf ----------------------------
(***************************************************************************)
(* The performance counters of top_cpu explained.  jumps is a history      *)
(* variable: the number of jumps taken, which the core does not count.     *)
(***************************************************************************)
EXTENDS Pipeline

VARIABLE jumps

PerfVars == <<vars, jumps>>

PerfInit == Init /\ jumps = 0

PerfNext ==
  /\ Clock
  /\ jumps' = IF ex_branch_taken THEN Inc(jumps) ELSE jumps

(* The simulator calls eval() for edge after edge. *)
PerfSpec == PerfInit /\ [][PerfNext]_PerfVars /\ WF_PerfVars(PerfNext)

BubblesInFlight ==
  (IF Valid(if_id) THEN 0 ELSE 1) + (IF Valid(id_ex) THEN 0 ELSE 1)
  + (IF Valid(ex_mem) THEN 0 ELSE 1) + (IF Valid(mem_wb) THEN 0 ELSE 1)

(* Every cycle is accounted for: it commits an instruction, or one of the  *)
(* four bubbles of reset, the one of a load-use stall or the two of a      *)
(* taken jump reaches WB.  The CPI and stall figures sim_exit prints are   *)
(* read from these counters (top_cpu.v:335-349).                           *)
CyclesAccountedFor ==
  (cycle_cnt + BubblesInFlight) % CounterMod =
    (instr_cnt + 4 + stall_cnt + 2 * jumps) % CounterMod
=============================================================================
