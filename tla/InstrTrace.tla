----------------------------- MODULE InstrTrace -----------------------------
(***************************************************************************)
(* The instruction trace of the simulator: a ring of the last executed     *)
(* instructions, printed oldest first when difftest stops the run.         *)
(***************************************************************************)
EXTENDS Integers, Sequences

CONSTANTS ITRACE_POOL_SIZE,  \* 30 in the source
          TraceEntry,        \* [pc, instr]
          ZeroEntry          \* what the static array holds at start

ASSUME PoolAssumption == ITRACE_POOL_SIZE \in Nat \ {0}

VARIABLES
  itrace_pool,
  itrace_ptr,   \* next position to write
  pool_full     \* has the ring been filled once

traceVars == <<itrace_pool, itrace_ptr, pool_full>>

Slots == 0 .. ITRACE_POOL_SIZE - 1

TraceTypeOK ==
  /\ itrace_pool \in [Slots -> TraceEntry \union {ZeroEntry}]
  /\ itrace_ptr \in Slots
  /\ pool_full \in BOOLEAN

Init ==
  /\ itrace_pool = [s \in Slots |-> ZeroEntry]
  /\ itrace_ptr = 0
  /\ pool_full = FALSE

(* Faulty variant: the ring does not wrap. *)
NoWrap(e) ==
  /\ itrace_pool' = [itrace_pool EXCEPT ![itrace_ptr] = e]
  /\ itrace_ptr' = itrace_ptr + 1
  /\ pool_full' = (pool_full \/ itrace_ptr' = ITRACE_POOL_SIZE)

(* Faulty variant: the ring is full only at the moment it wraps. *)
FullForgotten(e) ==
  /\ itrace_pool' = [itrace_pool EXCEPT ![itrace_ptr] = e]
  /\ itrace_ptr' = (itrace_ptr + 1) % ITRACE_POOL_SIZE
  /\ pool_full' = (itrace_ptr' = 0)

instr_itrace(e) ==
  /\ itrace_pool' = [itrace_pool EXCEPT ![itrace_ptr] = e]
  /\ itrace_ptr' = (itrace_ptr + 1) % ITRACE_POOL_SIZE
  /\ pool_full' = (pool_full \/ itrace_ptr' = 0)

Next == \E e \in TraceEntry : instr_itrace(e)

Spec == Init /\ [][Next]_traceVars

-----------------------------------------------------------------------------
(* instr_itrace_display: the number of lines, the slot of the first line,  *)
(* the entries in the order of the lines, and the slot marked with '>'.    *)

total == IF pool_full THEN ITRACE_POOL_SIZE ELSE itrace_ptr

first_idx == IF pool_full THEN itrace_ptr ELSE 0

Displayed ==
  [k \in 1 .. total |-> itrace_pool[(first_idx + k - 1) % ITRACE_POOL_SIZE]]

last_idx == (itrace_ptr + ITRACE_POOL_SIZE - 1) % ITRACE_POOL_SIZE

Log == INSTANCE RecentLog
         WITH Size <- ITRACE_POOL_SIZE, Entry <- TraceEntry, log <- Displayed

(* The display lists the most recently executed instructions in execution  *)
(* order, at most a pool of them, before and after the ring wraps          *)
(* (instr_trace.c:22-46).                                                  *)
DisplaysRecent == Log!Spec
=============================================================================
