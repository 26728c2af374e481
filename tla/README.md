# my_cpu: TLA+ models, model checking and proofs

This directory specifies the processors of the repository, the simulator that runs
them, and the parts of the surrounding software (abstract machine, klib, kconfig)
that have logic of their own. The centre is one statement: **the five-stage RV32I
pipeline executes every program as the single-cycle core does**, and the simulator's
lock-step comparison with a reference model therefore never stops a correct run. Both
are checked by TLC on small instances and proved with TLAPS for every instance.
Around it stand specifications of the other parts, checked by TLC, and most of their
safety properties are proved as well: both Y86 cores implement their instruction set,
page tables implement address spaces, the console loses no character, the ALU computes
what its operations mean at every width, klib's copies move what C asks for, and kconfig's
choices stay exclusive in every menu.

## 1. The system

### Components, their state and operations

| Component | Source | State | Operations |
|---|---|---|---|
| Pipelined RV32I core | `riscv32-cpu/IP/rv32-pipeline-cpu-new` | PC, four pipeline registers, register file, three counters | one clock edge; the hazard unit decides stall, flush and forwarding |
| Single-cycle RV32I core | `riscv32-cpu/IP/rv32-single-cycle-cpu-escaper` | PC, register file, two counters | one clock edge per instruction |
| Execute loop and difftest | `riscv32-cpu/simulator/src/{sim,npc,difftest,main.c}` | copy of the registers, instruction count, last commit, the reference | clock until commit, `check_ebreak`, `difftest_step`, `sim_exit` |
| Instruction trace | `simulator/src/trace/instr_trace.c` | ring of 30 entries, write position, full flag | `instr_itrace`, `instr_itrace_display` |
| Memory and DPI | `simulator/src/{memory,npc/dpi.c}` | `pmem` | fetch, read, write; clock and serial port |
| Snapshot | `simulator/src/snapshot` | a file | save, restore (nothing calls them) |
| Pipelined Y86 core | `pipelined_y86` | F, D, E, M, W registers, condition codes, status | clock edge |
| Sequential Y86 core | `y86` | PC, register file, condition codes | clock edge |
| Spike HTIF | `abstract-machine/am/src/riscv/spike` | `tohost`, `fromhost`, one buffered character, a lock | getchar, putchar, system call, power-off |
| x86 CPUs | `am/src/x86/qemu/{mpe,trm}.c`, `boot` | boot record, `ap_ready`, what each CPU runs | `mpe_init`, `othercpu_entry`, `halt` |
| x86 address spaces | `am/src/x86/qemu/vme.c` | page directories and tables | `vme_init`, `protect`, `unprotect`, `map` |
| x86 contexts | `am/src/x86/qemu/cte.c` | saved contexts, loaded space and stack of each CPU | `kcontext`, `ucontext`, trap |
| x86 clock | `am/src/x86/qemu/ioe.c` | what has been read so far | `wait_sec`, `estimate_freq`, `timer_rtc` |
| Native address spaces | `am/src/native/vme.c` | page lists, flags, host mappings | `map`, `__am_switch` |
| klib | `abstract-machine/klib/src` | - | string, number and division functions |
| kconfig | `simulator/tools/kconfig` | user values, calculated values, a file | calculate, set, write, read; rewriting of expressions |
| CSR and trap unit | `rv32-pipeline-cpu-new/csr_pipe.v` | CSR file | CSR access, trap, mret (not instantiated) |
| Older pipeline | `IP/rv32-pipeline-cpu-akun` | F, D, E, M, W registers, CSR file | clock edge |
| Programs | `software-test` | - | run on the cores |

### How they interact

The Verilog cores are compiled into the simulator. `npc_single_cycle` produces one
clock edge; during it the core calls back through DPI to fetch, load and store in
`pmem`. `execute` clocks the core until `dut.commit` is high, reads the commit
wires (`commit_pc`, `commit_next_pc`, `commit_instr`), makes the edge at which the
instruction's register write happens, copies the register file, traces the
instruction, lets the reference (a shared library) execute one instruction and
compares. The loop ends in `sim_exit` on `ebreak` or on a difference, and `sim_exit`
clocks the core one more time before it reads the counters.

The parts of the abstract machine interact with their hardware through memory words
(HTIF), ports (clock, power-off) and inter-processor interrupts (boot), and with their
client through callbacks: `pgalloc`/`pgfree` for pages and `user_handler`, which picks the
context to resume. kconfig runs before the build and shares nothing with the rest but
the configuration file it writes.

### What is hard

In the cores and the simulator nothing runs in several threads; the concurrency is
that of five instructions in flight. The abstract machine has real processors. What
tests hardly reach:

* forwarding from two stages at once, load-use stalls against taken jumps, register
  read and write in one cycle, wrong-path instructions, and bubbles recognised only
  by their contents (a NOP at the reset vector);
* the reading of commit wires before an edge and of registers after it, with any
  number of bubbles between commits;
* the counters, which must add up while bubbles are in flight;
* a ring buffer whose order depends on two variables;
* one word in which the host answers console and system-call requests of all harts;
* CPUs that start through one record and one stack, and reset each other when they halt;
* page tables that share the kernel's part and whose pages are used again;
* a clock that ticks between the reads of its registers;
* a save that fails or is killed half-way, and a restore from what it left;
* calculated values of a configuration that are cached while others are edited;
* rewriting of three-valued expressions in place, pair by pair.

`PROJECT.json` lists each hazard at its line with the property that catches it.

## 2. Modules

| Module | What it models |
|---|---|
| `RV32I` | The combinational blocks both RV32I cores share: fields, ALU selection, load, store, write-back. Arithmetic and memory layout are constants |
| `RV32Alu` | The arithmetic of `execute.v` and `execute_pipe.v` at a width of `XLEN` bits |
| `SingleCycle` | The single-cycle core; the abstract specification of the pipeline |
| `Pipeline` | The pipelined core; `SC == INSTANCE SingleCycle WITH ...` is the refinement mapping |
| `PipelinePerf` | `Pipeline` with a history variable that counts taken jumps |
| `InstrTrace`, `RecentLog` | The ring of the trace, and the bounded log it implements |
| `Simulator` | `Pipeline` in the execute loop, composed with the reference and `InstrTrace` |
| `Memory` | Loading of the image, the reference's copy, and DPI accesses byte by byte |
| `Snapshot` | Saving and restoring with failing file operations and a kill |
| `Y86` | The combinational blocks both Y86 cores share |
| `Y86Isa` | What a Y86 processor promises a program; the abstract specification of both cores |
| `Y86Seq`, `Y86Pipe` | The sequential and the pipelined core, each with `Isa == INSTANCE Y86Isa WITH ...` |
| `Htif` | The console and system calls of several harts, and the host |
| `X86Boot` | Start-up and shutdown of the x86 CPUs |
| `X86Vme`, `AddressSpaces` | Page tables, and the address spaces they implement |
| `X86Cte` | Context switches |
| `X86Rtc` | The readers of the clock |
| `NativeVme` | Address spaces of the native machine |
| `Klib` | String and memory functions, integers as text, double-word division |
| `Algorithms` | `RV32Alu` and `Klib` on all their inputs, and what they are meant to compute |
| `KconfigTristate`, `KconfigExpr`, `KconfigSym` | Three-valued logic; dependency expressions and their rewriting; symbols, choices and configuration files |
| `MCPrograms` | RV32I instructions and programs for the instances; `MCPipeline`, `MCPipelinePerf`, `MCSimulator` combine it with the specifications |
| `MCY86`, `MCAmLive`, `MCParts`, `MCAlgorithms` | Instances of the other specifications |
| `Induction` | Induction over numbers and recursion, in a form the provers can apply |
| `PipelineProofs`, `SimulatorProofs` | The theorems about the RV32I pipeline and the simulator around it |
| `Y86Proofs` | The theorems about both Y86 cores |
| `AmProofs` | The theorems about HTIF, the start-up of the x86 machine and the native address spaces, and about `MCAmLive`, which composes them |
| `PartsProofs` | The theorems about the trace, page tables, contexts, snapshots, memory and the clock, and about `MCParts`, which composes them |
| `AlgorithmsProofs` | The theorems about the ALU and klib's string functions |
| `KconfigProofs` | The theorem about kconfig's choices |

The last four MC modules put independent specifications side by side. A variable
(`part`, or `core` in `MCY86`) says which of them a behaviour is about; the others keep
their first state, so that the state spaces add up and do not multiply.

### Correspondence with the code

*Pipeline.* One `Clock` step is one rising edge with `rst` low. Wires are operators
with the source's names (`load_use`, `flush_id_ex`, `mem_reg_wr_en`, `rs1_val`,
`ex_next_pc`, ...); every `always @(posedge clk)` block is one operator
(`FetchEdge`, `IfIdEdge`, ...), and `Clock` is their conjunction, so all of them see
the old values, as non-blocking assignments do. The register file is written with a
blocking assignment; that makes no difference, because the read port already
prefers the value on the write-back wires. The opcode, rd, rs1, rs2, funct and imm
registers are the fields of the instruction that travels with them and are not
kept twice; the reset values are the fields of the NOP. `Init` is the state after
`npc_reset(1)` with an image loaded.

*Parameters.* Words, registers, functs, the ALU and branch functions, and the layout
of memory (`Index`, `Decode`, `Extract`, `Insert`) are constants, restricted only by
type (`StateAssumption`, `DataPathAssumption`). What is proved holds for 32 bits
as for 4. A memory cell may be an aligned word or, if `Index` maps every
address to one cell, all of memory; unaligned and narrow accesses are then covered
by `Extract` and `Insert`. What this cannot express is a device that answers
differently each time.

*Simulator.* `WaitForCommit` is the inner loop; `ExecuteOne` is the rest of an
iteration: edge, copy, count, trace, reference step, comparison. `HitEbreak` and
`ExitOnDifference` end in `sim_exit` and its extra edge. The reference is outside the
repository's source; it is taken to execute what the single-cycle core executes,
and CSR instructions besides. One CSR stands for all; the timer reads as any word.
`check_inst_trigger` starts tracing and comparing at `TraceStart` while the reference
steps from the beginning, as in the code.

*Memory.* `CoreAccess` calls the DPI functions with any address, aligned or not. The
array has three more cells than `MSIZE`, which an unaligned word at the end reaches;
`MemorySound` states which accesses stay inside. The history variable `before` is the
memory before the last access.

*Y86.* An instruction occupies one address, so `valP` is `pc + 1`; data memory is an
array of eight-byte cells with the source's range check. The wires of the pipelined
core keep their names (`load_use_hazard`, `E_bubble`, `m_valM`, ...), and its `Clock`
updates the five registers at once. An instruction counts as executed when it has left
M. `Y86Isa` promises nothing after the first instruction that does not complete.

*Htif.* One step is one access to `tohost`, `fromhost`, the buffer or the lock; harts
interleave between them. So `__set_tohost` finds `tohost` taken in one step and looks at
`fromhost` in the next (line "busy"). Only a reply that is there is read, cleared and
kept in one step: until it is cleared the host writes no other. The host takes a request
from `tohost`, performs it and writes `fromhost` when that is zero. This is the RV64
variant of the code.

*X86Boot.* A step is what a CPU does between two accesses to the boot record,
`ap_ready` or another CPU's interrupt controller. INIT resets a CPU wherever it is;
the second of two STARTUPs is void, as on the hardware.

*X86Vme.* Pages and entries are those of the i386 layout with a table of a few entries.
`AddressSpaces` is what `am.h` offers the client: a mapping per space. A panic ends
every promise.

*X86Cte, NativeVme.* The client's handler may return any context that runs nowhere
else. In `NativeVme` the mapping and unmapping of a switch are single steps, because
the list and its flags are shared by processes.

*X86Rtc.* Seconds and minutes stand for all registers. The clock is free to tick
between any two reads, as often as one iteration of the reader's loop leaves time for.

*Kconfig.* An expression is a record tree. `KconfigExpr` keeps the order in which
operands meet, because the rules are applied to pairs in place; `rewrite_m` comes first,
as in `menu_finalize`. In `KconfigSym`, `cur` is the cache that `SYMBOL_VALID` guards and
`changed` says whether `sym_change_count` is zero. Setting a symbol to another value,
rewriting and reading recalculate; setting it to the value it has keeps cache and count.
`conf_write` writes the cached values if there is a change to save and recalculates if
there is none (`ToWrite`, `confdata.c:865`); `conf_write_defconfig` always recalculates
(`ToWriteMinimal`, `:761`). A save leaves nothing to be saved and the user goes on; a
file read by the next process (`conf_read`) may leave something to save, one loaded into
this one (`conf_load`) always does. `conf --savedefconfig` writes the minimal file right
after reading; the model lets it be written in every state, which is more. Symbols are
boolean or tristate; files are functions from the symbols they name to values.

## 3. What TLC checks

| Run | Result | Shows |
|---|---|---|
| `pipeline_refines` | pass | `ImplementsSingleCycle`, the invariant `PipelineInv`, `CommitNextPC`, `NoLoadForwarding`, `BubblesBounded`, on all 17 496 programs of four instructions, the first of 3 kinds and the others of 18 (276 000 states) |
| `pipeline_perf` | pass | `KeepsCommitting`: commits never cease. `CyclesAccountedFor`: cycles = instructions + 4 + stalls + 2 per taken jump, bubbles in flight considered |
| `sim_agrees` | pass | `NoFalseAlarm`, `SimInv`, `CountersAgree` for programs with timer reads and `ebreak` |
| `sim_stops` | pass | `CulpritMarked` on programs that difftest does stop |
| `algorithms` | pass | ALU operations and branches (`AluMeaning`), klib's string functions (`CopyMeaning`), numbers as text and division (`DivisionMeaning`), rewriting and submenus (`RewritesKeepMeaning`, `SubmenuSound`); a menu under edits (`ChoiceExclusive`, `CacheCoherent`, `FilesReadBack`) |
| `am_live` | pass | No typed character is lost, no assertion on a reply fails, the lock is always released; CPUs enter the boot path one at a time, all of them start, and a halt ends in power-off; a CPU of the native machine sees the space it has loaded |
| `parts` | pass | The trace ring stays in its pool and displays the recent log; page tables implement address spaces (`TablesOwned`, `KernelEverywhere`, `ImplementsAddressSpaces`); user threads run in their own space on their own kernel stack; clock readings are not torn; what is reported as restored is one moment; memory accesses (`MemorySound`) |
| `y86` | pass | Both cores execute their programs as the instruction set prescribes |
| `y86_load_use` | violation | The load-use stall of the pipelined core drops the load |
| `y86_stop` | violation | A stopped sequential core executes its last instruction again and again, and may start running again |
| `sim_exit_code` | violation | A program that reports failure ends as a passed test |
| `sim_csr` | violation | A CSR difference is never noticed |

`NoLoadForwarding` deserves a word: MEM forwards the ALU result, which for a load is
an address. The comment at `top_cpu.v:183` argues that the stall makes it
harmless; the property says so precisely.

`FilesReadBack` compares what is read with the values the writer had, after the
recalculation it may have done first. These need not be the values the user saw: a choice
in mode y that shows a value without a user value loses its own user value while it is
calculated (`symbol.c:288`); if it is tristate it falls back to its `rev_dep`, m (n if it
is optional), at the next recalculation. A second save then writes another file than the first, and so does the
minimal file. `CacheCoherent` states this as its only exception: in every other state the
cache is what a recalculation gives, so that both files hold what the user saw.

Properties that hold only with an exception state it: `CacheCoherent` (see above),
`MemorySound` (unaligned words in the last three bytes; an image shorter than the
built-in program), `RewritesKeepMeaning` and `SubmenuSound` (the comparison of `!A` with
n is exact only when nothing is m, neither a symbol nor a constant of the expression),
`NoHartAborts` and `NoCharLost` (a hart that switches the machine off),
`HaltSwitchesOff` (one CPU halts; two at once may reset each other, `trm.c:42-43`),
`SeesLoadedSpace` (each space on one CPU), `PipeImplementsIsa` (programs without RET and
without a load-use pair, whose stall loses the load), `SeqImplementsIsa` (data faults,
and `Cnd` without OF: operands do not overflow). `FilesReadBack` and `CacheCoherent`
hold of menus in which no default exceeds what its prompt shows, as in the instance:
with `tristate "S" if T`, `default y` and T = m the calculated value of S is y, but the
same y as a user value, set or read from the file just written, is cut to m
(`symbol.c:383-399`); TLC shows both violated on such a menu.

Three more places where the code does something else than a comment says were found by
reading and are outside every property: an opcode the pipeline does not decode
forwards a result from MEM that WB never writes (`top_cpu.v:251-257`); ECALL and EBREAK
do not stop the single-cycle core (`pc_update.v:48`, against its `README.md:76`), the
simulator does; the count printed with the trace includes nops (`instr_trace.c:33`).
In the pipelined Y86 core CALL and RET do not work at all (`pipe_stage_fetch.v:94`,
`pipe_control.v:44`, `pipelined_y86_cpu.v:220`), so its programs leave them out. A fourth
one, the forwarding behind `popl %rsp`, was found by a proof (section 4).

### Bounds and why they are enough

* RV32I words have 4 bits, memory four words, three registers (one of them x0), and the
  pc wraps. Two ordinary registers suffice for every forwarding case: what the hazard
  unit compares is equal, different or x0. Four instructions fill the distance
  from EX to WB, and by jumping back (`jal`, `jalr` and `bne` are in the menu) the
  programs run for as long as they like, every instruction meeting every other in
  all stages. The instructions name
  registers in the fields they do not use, the worst case for the hazard unit.
* `CounterMod` is small and the counters wrap; it is 1 where counters are not the
  subject, 16 in `pipeline_perf`, 4 in `sim_agrees`, 8 in `sim_stops`. In `sim_stops` a
  wrapped count falls below `TraceStart` again, which no real run can do; it adds
  behaviours (compare, pause, compare) and removes none.
* Stores change the data half of a memory word only, so the programs do not modify
  themselves. Memory words differ at the start, so that a wrong address shows.
* The trace ring has 4 slots and three kinds of entries in `parts`, 2 in the
  simulator runs: every fill level and several wraps.
* The first instruction of a program is never a NOP except in `sim_stops`.
* Y86 words have 6 bits, so that a byte address of eight cells fits; three registers,
  one of them the stack pointer. The pipelined programs are a stack set-up and four
  instructions of the menu, the distance from F to W, the sequential ones three, with
  every condition and operation.
* `am_live`: two harts, two characters, two typed and one printed: enough for a reply
  to arrive while the other hart waits, and for a full buffer. Three CPUs, so that one
  is started while another already runs the program. Two CPUs of the native machine,
  one with two spaces and one with one, two pages and two frames.
* `parts`: two address spaces, a directory with one kernel and two user entries, six
  pages, so that allocation fails at every step; two CPUs and four threads, two of which
  share a space; a minute of 12 seconds (two BCD digits) and an hour of two minutes, so
  that every carry happens; two memory pieces and four moments for the snapshot; eight
  bytes of memory.
* `algorithms`: words of 4 bits and double words of 8, all operands; memories of five
  characters of three kinds; expressions of up to two operators over a tristate and a
  boolean symbol, in pairs, the bare m in the second; a menu of six symbols with a
  selection, an implication, a default and a choice of two values.

`CHECK_DEADLOCK FALSE` stands where the system stops: the program exits (`sim_*`), the
machine is switched off (`am_live`), a snapshot is not restored or a panic ends a run
(`parts`), and a program of the sequential Y86 core ends in HALT (`y86*`).

### Fairness

`PerfSpec` assumes weak fairness of the clock edge: the simulator calls `eval` for edge
after edge in loops without other exits. `HtifFairness` lets a hart in the middle of an
operation go on and the host answer; nobody has to type, call or switch off.
`BootFairness` lets CPUs run, interrupts arrive and the bootstrap CPU go round its
loop; no CPU has to halt. All of it is weak fairness of single processors: no lock is
assumed to be fair, so that a particular hart may wait for ever while others get it, and
`LockIsReleased` claims only that the lock is released.

## 4. What is proved

The prover is TLAPS with Z3, Zenon and LS4. Every theorem holds for every value of the
constants that satisfies the named assumptions of its module; TLC evaluates those on the
instances. The inductive invariants were model-checked before they were proved.

| Theorem | Statement |
|---|---|
| `TypeCorrect` | `Spec => []TypeOK` for the pipeline |
| `LoadUseSafe` | `Spec => []NoLoadForwarding`, with no hypothesis about the program |
| `InvariantHolds` | `[]PipelineInv`, under the conditions below |
| `Refinement` | `ImplementsSingleCycle`, under the same conditions |
| `CommitNextPCCorrect`, `BubblesBoundedHolds` | the two invariants, likewise |
| `CountersExplained` | `PerfSpec /\ []ResetNotNOP => []CyclesAccountedFor` |
| `DifftestInSync`, `DifftestNeverStops` | `[]SimInv`, `[]NoFalseAlarm`, for programs that access no CSR but the timer |
| `SimulatorSound` | `SimSpec => [](SimTypeOK /\ CountersAgree /\ CulpritMarked)`, with no hypothesis about the program |
| `TraceTypeCorrect`, `TraceImplementsLog` | the ring implements the log, for every pool size |
| `SequentialCoreCorrect` | `Spec /\ []SeqPromised => SeqImplementsIsa` |
| `PipelinedCoreCorrect` | `Spec /\ []PipePromised => PipeImplementsIsa` |
| `RepliesReachTheirCallers`, `ConsoleLosesNothing` | `HtifSpec => []NoHartAborts` and `[]NoCharLost`, for any number of harts |
| `CpusStartOneByOne` | `X86BootSpec => []BootPathExclusive`, for any number of CPUs |
| `PageTablesSound` | `X86VmeSpec => [](TablesOwned /\ KernelEverywhere)` |
| `TablesImplementSpaces` | `X86VmeSpec => ImplementsAddressSpaces` |
| `UserThreadsKeepTheirSpace`, `NoSharedTrapStack` | `X86CteSpec => []RunsInOwnSpace`, and that two CPUs never trap to one stack, given `SpacesAllocated` |
| `LoadedSpaceVisible` | `NativeSpec => []SeesLoadedSpace`, given `SpacesPinned` |
| `SnapshotsRestoreOneMoment`, `SavedStateWhole` | `SnapshotSpec => []RestoresOneMoment`, and that what is saved is never a mixture |
| `GuestMemorySound` | `MemSpec => []MemorySound` |
| `ClockReadersSound` | `X86RtcSpec => []ClockReadsSound` |
| `MachinesSafe` | `[](AmTypeOK /\ NoHartAborts /\ NoCharLost /\ BootPathExclusive /\ SeesLoadedSpace)` for the composition `am_live` checks, given `SpacesPinned` |
| `PartsSafe` | `PartsTypeOK`, the six invariants, `DisplaysRecent` and `ImplementsAddressSpaces` for the composition `parts` checks, given `SpacesAllocated` |
| `AluIsRight` | `AlgSpec => []AluMeaning`, for every `XLEN` |
| `KlibCopies` | `AlgSpec => []CopyMeaning`, for every size and content of the memory |
| `ChoicesStayExclusive` | `SymSpec => [](SymTypeOK /\ ChoiceExclusive)`, for every menu within `MenuAssumption` and `ChoiceAssumption` |

The theorems about `Htif`, `X86Boot`, `X86Vme`, `X86Cte`, `NativeVme`, `Snapshot`,
`Memory` and `X86Rtc` include the type invariant of the module.

### Conditions

They are the places where the code departs from what is stated, and each is needed:

* `KnownOpcodes`: every instruction is one the core decodes (otherwise MEM forwards a
  result that WB does not write);
* `ResetNotNOP`: the instruction at the reset vector is not a NOP, or the core takes
  it for a bubble (`sim_stops` lives on this). The counters need it in every state,
  since a jump back would find a NOP stored there later;
* `TextStable`: no step changes an instruction; there is no FENCE.I;
* for the simulator, `OnlyTimerCsr`: the core ignores CSR instructions;
* `SeqPromised`: no instruction faults (a fault is executed again at every edge), and no
  conditional instruction meets a signed overflow (`Cnd` ignores OF);
* `PipePromised`: until the core stops, nothing in D uses what the instruction in E is
  loading (`y86_load_use`), there is no CALL or RET, and nothing in D reads a register
  that a POPL in W both loads and computes. Every program of the `y86` run satisfies
  both conditions in every state, so that neither theorem is empty;
* `SpacesAllocated`: `as->ptr` is not NULL after `protect` (`vme.c:134`);
* `SpacesPinned`: no space is used on two CPUs of the native machine, whose processes
  share the `is_mapped` flags but not the mappings.

The last part of `PipePromised` was not known before the proof. Decode forwards W_valE
before W_valM (`pipe_stage_decode.v:158-164`), and the register file keeps W_valM when
both name one register. The forwarding in E, which has the right order, repairs it for
the two instructions behind a `popl %rsp`; the third reads the incremented stack
pointer instead of the loaded one. TLC confirms the failing program once the menu has
`popl %rsp`.

Assumptions on constants that the proofs brought in are as the code has them: words
of the interface are no characters (`HtifAssumption`), the instruction memory is smaller
than the address range and register 15 is none (`Y86Assumption`), a program names
registers and words (`ProgramsAssumption`), sizes fit (`MemoryAssumption`). `NoCharLost`
now also says that at most one console reply is queued: without it the statement about
the queued characters did not exclude duplicates.

`PowersOfTwo` says of `2 ^ k` what arithmetic says; it is named because the provers know
nothing of exponentiation. `MenuAssumption` describes entries as the parser makes them.
`ChoiceAssumption` is what `menu_finalize` makes of a Kconfig file without warnings: values
come after their choice, its mode bounds what is shown of them, they have no defaults, and
the defaults of the choice name its values. One part is a limit of the model: what a value
depends on besides its choice is calculated before the choice. The code also admits a value
that depends on a symbol which in turn depends on the choice, and calculates that symbol
while it calculates the choice, an order that `Menu` does not express.

### The argument: RV32I

An instruction counts as executed when it leaves MEM. `ArchPC` is the pc of the
oldest valid stage, `ArchRegs` the register file with the write-back wires applied,
memory is itself. The refinement alone is not inductive: it says nothing about
instructions that have not yet reached MEM. `PipelineInv` adds

* `FetchedOK`: each valid stage holds the program's instruction at its pc;
* `PathOK`: each valid stage holds the successor of the stage ahead, EX being guessed
  to fall through until its jump is resolved, and `next_pc` in MEM is already right;
* `MemStageOK`: the values in MEM are those the instruction computes from the
  architectural state;
* `OperandsOK`: what the forwarding multiplexers deliver to EX equals what the
  instruction would read after MEM and WB have finished.

The step lemmas follow this split: `FetchedStep`, `PathStep`, `MemStageStep`,
`OperandsStep`. `OperandsStep` is where forwarding is verified: `ReadPortCorrect`
covers the read in ID, `ForwardCorrect` the priority of MEM over WB, and the
load-use stall rules out the one case in which MEM has nothing to offer.
`StallExcludesJump` settles the conflict between a held PC and a redirected one: EX
cannot hold both a load and a jump. With the invariant, a step is a single-cycle step
when MEM holds an instruction (`RetireStep`) and a stutter when it holds a bubble
(`BubbleStep`).

`PerfInv` adds to the counter equation that an instruction in EX has one in ID behind
it (`FrontFilled`): a jump then squashes exactly two instructions, and each edge
changes both sides of the equation by the same amount, modulo the width of the counters.

`SimInv` relates the reference to `ArchPC`, `ArchRegs` and memory: equal while nothing
is on the commit wires, one instruction behind while something is. That the
registers read after the edge belong to the commit read before it is the
content of `ExecuteKeepsSync`. `SimStateInv` needs none of it: that counts agree and
the culprit is marked follows from the order of the calls in the loop.

For the trace, `SlotOfLine` relates a line of the display to a slot of the ring, and
`TraceRecords` shows by cases (filling, just filled, full) that a write appends to the
displayed sequence and drops its head when full.

### The argument: Y86

Instruction set and cores use the operators of `Y86`, but under different instance names;
`SameInstr` to `SameEffects` (and their `Pipe` counterparts) tell the provers so. For the
sequential core little more is needed: an edge without fault is `Execute`, and at HALT
nothing changes. For the pipelined core the invariant `PipeInv` says, as long as the core
runs,

* `Chain`: D, E and M fill from the front with consecutive instructions, behind each
  other or behind a bubble left by reset or a taken jump;
* `EOperands`: once forwarded for the second time, the operands in E are what the
  instruction ahead leaves in the registers (`ArchE`);
* `MResults`: result, destinations, condition and the flags after it are those the
  instruction set computes from the registers (`ArchM`) and flags the instruction meets.

`ForwardsRight` is the heart: five ports at decode and three at execute together yield
the value of the newest older writer. `BypassOf3` and `BypassOf5` reduce the ports to a
cascade, `ReadWritten` the register file. `EdgeFacts` shows that under `PipePromised` an
edge either advances all stages or empties them. A step is then `Execute`
(`PipeExecutes`), `Stop`, a stutter (`BubbleLeaves`), or comes after the stop.

### The argument: the abstract machine

* *HTIF.* `HtifInv` counts: exactly one console read is out while the buffer is unset
  (about to be posted, in `tohost`, at the host, queued or in `fromhost`: `OneRead`), and
  a system call exactly while the holder of the lock waits for it (`OneSyscall`). So a
  reply in `fromhost` has one possible taker, whether it looks in getchar, in the loop of
  `__set_tohost` or while it waits for its system call, and the one character that was typed and
  not returned has one place (`CharKept`). What holds even while a hart switches the machine
  off (`Basic`) is kept apart from what does not (`Orderly`).
* *Start-up.* `BootInv` says where the CPU that `mpe_init` waits for can be, with which
  interrupts outstanding (`Waking`); CPUs below it are in the program, those above
  untouched. After a halt the boot record leads nowhere (`Stopping`).
* *Page tables.* `VmeInv` refines `TablesOwned` page by page: a page is used exactly when
  it is a table of the kernel or of one live space, entries of a directory lead to
  different tables, and kernel entries are the kernel's. An allocated page is then new to
  everyone, and a change in one table is seen in one space only, which is what
  `TablesImplementSpaces` needs for `map` and `unprotect`.
* *Contexts, native spaces, snapshot, memory, clock.* The strengthenings are short: saved
  contexts keep space and stack (`SavedContexts`); what a process has mapped in each phase
  of a switch (`CpuInv`); the file holds pieces of one moment (`FileFromOneMoment`); what
  is beyond the loaded image is zero (`LoadedOnly`); what a reader knows at each line
  about the moments of its reads (`RtcInv`).

### The argument: algorithms

The library's induction theorems take an operator as a parameter, which the provers cannot
instantiate. `Induction` states them with a set in its place: a set of numbers that has 0 and
the successor of each element is all of Nat (`NatSetInduction`, from `LeastElement`), and for
every base and every step *function* there is the function of the results (`IteratesUpTo`).
A recursive function of the model is then shown to exist and to satisfy its equation, and
facts about it follow by induction over the set of arguments where they hold.

* *ALU.* `SumBits`: the word `FromBits(S)` has exactly the bits S; `BitsGiveWord`: a word is
  determined by its bits. Quotients and remainders are handled by uniqueness
  (`DivModUnique`). `SignBit` and `SignedIs` relate a word to its two's complement value, so
  that sums, differences and left shifts are congruences. For the arithmetic right shift,
  `LowBitsMove` and `HighBitsAreSign` compare bit by bit the word with the sign moved in and
  the quotient of the signed value. The branches follow from `SignedLessMeans` and
  `SignedInjective`.
* *klib.* `CopyMoves`: a copy in any order moves what was there first, if no character is
  read after it was overwritten; upward and downward loops are instances, which is why
  `memmove` chooses by the addresses. `StrlenIs` finds the first NUL.
* *kconfig.* The calculation of the menu is a sequence of states (`CalcSteps`) in which a
  symbol is final once calculated (`StateKept`). When a choice is y, the values
  `sym_calc_choice` sees are those that are shown when they are calculated themselves
  (`PromptKept`), so that the chosen one, and no other, becomes y (`ValuesOfYes`); when it
  is n its values are hidden (`ValuesOfNo`). Since the calculation starts from nothing, this
  holds for whatever user values edits and files leave (`CalcExclusive`). A save keeps the
  cached values or recalculates them (`SaveSafe`), a file that is read is recalculated from
  (`ReadFileSafe`, `ReopenSafe`).

### Model-checked only

`KeepsCommitting`, `LockIsReleased`, `AllCpusStart` and `HaltSwitchesOff` are liveness
under fairness, which the prover does not handle. `RewritesKeepMeaning` and `SubmenuSound`
are about RECURSIVE operators over expression trees (`KconfigExpr`); with them tlapm loses
its SMT backend. `DivisionMeaning` rests on folds over digits and halved words, for which
no first-order induction was worked out. `CacheCoherent` and `FilesReadBack` are not true of
every menu (section 3) and are checked on one.

## 5. What is not modelled

* Instruction encoding: field positions and immediate generation (`decode_pipe.v:42-71`,
  `y86/fetch.v`) are behind `Decode` and `FetchAt`.
* Devices: the simulator's real-time clock and serial port; keyboard, display, disk and
  audio of the abstract machine, which are single port accesses or copies.
* The reset cycle itself, waveform dumping, logging, disassembly, option parsing.
* kconfig: string, integer and hexadecimal symbols and their ranges, random
  configurations, header generation, the terminal user interfaces.
* klib: printf's format loop (`%u` takes a 64-bit argument, `stdio.c:46`; the buffer has
  1024 bytes). malloc is not implemented in the source.
* The CSR unit, which no core instantiates; the older pipeline (`akun`), which the
  modelled one supersedes; the empty template.

### How much of the source the models cover

The logic of this repository is largely Verilog, whose lines the map names for all
modelled cores. Of its C code about half cannot be modelled in any useful sense: the
generated lexer and parser of kconfig (`lexer.lex.c`, `parser.tab.c`, 6500 lines), the
VCS build output (`rmapats.h` three times, PLI stubs), vendored code (`longlong.h` and
the rest of libgcc, coremark, the curses user interface of kconfig) and the test
programs. Of what is left, much is device access and printing. The models cover the
files that decide something: `expr.c`, `symbol.c` and `confdata.c` of kconfig, the
simulator, the machines' memory and processor management, klib.

## 6. Plan

1. *(done)* `RV32I`, `SingleCycle`, `Pipeline` and their refinement; `PipelinePerf`;
   `RV32Alu`; `InstrTrace`; `Simulator`; the proofs above.
2. *(done)* `Y86Isa`, `Y86Seq`, `Y86Pipe`; `Memory`, `Snapshot`; the abstract machine
   (`Htif`, `X86Boot`, `X86Vme`, `X86Cte`, `X86Rtc`, `NativeVme`); `Klib`; kconfig.
3. *(done)* Proofs of the safety properties of the Y86 cores and the abstract machine,
   the counter equations and the simulator's own invariants.
4. *(done)* `Induction`; the ALU and klib's string functions for every size
   (`Algorithms`); choices of kconfig for every menu; the compositions of `am_live` and
   `parts`.
5. Left: the division of double words for every width; the rewriting of expressions as
   functions on trees instead of RECURSIVE operators; the branches of `X86Vme` after a
   failed allocation, of which only the panic is described.
