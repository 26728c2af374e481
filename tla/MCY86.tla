-------------------------------- MODULE MCY86 -------------------------------
(***************************************************************************)
(* Both Y86 cores on sets of small programs.  A behaviour runs one core;   *)
(* the registers of the other keep their first state.                      *)
(***************************************************************************)
EXTENDS Y86, Sequences

CONSTANTS SeqPrograms, PipePrograms   \* the programs each core runs

ASSUME ProgramsAssumption ==
  \A p \in SeqPrograms \union PipePrograms : \A a \in DOMAIN p :
    /\ {p[a].rA, p[a].rB} \subseteq Regs \union {F}
    /\ p[a].valC \in Words

VARIABLES core,                       \* "seq" or "pipe"
          prog, CC, data_mem,         \* of the core that runs
          PC, regfile,
          f_pc, D, E, M, W, reg_file, cpu_stat

SeqCore == INSTANCE Y86Seq WITH Programs <- SeqPrograms
PipeCore == INSTANCE Y86Pipe WITH Programs <- PipePrograms

seqOnly == <<PC, regfile>>
pipeOnly == <<f_pc, D, E, M, W, reg_file, cpu_stat>>
vars == <<core, prog, CC, data_mem, seqOnly, pipeOnly>>

Idle == "idle"

Init ==
  \/ /\ core = "seq" /\ SeqCore!SeqInit
     /\ f_pc = Idle /\ D = Idle /\ E = Idle /\ M = Idle /\ W = Idle
     /\ reg_file = Idle /\ cpu_stat = Idle
  \/ /\ core = "pipe" /\ PipeCore!PipeInit
     /\ PC = Idle /\ regfile = Idle

SeqClock == core = "seq" /\ SeqCore!Clock /\ UNCHANGED <<core, pipeOnly>>
PipeClock == core = "pipe" /\ PipeCore!Clock /\ UNCHANGED <<core, seqOnly>>

Next == SeqClock \/ PipeClock

Spec == Init /\ [][Next]_vars

-----------------------------------------------------------------------------
I(ic, fn, a, b, c) == [icode |-> ic, ifun |-> fn, rA |-> a, rB |-> b, valC |-> c]

At(s) == [k \in 0 .. Len(s) - 1 |-> s[k + 1]]

Stack == I("IRMOVL", 0, F, RSP, 24)
Halt == I("HALT", 0, F, F, 0)

Moves == {I("IRMOVL", 0, F, 0, 3), I("RMMOVL", 0, 0, RSP, 8), I("MRMOVL", 0, 1, RSP, 8),
          I("PUSHL", 0, 1, F, 0), I("POPL", 0, 0, F, 0)}
CMoves(conds) == {I("RRMOVL", c, 0, 1, 0) : c \in conds}
Jumps(conds) == {I("JXX", c, F, F, 4) : c \in conds}
Alus(fns) == {I("ALU", f, 0, 1, 0) : f \in fns}

(* Every condition and operation, the stack, a call and its return. *)
MCSeqPrograms ==
  LET body == Moves \union CMoves(0 .. 6) \union Jumps(0 .. 6) \union Alus(0 .. 3)
                \union {I("CALL", 0, F, F, 4)} IN
  {At(<<Stack, x, y, z, I("ALU", 0, 1, 0, 0), Halt>>) : x, y, z \in body}
  \union {At(<<Stack, I("CALL", 0, F, F, 4), I("ALU", 0, 0, 1, 0), Halt,
               I("POPL", 0, 0, F, 0), I("PUSHL", 0, 0, F, 0), I("RET", 0, F, F, 0)>>)}

(* A push below a stack pointer just past the data memory. *)
MCFaults == {At(<<I("IRMOVL", 0, F, RSP, r), I("PUSHL", 0, 1, F, 0), Halt>>) : r \in 40 .. 63}

(* Four instructions that depend on each other in every way but one: no    *)
(* instruction uses what the load just before it fetches.                  *)
PipeBodies ==
  LET body == Moves \union CMoves({0, 3, 5}) \union Jumps({0, 1, 3}) \union Alus({0, 1}) IN
  {<<Stack, x, y, z, w, Halt>> : x, y, z, w \in body}

Sources(i) == {IF i.icode = "MRMOVL" THEN F ELSE SrcA(i), SrcB(i)}
LoadUse(i, j) == i.icode \in {"MRMOVL", "POPL"} /\ DstM(i) \in Sources(j)

MCPipePrograms ==
  {At(s) : s \in {s \in PipeBodies : \A k \in 1 .. Len(s) - 1 : ~LoadUse(s[k], s[k + 1])}}

(* A store, the load of what it stored, and a use of it. *)
MCLoadUse ==
  {At(<<Stack, I("IRMOVL", 0, F, 0, 3), I("RMMOVL", 0, 0, RSP, 8), I("MRMOVL", 0, 1, RSP, 8), x, Halt>>) :
     x \in {I("ALU", 0, 1, 0, 0), I("PUSHL", 0, 1, F, 0)}}

MCNone == {}

-----------------------------------------------------------------------------
(* The sequential core runs every program as the instruction set promises, *)
(* every condition, stack and call step included, as long as no            *)
(* instruction faults on data memory and no signed result overflows        *)
(* (y86_cpu.v:47-129; Cnd ignores OF).                                     *)
SeqImplementsIsa ==
  /\ core = "seq" => SeqCore!Isa!IsaInit
  /\ [][core = "seq" => SeqCore!Isa!IsaNext]_vars

(* Forwarding, stalls and the squashing of wrong-path instructions stay    *)
(* invisible: the pipelined core commits what the instruction set promises *)
(* (pipelined_y86_cpu.v, pipe_control.v, pipe_stage_decode.v:120-170).     *)
PipeImplementsIsa ==
  /\ core = "pipe" => PipeCore!Isa!IsaInit
  /\ [][core = "pipe" => [PipeCore!Isa!IsaNext]_(PipeCore!Isa!isaVars)]_vars

(* "If the CPU has stopped (HALT, address error or illegal instruction),   *)
(* the PC is not updated" (pc_update.v:69): a core that has stopped stays  *)
(* stopped.                                                                *)
StoppedForGood ==
  [][core = "seq" /\ SeqCore!stat # "AOK" => SeqCore!stat' # "AOK"]_vars
=============================================================================
