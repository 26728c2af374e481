------------------------------ MODULE X86Boot -------------------------------
(***************************************************************************)
(* Multiprocessor start-up and shutdown of the x86 machine of the abstract *)
(* machine: the bootstrap CPU wakes the others one by one through the boot *)
(* record, and whoever halts stops the others through it.                  *)
(***************************************************************************)
EXTENDS Naturals, FiniteSets

CONSTANT ncpu                    \* __am_ncpu, counted by __am_lapic_init

ASSUME X86BootAssumption == ncpu \in Nat \ {0}

CPUs == 0 .. ncpu - 1

VARIABLES
  at,          \* what each CPU is executing
  ipi,         \* INIT and STARTUP requests on their way to each CPU
  jmp_code,    \* of the boot record: "boot" (jmp 0x7c00) or "self" (jmp .)
  is_ap,       \* of the boot record
  ap_ready,
  next_cpu,    \* cpu, the loop variable of mpe_init
  stopped,     \* per CPU, cpu_, the loop variable of __am_stop_the_world
  power        \* "on", or "off" after outw(0x604, 0x2000)

bootVars == <<at, ipi, jmp_code, is_ap, ap_ready, next_cpu, stopped, power>>

X86BootTypeOK ==
  /\ at \in [CPUs -> {"reset", "record", "spin", "bootstack", "percpu", "ready",
                      "main", "mpe", "poll", "user", "stop", "print"}]
  /\ ipi \in [CPUs -> SUBSET {"INIT", "STARTUP"}]
  /\ jmp_code \in {"boot", "self"}
  /\ is_ap \in {0, 1} /\ ap_ready \in {0, 1}
  /\ next_cpu \in 1 .. ncpu
  /\ stopped \in [CPUs -> 0 .. ncpu]
  /\ power \in {"on", "off"}

(* The firmware has started CPU 0 in the boot sector. *)
X86BootInit ==
  /\ at = [c \in CPUs |-> IF c = 0 THEN "bootstack" ELSE "reset"]
  /\ ipi = [c \in CPUs |-> {}]
  /\ jmp_code = "boot"
  /\ is_ap = 0 /\ ap_ready = 0
  /\ next_cpu = 1
  /\ stopped = [c \in CPUs |-> 0]
  /\ power = "on"

Runs(c, from, to) ==
  /\ power = "on"
  /\ at[c] = from
  /\ at' = [at EXCEPT ![c] = to]

-----------------------------------------------------------------------------
(* INIT resets a CPU wherever it is; STARTUP starts it at the boot record, *)
(* but only while it waits for that, so that the second of two is void.    *)
Deliver(c) ==
  /\ power = "on"
  /\ ipi[c] # {}
  /\ IF "INIT" \in ipi[c]
     THEN /\ at' = [at EXCEPT ![c] = "reset"]
          /\ ipi' = [ipi EXCEPT ![c] = @ \ {"INIT"}]
     ELSE /\ at' = [at EXCEPT ![c] = IF @ = "reset" THEN "record" ELSE @]
          /\ ipi' = [ipi EXCEPT ![c] = {}]
  /\ UNCHANGED <<jmp_code, is_ap, ap_ready, next_cpu, stopped, power>>

(* __am_lapic_bootap *)
BootAp(c) == ipi' = [ipi EXCEPT ![c] = {"INIT", "STARTUP"}]

(* The instruction of the boot record. *)
ExecuteRecord(c) ==
  /\ Runs(c, "record", IF jmp_code = "boot" THEN "bootstack" ELSE "spin")
  /\ UNCHANGED <<ipi, jmp_code, is_ap, ap_ready, next_cpu, stopped, power>>

(* Boot sector and _start_c, on the one stack at 0xa000: the bootstrap CPU *)
(* loads the program and initialises itself before main, the others switch *)
(* to the stack of their own.                                              *)
_start_c(c) ==
  /\ Runs(c, "bootstack", IF is_ap = 1 THEN "percpu" ELSE "main")
  /\ UNCHANGED <<ipi, jmp_code, is_ap, ap_ready, next_cpu, stopped, power>>

(* __am_percpu_init writes the registers of the one I/O APIC. *)
__am_percpu_init(c) ==
  /\ Runs(c, "percpu", "ready")
  /\ UNCHANGED <<ipi, jmp_code, is_ap, ap_ready, next_cpu, stopped, power>>

(* Faulty variant: the CPU does not report. *)
SilentEntry(c) ==
  /\ Runs(c, "ready", "user")
  /\ UNCHANGED <<ipi, jmp_code, is_ap, ap_ready, next_cpu, stopped, power>>

othercpu_entry(c) ==
  /\ Runs(c, "ready", "user")
  /\ ap_ready' = 1
  /\ UNCHANGED <<ipi, jmp_code, is_ap, next_cpu, stopped, power>>

-----------------------------------------------------------------------------
(* mpe_init, called from main. *)
mpe_init ==
  /\ Runs(0, "main", "mpe")
  /\ jmp_code' = "boot"
  /\ UNCHANGED <<ipi, is_ap, ap_ready, next_cpu, stopped, power>>

(* Its loop: wake the next CPU, or enter the program. *)
WakeNext ==
  /\ Runs(0, "mpe", IF next_cpu < ncpu THEN "poll" ELSE "user")
  /\ IF next_cpu < ncpu THEN is_ap' = 1 /\ BootAp(next_cpu) ELSE UNCHANGED <<is_ap, ipi>>
  /\ UNCHANGED <<jmp_code, ap_ready, next_cpu, stopped, power>>

(* Faulty variant: the next CPU is woken without waiting for this one. *)
NoHandshake ==
  /\ Runs(0, "poll", "mpe")
  /\ ap_ready' = 0
  /\ next_cpu' = next_cpu + 1
  /\ UNCHANGED <<ipi, jmp_code, is_ap, stopped, power>>

(* while (xchg(&ap_ready, 0) != 1) *)
PollReady ==
  /\ Runs(0, "poll", "mpe")
  /\ ap_ready = 1
  /\ ap_ready' = 0
  /\ next_cpu' = next_cpu + 1
  /\ UNCHANGED <<ipi, jmp_code, is_ap, stopped, power>>

-----------------------------------------------------------------------------
(* halt, called by the program; __am_stop_the_world turns the boot record  *)
(* into a jump to itself.                                                  *)
halt(c) ==
  /\ \/ Runs(c, "main", "stop")
     \/ Runs(c, "user", "stop")
  /\ jmp_code' = "self"
  /\ stopped' = [stopped EXCEPT ![c] = 0]
  /\ UNCHANGED <<ipi, is_ap, ap_ready, next_cpu, power>>

(* Faulty variant: the CPU that halts resets itself, too. *)
StopAll(c) ==
  /\ Runs(c, "stop", IF stopped[c] < ncpu THEN "stop" ELSE "print")
  /\ IF stopped[c] < ncpu
     THEN stopped' = [stopped EXCEPT ![c] = @ + 1] /\ BootAp(stopped[c])
     ELSE UNCHANGED <<stopped, ipi>>
  /\ UNCHANGED <<jmp_code, is_ap, ap_ready, next_cpu, power>>

(* Faulty variant: the loop runs once too often. *)
StopOneMore(c) ==
  /\ Runs(c, "stop", IF stopped[c] <= ncpu THEN "stop" ELSE "print")
  /\ stopped' = IF stopped[c] <= ncpu THEN [stopped EXCEPT ![c] = @ + 1] ELSE stopped
  /\ IF stopped[c] \in CPUs \ {c} THEN BootAp(stopped[c]) ELSE UNCHANGED ipi
  /\ UNCHANGED <<jmp_code, is_ap, ap_ready, next_cpu, power>>

(* An iteration of its loop, or the end of it. *)
__am_stop_the_world(c) ==
  /\ Runs(c, "stop", IF stopped[c] < ncpu THEN "stop" ELSE "print")
  /\ stopped' = IF stopped[c] < ncpu THEN [stopped EXCEPT ![c] = @ + 1] ELSE stopped
  /\ IF stopped[c] \in CPUs \ {c} THEN BootAp(stopped[c]) ELSE UNCHANGED ipi
  /\ UNCHANGED <<jmp_code, is_ap, ap_ready, next_cpu, power>>

(* The message, then the power-off port. *)
PrintAndPowerOff(c) ==
  /\ power = "on"
  /\ at[c] = "print"
  /\ power' = "off"
  /\ UNCHANGED <<at, ipi, jmp_code, is_ap, ap_ready, next_cpu, stopped>>

CpuStep(c) ==
  \/ Deliver(c)
  \/ ExecuteRecord(c) \/ _start_c(c) \/ __am_percpu_init(c) \/ othercpu_entry(c)
  \/ __am_stop_the_world(c) \/ PrintAndPowerOff(c)

X86BootNext ==
  \/ mpe_init \/ WakeNext \/ PollReady
  \/ \E c \in CPUs : CpuStep(c) \/ halt(c)

X86BootSpec == X86BootInit /\ [][X86BootNext]_bootVars

-----------------------------------------------------------------------------
InBootPath == {c \in CPUs : at[c] \in {"bootstack", "percpu", "ready"}}

(* The CPUs start one after the other: no two are between the boot record  *)
(* and their report at once, where they share the stack at 0xa000 and the  *)
(* register pair of the I/O APIC, and the bootstrap CPU enters the program *)
(* after every other CPU has initialised itself, unless somebody has       *)
(* halted meanwhile (mpe.c:16-31, trm.c:12-19).                            *)
BootPathExclusive ==
  /\ Cardinality(InBootPath) <= 1
  /\ at[0] = "user" => (\A c \in CPUs : at[c] = "user") \/ jmp_code = "self"

(* After mpe_init every CPU gets to the program, unless one halts.         *)
AllCpusStart ==
  at[0] = "mpe" ~> ((\A c \in CPUs : at[c] = "user") \/ jmp_code = "self")

(* Halting switches the machine off when one CPU halts.  (Two that halt at *)
(* once may reset each other and leave the machine on: trm.c:42-43.)       *)
HaltSwitchesOff ==
  [](\A c, d \in CPUs : at[c] \in {"stop", "print"} /\ at[d] \in {"stop", "print"} => c = d)
    => (jmp_code = "self" ~> power = "off")
=============================================================================
