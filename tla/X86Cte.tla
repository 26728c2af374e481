------------------------------- MODULE X86Cte -------------------------------
(***************************************************************************)
(* Context switches of the x86 machine (x86/qemu/cte.c): a trap saves the  *)
(* context it interrupts, the client's handler picks any context that does *)
(* not run elsewhere, and the machine resumes it.  Kernel contexts are     *)
(* made without an address space and inherit the one they run in.          *)
(***************************************************************************)
EXTENDS Naturals, FiniteSets

CONSTANTS
  Cpus,
  KThreads,       \* threads made by kcontext
  UThreads,       \* threads made by ucontext
  SpaceOf(_)      \* the address space of a user thread

VARIABLES
  cur,            \* per CPU, the thread it runs: Boot(c) at first
  cr3,            \* per CPU, the address space it has loaded
  esp0,           \* per CPU, the stack its next trap from user mode uses
  ctx             \* cr3 and esp0 of the saved context of each thread

cteVars == <<cur, cr3, esp0, ctx>>

NULL == "null"
NoStack == <<"none">>
Kernel == "kpt"                  \* loaded by vme_init
Boot(c) == <<"boot", c>>         \* what the CPU runs before the first switch
Created(t) == <<"thread", t>>
Threads == {Boot(c) : c \in Cpus} \cup {Created(t) : t \in KThreads \cup UThreads}
UserThreads == {Created(t) : t \in UThreads}
Space(t) == SpaceOf(t[2])
Stacks == {NoStack} \cup Threads    \* a thread names its kernel stack
Context == [cr3 : {NULL, Kernel} \cup {Space(t) : t \in UserThreads}, esp0 : Stacks]

X86CteTypeOK ==
  /\ cur \in [Cpus -> Threads]
  /\ cr3 \in [Cpus -> {NULL, Kernel} \cup {Space(t) : t \in UserThreads}]
  /\ esp0 \in [Cpus -> Stacks]
  /\ ctx \in [Threads -> Context]

(* ctx->cr3 is as->ptr, ctx->esp0 the end of the thread's kernel stack.    *)
ucontext(t) == [cr3 |-> Space(t), esp0 |-> t]

(* A zeroed context but for code, stack and flags. *)
kcontext(t) == [cr3 |-> NULL, esp0 |-> NoStack]

X86CteInit ==
  /\ cur = [c \in Cpus |-> Boot(c)]
  /\ cr3 = [c \in Cpus |-> Kernel]
  /\ esp0 = [c \in Cpus |-> NoStack]
  /\ ctx = [t \in Threads |-> IF t \in UserThreads THEN ucontext(t) ELSE kcontext(t)]

(* What user_handler may return: the interrupted context, or that of a     *)
(* thread no CPU runs.                                                     *)
user_handler(c) == {cur[c]} \cup (Threads \ {cur[d] : d \in Cpus})

SaveContext(c) == [ctx EXCEPT ![cur[c]] = [cr3 |-> cr3[c], esp0 |-> esp0[c]]]

(* Faulty variant: only the address space is switched. *)
ResumeOldStack(c, next) ==
  /\ cr3' = [cr3 EXCEPT ![c] = IF next.cr3 = NULL THEN @ ELSE next.cr3]
  /\ UNCHANGED esp0

(* ret_ctx->cr3 decides whether address space and stack are switched. *)
Resume(c, next) ==
  IF next.cr3 = NULL
  THEN UNCHANGED <<cr3, esp0>>
  ELSE /\ cr3' = [cr3 EXCEPT ![c] = next.cr3]
       /\ esp0' = [esp0 EXCEPT ![c] = next.esp0]

__am_irq_handle(c) ==
  \E ret \in user_handler(c) :
    /\ ctx' = SaveContext(c)
    /\ Resume(c, SaveContext(c)[ret])
    /\ cur' = [cur EXCEPT ![c] = ret]

X86CteNext == \E c \in Cpus : __am_irq_handle(c)

X86CteSpec == X86CteInit /\ [][X86CteNext]_cteVars

-----------------------------------------------------------------------------
(* However threads are passed between CPUs and through kernel threads, a   *)
(* user thread runs in its own address space and its next trap lands on    *)
(* its own kernel stack, so no two CPUs trap onto one stack                *)
(* (cte.c:19-106, vme.c:158-181).                                          *)
RunsInOwnSpace ==
  \A c \in Cpus :
    cur[c] \in UserThreads => cr3[c] = Space(cur[c]) /\ esp0[c] = cur[c]
=============================================================================
