------------------------------- MODULE X86Vme -------------------------------
(***************************************************************************)
(* Page tables of the x86 machine (x86/qemu/vme.c, the two-level layout of *)
(* i386): the kernel's table, built once, is shared by the page directory  *)
(* of every address space; user tables are allocated while walking.        *)
(***************************************************************************)
EXTENDS Naturals, FiniteSets

CONSTANTS
  Spaces,      \* AddrSpace structures of the client
  Index,       \* entries of a table of either level
  KernelPd,    \* entries of the directory that cover the kernel's areas
  Vas,         \* pages the client asks for, <<directory index, table index>>
  Frames,      \* physical pages the client maps
  Pool         \* numbers of the pages the client's pgalloc has

ASSUME X86VmeAssumption ==
  /\ Pool \subseteq Nat \ {0} /\ Frames \subseteq Nat \ ({0} \cup Pool)
  /\ KernelPd \subseteq Index
  /\ Vas \subseteq Index \X Index
  /\ Cardinality(Pool) > Cardinality(KernelPd)

VARIABLES
  pt,          \* contents of the pages of the pool
  used,        \* pages given out and not freed
  kpt,         \* the kernel's directory, NoPage before vme_init
  ptr,         \* as->ptr
  live,        \* spaces between protect and unprotect
  panicked

vmeVars == <<pt, used, kpt, ptr, live, panicked>>

NoPage == 0
Zero == [P |-> FALSE]
Entry(b, w, u) == [P |-> TRUE, base |-> b, W |-> w, U |-> u]
Identity == 0                    \* the kernel maps every page to itself
Entries == {Zero} \cup {Entry(b, w, u) : b \in Pool \cup Frames \cup {Identity},
                                         w \in BOOLEAN, u \in BOOLEAN}
ZeroPage == [i \in Index |-> Zero]
Directory(as) == ptr[as].base
UserVas == {va \in Vas : va[1] \notin KernelPd}      \* uvm_area

X86VmeTypeOK ==
  /\ pt \in [Pool -> [Index -> Entries]]
  /\ used \subseteq Pool
  /\ kpt \in Pool \cup {NoPage}
  /\ ptr \in [Spaces -> Entries]
  /\ live \subseteq Spaces
  /\ panicked \in BOOLEAN

X86VmeInit ==
  /\ pt = [p \in Pool |-> ZeroPage]
  /\ used = {}
  /\ kpt = NoPage
  /\ ptr = [as \in Spaces |-> Zero]
  /\ live = {}
  /\ panicked = FALSE

panic == panicked' = TRUE /\ UNCHANGED <<pt, used, kpt, ptr, live>>

(* The client's allocator: the lowest free page, if there is one. *)
pgalloc == {p \in Pool \ used : \A q \in Pool \ used : p <= q}

-----------------------------------------------------------------------------
(* One directory, and one full table per entry of the kernel's areas. *)
vme_init ==
  /\ kpt = NoPage
  /\ \E k \in pgalloc : \E table \in [KernelPd -> Pool \ {k}] :
       /\ \A i, j \in KernelPd : table[i] = table[j] => i = j
       /\ \A i \in KernelPd : table[i] <= k + Cardinality(KernelPd)
       /\ kpt' = k
       /\ used' = {k} \cup {table[i] : i \in KernelPd}
       /\ pt' = [p \in Pool |->
            IF p = k
            THEN [i \in Index |-> IF i \in KernelPd THEN Entry(table[i], TRUE, FALSE) ELSE Zero]
            ELSE IF p \in used' THEN [i \in Index |-> Entry(Identity, TRUE, FALSE)]
            ELSE pt[p]]
  /\ UNCHANGED <<ptr, live, panicked>>

(* Faulty variant: the kernel's entries are not copied. *)
ProtectBare(as) ==
  /\ as \notin live
  /\ \/ \E p \in pgalloc :
          /\ pt' = [pt EXCEPT ![p] = ZeroPage]
          /\ used' = used \cup {p}
          /\ ptr' = [ptr EXCEPT ![as] = Entry(p, FALSE, TRUE)]
          /\ live' = live \cup {as}
          /\ UNCHANGED <<kpt, panicked>>
     \/ Pool = used /\ panic

protect(as) ==
  /\ as \notin live
  /\ \/ \E p \in pgalloc :
          /\ pt' = [pt EXCEPT ![p] =
                      [i \in Index |-> IF i \in KernelPd THEN pt[kpt][i] ELSE Zero]]
          /\ used' = used \cup {p}
          /\ ptr' = [ptr EXCEPT ![as] = Entry(p, FALSE, TRUE)]
          /\ live' = live \cup {as}
          /\ UNCHANGED <<kpt, panicked>>
     \/ Pool = used /\ panic

(* Faulty variant: everything present is torn down, the kernel's too. *)
TeardownAll(dir) ==
  {dir} \cup {pt[dir][i].base : i \in {j \in Index : pt[dir][j].P}}

(* The pages teardown frees: the tables entered through user entries, and  *)
(* the directory; the entries of the last level are not followed.          *)
teardown(dir) ==
  {dir} \cup {pt[dir][i].base : i \in {j \in Index : pt[dir][j].P /\ pt[dir][j].U}}

unprotect(as) ==
  /\ as \in live
  /\ used' = used \ teardown(Directory(as))
  /\ live' = live \ {as}
  /\ UNCHANGED <<pt, kpt, ptr, panicked>>

(* Faulty variant: the table allocated on the way is not cleared. *)
DirtyWalk(dir, i) ==
  IF pt[dir][i].P
  THEN {[pages |-> pt, used |-> used, table |-> pt[dir][i].base]}
  ELSE {[pages |-> [pt EXCEPT ![dir][i] = Entry(p, TRUE, TRUE)],
         used  |-> used \cup {p}, table |-> p] : p \in pgalloc}

(* ptwalk with PTE_W | PTE_U from the directory dir: the memory after it   *)
(* and the table that holds the entry; no outcome when pgalloc fails.      *)
ptwalk(dir, i) ==
  IF pt[dir][i].P
  THEN {[pages |-> pt, used |-> used, table |-> pt[dir][i].base]}
  ELSE {[pages |-> [pt EXCEPT ![p] = ZeroPage, ![dir][i] = Entry(p, TRUE, TRUE)],
         used  |-> used \cup {p}, table |-> p] : p \in pgalloc}

(* map with prot other than MMAP_NONE (unmap is FALSE) or with it.         *)
map(as, va, pa, w, unmap) ==
  /\ as \in live
  /\ LET dir == Directory(as)
         walks == ptwalk(dir, va[1])
     IN \/ va \notin UserVas /\ panic
        \/ va \in UserVas /\ walks = {} /\ panic
        \/ /\ va \in UserVas
           /\ \E r \in walks :
                /\ used' = r.used
                /\ IF r.pages[r.table][va[2]].P = unmap
                   THEN /\ pt' = [r.pages EXCEPT ![r.table][va[2]] =
                                    IF unmap THEN Zero ELSE Entry(pa, w, TRUE)]
                        /\ UNCHANGED panicked
                   ELSE pt' = r.pages /\ panicked' = TRUE
           /\ UNCHANGED <<kpt, ptr, live>>

X86VmeNext ==
  /\ ~panicked
  /\ \/ vme_init
     \/ /\ kpt # NoPage
        /\ \E as \in Spaces :
             \/ protect(as) \/ unprotect(as)
             \/ \E va \in Vas, pa \in Frames, w \in BOOLEAN : map(as, va, pa, w, FALSE)
             \/ \E va \in Vas, pa \in Frames : map(as, va, pa, FALSE, TRUE)

X86VmeSpec == X86VmeInit /\ [][X86VmeNext]_vmeVars

-----------------------------------------------------------------------------
(* The tables of a live space. *)
TablesOf(as) == teardown(Directory(as))
KernelTables == {kpt} \cup {pt[kpt][i].base : i \in KernelPd}

(* A page is given out exactly when it is a table of the kernel or of one  *)
(* live space: no table is leaked, shared, or freed under a space that     *)
(* still uses it (vme.c:57-87, 117-139).                                   *)
TablesOwned ==
  kpt # NoPage =>
    /\ used = KernelTables \cup UNION {TablesOf(as) : as \in live}
    /\ \A as \in live :
         /\ TablesOf(as) \cap KernelTables = {}
         /\ \A bs \in live \ {as} : TablesOf(as) \cap TablesOf(bs) = {}

(* Every live space maps the kernel as the kernel's own table does, with   *)
(* no access for user code, so that traps work in all of them.             *)
KernelEverywhere ==
  \A as \in live, i \in KernelPd :
    /\ pt[Directory(as)][i] = pt[kpt][i]
    /\ \A j \in Index : pt[pt[kpt][i].base][j] = Entry(Identity, TRUE, FALSE)

(* What the processor finds for user code at va. *)
UserEntry(as, va) ==
  LET pde == pt[Directory(as)][va[1]]
  IN  IF pde.P /\ pde.U THEN pt[pde.base][va[2]] ELSE Zero

Translation(as) ==
  [va \in {v \in Index \X Index : UserEntry(as, v).P /\ UserEntry(as, v).U} |->
     <<UserEntry(as, va).base, UserEntry(as, va).W>>]

AS == INSTANCE AddressSpaces WITH
  Pages <- UserVas,
  present <- live,
  space <- [as \in Spaces |-> IF as \in live THEN Translation(as) ELSE [v \in {} |-> v]],
  halted <- panicked

(* The tables implement address spaces that do not affect each other: a    *)
(* call changes what user code sees at one page of one space.              *)
ImplementsAddressSpaces == AS!ASSpec
=============================================================================
