----------------------------- MODULE NativeVme ------------------------------
(***************************************************************************)
(* Address spaces of the native machine (native/vme.c).  CPUs are forked   *)
(* processes: each has host mappings of its own, while the lists of pages  *)
(* and their is_mapped flags live in memory that all of them share.        *)
(***************************************************************************)
EXTENDS Naturals, FiniteSets

CONSTANTS
  Cpus, Spaces, Vas, Frames,
  MayLoad(_)           \* the spaces the client's threads on a CPU use

VARIABLES
  page,        \* per space, the PageMap of a page: its pa, None if there is none
  is_mapped,   \* per space, the flags of its PageMaps
  vm_head,     \* per CPU, thiscpu->vm_head
  hostmap,        \* per CPU, what its process has mapped at each address
  switch       \* per CPU, the call of __am_switch that is under way

nativeVars == <<page, is_mapped, vm_head, hostmap, switch>>

None == "none"
NULL == "null"
NoSwitch == [phase |-> "idle", to |-> NULL, todo |-> {}]
PagesOf(as) == IF as = NULL THEN {} ELSE {va \in Vas : page[as][va] # None}

NativeTypeOK ==
  /\ page \in [Spaces -> [Vas -> Frames \cup {None}]]
  /\ is_mapped \in [Spaces -> [Vas -> BOOLEAN]]
  /\ vm_head \in [Cpus -> Spaces \cup {NULL}]
  /\ hostmap \in [Cpus -> [Vas -> Frames \cup {None}]]
  /\ switch \in [Cpus -> [phase : {"idle", "unmap", "map"},
                          to : Spaces \cup {NULL}, todo : SUBSET Vas]]

(* Every space has been through protect. *)
NativeInit ==
  /\ page = [as \in Spaces |-> [va \in Vas |-> None]]
  /\ is_mapped = [as \in Spaces |-> [va \in Vas |-> FALSE]]
  /\ vm_head = [c \in Cpus |-> NULL]
  /\ hostmap = [c \in Cpus |-> [va \in Vas |-> None]]
  /\ switch = [c \in Cpus |-> NoSwitch]

(* Faulty variant: the loaded space is not mapped at once. *)
MapLater(c, as, va, pa) ==
  /\ switch[c] = NoSwitch
  /\ page[as][va] = None
  /\ page' = [page EXCEPT ![as][va] = pa]
  /\ is_mapped' = [is_mapped EXCEPT ![as][va] = FALSE]
  /\ UNCHANGED <<vm_head, hostmap, switch>>

(* The client maps a page it has not mapped yet. *)
map(c, as, va, pa) ==
  /\ switch[c] = NoSwitch
  /\ page[as][va] = None
  /\ page' = [page EXCEPT ![as][va] = pa]
  /\ is_mapped' = [is_mapped EXCEPT ![as][va] = (vm_head[c] = as)]
  /\ hostmap' = IF vm_head[c] = as THEN [hostmap EXCEPT ![c][va] = pa] ELSE hostmap
  /\ UNCHANGED <<vm_head, switch>>

-----------------------------------------------------------------------------
(* __am_switch, called by irq_handle with the context to resume. *)
Begin(c, to) ==
  /\ switch[c] = NoSwitch
  /\ to # vm_head[c]
  /\ switch' = [switch EXCEPT ![c] =
                  [phase |-> "unmap", to |-> to, todo |-> PagesOf(vm_head[c])]]
  /\ UNCHANGED <<page, is_mapped, vm_head, hostmap>>

(* "munmap all mappings" *)
UnmapOne(c) ==
  /\ switch[c].phase = "unmap"
  /\ \E va \in switch[c].todo :
       /\ switch' = [switch EXCEPT ![c].todo = @ \ {va}]
       /\ IF is_mapped[vm_head[c]][va]
          THEN /\ hostmap' = [hostmap EXCEPT ![c][va] = None]
               /\ is_mapped' = [is_mapped EXCEPT ![vm_head[c]][va] = FALSE]
          ELSE UNCHANGED <<hostmap, is_mapped>>
  /\ UNCHANGED <<page, vm_head>>

Unmapped(c) ==
  /\ switch[c].phase = "unmap" /\ switch[c].todo = {}
  /\ switch' = [switch EXCEPT ![c] =
                  [phase |-> "map", to |-> @.to, todo |-> PagesOf(@.to)]]
  /\ UNCHANGED <<page, is_mapped, vm_head, hostmap>>

(* "mmap all mappings" *)
MapOne(c) ==
  /\ switch[c].phase = "map"
  /\ \E va \in switch[c].todo :
       /\ switch' = [switch EXCEPT ![c].todo = @ \ {va}]
       /\ hostmap' = [hostmap EXCEPT ![c][va] = page[switch[c].to][va]]
       /\ is_mapped' = [is_mapped EXCEPT ![switch[c].to][va] = TRUE]
  /\ UNCHANGED <<page, vm_head>>

End(c) ==
  /\ switch[c].phase = "map" /\ switch[c].todo = {}
  /\ vm_head' = [vm_head EXCEPT ![c] = switch[c].to]
  /\ switch' = [switch EXCEPT ![c] = NoSwitch]
  /\ UNCHANGED <<page, is_mapped, hostmap>>

NativeNext ==
  \E c \in Cpus :
    \/ \E as \in MayLoad(c), va \in Vas, pa \in Frames : map(c, as, va, pa)
    \/ \E to \in MayLoad(c) \cup {NULL} : Begin(c, to)
    \/ UnmapOne(c) \/ Unmapped(c) \/ MapOne(c) \/ End(c)

NativeSpec == NativeInit /\ [][NativeNext]_nativeVars

-----------------------------------------------------------------------------
(* When each space is used on one CPU only, a CPU that is not switching    *)
(* sees exactly the pages of the space it has loaded                       *)
(* (native/vme.c:37-121).                                                  *)
SeesLoadedSpace ==
  \A c \in Cpus : switch[c] = NoSwitch =>
    hostmap[c] = IF vm_head[c] = NULL THEN [va \in Vas |-> None] ELSE page[vm_head[c]]
=============================================================================
