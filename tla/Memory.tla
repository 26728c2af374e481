------------------------------- MODULE Memory -------------------------------
(***************************************************************************)
(* Guest memory of the simulator: loading of the image (main.c), the copy  *)
(* that difftest gives the reference, and the accesses of the core through *)
(* the DPI functions (dpi.c, memory.c), byte by byte.                      *)
(***************************************************************************)
EXTENDS Integers, Sequences

CONSTANTS
  MSIZE,          \* CONFIG_MSIZE, addresses are relative to CONFIG_MBASE
  BuiltinSize,    \* bytes of img
  DefaultSize,    \* what load_img returns without an image
  Bytes,          \* values of a byte
  Words,          \* words the core stores, as their bytes, lowest first
  MaxStores       \* of the core

ASSUME MemoryAssumption ==
  /\ MSIZE \in Nat /\ MSIZE % 4 = 0
  /\ BuiltinSize \in 0 .. MSIZE /\ DefaultSize \in BuiltinSize .. MSIZE
  /\ Bytes \subseteq Nat /\ {0, 1, 2} \subseteq Bytes
  /\ Words \subseteq [1 .. 4 -> Bytes]
  /\ MaxStores \in Nat

VARIABLES
  stage,          \* of init_simulator
  img_size,
  pmem,           \* the memory and, past MSIZE, what lies behind it
  ref,            \* memory of the reference
  access,         \* the last access of the core
  before,         \* history: pmem before it
  stores

memVars == <<stage, img_size, pmem, ref, access, before, stores>>

Lens == {1, 2, 4}
Cells == 0 .. MSIZE + 2                 \* a word access may start at MSIZE - 1
Builtin == 1                            \* bytes of img
Image == 2                              \* bytes of the image file
NoAccess == [kind |-> "none", addr |-> 0, len |-> 1, value |-> <<0, 0, 0, 0>>]

MemTypeOK ==
  /\ stage \in {"init_mem", "builtin", "image", "npc", "run"}
  /\ img_size \in 0 .. MSIZE
  /\ {pmem, ref, before} \subseteq [Cells -> Bytes]
  /\ access \in [kind : {"none", "read", "write", "fetch"}, addr : -1 .. MSIZE,
                 len : Lens, value : [1 .. 4 -> Bytes]]
  /\ stores \in 0 .. MaxStores

MemInit ==
  /\ stage = "init_mem"
  /\ img_size = 0
  /\ pmem = [a \in Cells |-> 0] /\ ref = [a \in Cells |-> 0]
  /\ before = pmem
  /\ access = NoAccess /\ stores = 0

load_builded_img ==
  /\ stage = "init_mem" /\ stage' = "builtin"
  /\ pmem' = [a \in Cells |-> IF a < BuiltinSize THEN Builtin ELSE pmem[a]]
  /\ UNCHANGED <<img_size, ref, access, before, stores>>

(* Without a file the program is the built-in one. *)
load_img ==
  /\ stage = "builtin" /\ stage' = "image"
  /\ \/ img_size' = DefaultSize /\ UNCHANGED pmem
     \/ /\ img_size' \in 1 .. MSIZE
        /\ pmem' = [a \in Cells |-> IF a < img_size' THEN Image ELSE pmem[a]]
  /\ UNCHANGED <<ref, access, before, stores>>

(* ref_difftest_memcpy of img_size bytes. *)
init_difftest ==
  /\ stage = "image" /\ stage' = "run"
  /\ ref' = [a \in Cells |-> IF a < img_size THEN pmem[a] ELSE ref[a]]
  /\ UNCHANGED <<img_size, pmem, access, before, stores>>

-----------------------------------------------------------------------------
InRange(addr) == addr >= 0 /\ addr < MSIZE
Span(addr, len) == addr .. addr + len - 1

(* Faulty variant: as many bytes as a word has, whatever the length. *)
StoreWholeWord(addr, len, data) ==
  [a \in Cells |-> IF a \in Span(addr, 4) THEN data[a - addr + 1] ELSE pmem[a]]

(* Lowest byte first. *)
host_write(addr, len, data) ==
  [a \in Cells |-> IF a \in Span(addr, len) THEN data[a - addr + 1] ELSE pmem[a]]

host_read(addr, len) == [i \in 1 .. 4 |-> IF i <= len THEN pmem[addr + i - 1] ELSE 0]

dpi_mem_write(addr, len, data) ==
  /\ stores < MaxStores /\ stores' = stores + 1
  /\ pmem' = IF InRange(addr) THEN host_write(addr, len, data) ELSE pmem
  /\ access' = [kind |-> "write", addr |-> addr, len |-> len, value |-> data]

dpi_mem_read(addr, len) == IF InRange(addr) THEN host_read(addr, len) ELSE <<0, 0, 0, 0>>

dpi_instr_mem_read(addr) ==
  IF InRange(addr) THEN host_read(addr - (addr % 4), 4) ELSE <<0, 0, 0, 0>>

(* The clocked core calls them with any address. *)
CoreAccess ==
  /\ stage = "run"
  /\ before' = pmem
  /\ \E addr \in -1 .. MSIZE :
       \/ \E len \in Lens, data \in Words : dpi_mem_write(addr, len, data)
       \/ /\ \/ \E len \in Lens :
                  access' = [kind |-> "read", addr |-> addr, len |-> len,
                             value |-> dpi_mem_read(addr, len)]
             \/ access' = [kind |-> "fetch", addr |-> addr, len |-> 4,
                           value |-> dpi_instr_mem_read(addr)]
          /\ UNCHANGED <<pmem, stores>>
  /\ UNCHANGED <<stage, img_size, ref>>

MemNext == load_builded_img \/ load_img \/ init_difftest \/ CoreAccess

MemSpec == MemInit /\ [][MemNext]_memVars

-----------------------------------------------------------------------------
Touched ==
  IF access.kind = "none" \/ ~InRange(access.addr) THEN {}
  ELSE IF access.kind = "fetch" THEN Span(access.addr - (access.addr % 4), 4)
  ELSE Span(access.addr, access.len)

(* A fetch, and a load or store that is aligned to its size, stays in the  *)
(* memory although only its first byte is compared with the bounds.        *)
AlignedInBounds ==
  access.addr % access.len = 0 \/ access.kind = "fetch" => Touched \subseteq 0 .. MSIZE - 1

(* The reference starts with the memory of the core, given an image that   *)
(* is no shorter than the built-in program it is loaded over (a shorter    *)
(* one leaves the rest of that program in the core's memory only).         *)
RefStartsEqual ==
  stage = "run" /\ access = NoAccess /\ img_size >= BuiltinSize => ref = pmem

(* What a store wrote, a load of the same size at its address returns, and *)
(* a load of less or more its low bytes: sizes and byte order agree.  No   *)
(* other byte changes.                                                     *)
LoadReturnsStore ==
  /\ access.kind = "write" /\ InRange(access.addr) =>
       \A len \in Lens, i \in 1 .. 4 :
         i <= len /\ i <= access.len => dpi_mem_read(access.addr, len)[i] = access.value[i]
  /\ access.kind # "none" =>
       \A a \in Cells :
         \/ access.kind = "write" /\ a \in Span(access.addr, access.len)
         \/ pmem[a] = before[a]

(* Memory is what the core and the reference take it for: accesses stay    *)
(* inside it, loads return what stores wrote, and difftest starts from     *)
(* equal memories (dpi.c:13-62, memory.c:20-69, main.c:18-90).             *)
MemorySound == AlignedInBounds /\ RefStartsEqual /\ LoadReturnsStore
=============================================================================
