------------------------------ MODULE Snapshot ------------------------------
(***************************************************************************)
(* Saving and restoring the architectural state (snapshot.c).  CPU and     *)
(* memory are known by the moment they are from; the memory is written and *)
(* read in Blocks pieces, any of which may be the first that fails, and    *)
(* the simulator may be killed while it saves.                             *)
(***************************************************************************)
EXTENDS Naturals, Sequences

CONSTANTS
  Blocks,        \* pieces of the memory
  MaxTime        \* moments of a run

ASSUME SnapshotAssumption == Blocks \in Nat \ {0} /\ MaxTime \in Nat

VARIABLES
  moment,        \* moments the machine has run through
  cpu, mem,      \* the moment the CPU state and each piece of memory is from
  file,          \* the snapshot file: its pieces, CPU state first
  exists,        \* whether it exists
  opened,        \* the moment of the last save that opened the file
  ret            \* the last call and what it returned

snapVars == <<moment, cpu, mem, file, exists, opened, ret>>

Moments == 0 .. MaxTime
Whole(t) == [i \in 1 .. Blocks + 1 |-> t]

SnapshotTypeOK ==
  /\ moment \in Moments /\ cpu \in Moments /\ opened \in Moments
  /\ mem \in [1 .. Blocks -> Moments]
  /\ file \in UNION {[1 .. n -> Moments] : n \in 0 .. Blocks + 1}
  /\ exists \in BOOLEAN
  /\ ret \in {"none", "taken", "not_taken", "restored", "not_restored"}

SnapshotInit ==
  /\ moment = 0 /\ cpu = 0 /\ mem = [i \in 1 .. Blocks |-> 0]
  /\ file = <<>> /\ exists = FALSE /\ opened = 0
  /\ ret = "none"

(* The machine goes on, from a state that is whole. *)
Run ==
  /\ moment < MaxTime
  /\ ret # "not_restored"
  /\ moment' = moment + 1
  /\ cpu' = moment' /\ mem' = [i \in 1 .. Blocks |-> moment']
  /\ ret' = "none"
  /\ UNCHANGED <<file, exists, opened>>

(* fopen with "wb" empties the file, the first n pieces get to the disk. *)
WriteFile(n) ==
  /\ file' = SubSeq(Whole(cpu), 1, n)
  /\ exists' = TRUE
  /\ opened' = cpu

(* Saving, of a state that is whole: all pieces are written; a piece is    *)
(* not, which fwrite reports, or fclose does, which nobody looks at; the   *)
(* file cannot be opened.                                                  *)
take_arch_snapshot ==
  /\ ret # "not_restored"
  /\ \/ \E n \in 0 .. Blocks + 1 : WriteFile(n) /\ ret' = "taken"
     \/ \E n \in 0 .. Blocks : WriteFile(n) /\ ret' = "not_taken"
     \/ UNCHANGED <<file, exists, opened>> /\ ret' = "not_taken"
  /\ UNCHANGED <<moment, cpu, mem>>

(* The process is killed while it saves, and started again. *)
KilledTaking ==
  /\ ret # "not_restored"
  /\ \E n \in 0 .. Blocks + 1 : WriteFile(n)
  /\ cpu' = 0 /\ mem' = [i \in 1 .. Blocks |-> 0] /\ ret' = "none"
  /\ UNCHANGED moment

(* Faulty variant: a short read of the memory is not noticed. *)
RestoreUnchecked ==
  /\ exists /\ file # <<>>
  /\ cpu' = file[1]
  /\ mem' = [i \in 1 .. Blocks |-> IF i + 1 <= Len(file) THEN file[i + 1] ELSE mem[i]]
  /\ ret' = "restored"
  /\ UNCHANGED <<moment, file, exists, opened>>

(* The CPU state is replaced before the memory is read, and the memory as  *)
(* far as the file goes.                                                   *)
restore_arch_snapshot ==
  /\ cpu' = IF file # <<>> THEN file[1] ELSE cpu
  /\ mem' = [i \in 1 .. Blocks |-> IF i + 1 <= Len(file) THEN file[i + 1] ELSE mem[i]]
  /\ ret' = IF exists /\ Len(file) = Blocks + 1 THEN "restored" ELSE "not_restored"
  /\ UNCHANGED <<moment, file, exists, opened>>

SnapshotNext == Run \/ take_arch_snapshot \/ KilledTaking \/ restore_arch_snapshot

SnapshotSpec == SnapshotInit /\ [][SnapshotNext]_snapVars

-----------------------------------------------------------------------------
(* What restore_arch_snapshot reports as restored is the whole state of    *)
(* the last save that got as far as the file, whichever saves failed or    *)
(* were cut off before.                                                    *)
RestoresOneMoment ==
  ret = "restored" => cpu = opened /\ \A i \in 1 .. Blocks : mem[i] = opened
=============================================================================
