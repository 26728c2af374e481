------------------------------ MODULE MCParts -------------------------------
(***************************************************************************)
(* The smaller parts of the simulator and of the abstract machine, each on *)
(* an instance of its own.  A behaviour is about one part; the others keep *)
(* their first state.                                                      *)
(***************************************************************************)
EXTENDS InstrTrace, X86Vme, X86Rtc, X86Cte, Snapshot, Memory

VARIABLE part

partVars == <<part, traceVars, vmeVars, rtcVars, snapVars, memVars, cteVars>>

PartsInit ==
  /\ part \in {"trace", "vme", "rtc", "snapshot", "memory", "cte"}
  /\ Init /\ X86VmeInit /\ SnapshotInit /\ MemInit
  /\ X86RtcInit
  /\ part # "rtc" => now = 0 /\ pc = "old"
  /\ X86CteInit

TracePart ==
  /\ part = "trace" /\ Next
  /\ UNCHANGED <<part, vmeVars, rtcVars, snapVars, memVars, cteVars>>
VmePart ==
  /\ part = "vme" /\ X86VmeNext
  /\ UNCHANGED <<part, traceVars, rtcVars, snapVars, memVars, cteVars>>
RtcPart ==
  /\ part = "rtc" /\ X86RtcNext
  /\ UNCHANGED <<part, traceVars, vmeVars, snapVars, memVars, cteVars>>
SnapshotPart ==
  /\ part = "snapshot" /\ SnapshotNext
  /\ UNCHANGED <<part, traceVars, vmeVars, rtcVars, memVars, cteVars>>
MemoryPart ==
  /\ part = "memory" /\ MemNext
  /\ UNCHANGED <<part, traceVars, vmeVars, rtcVars, snapVars, cteVars>>
CtePart ==
  /\ part = "cte" /\ X86CteNext
  /\ UNCHANGED <<part, traceVars, vmeVars, rtcVars, snapVars, memVars>>

PartsNext ==
  TracePart \/ VmePart \/ RtcPart \/ SnapshotPart \/ MemoryPart \/ CtePart

PartsSpec == PartsInit /\ [][PartsNext]_partVars

-----------------------------------------------------------------------------
(* Pages of the kernel's area and of two more entries of the directory. *)
MCVas == {<<0, 0>>, <<1, 0>>, <<2, 0>>}

(* The word tells its bytes apart, but not from their neighbours. *)
MCWords == {<<3, 4, 3, 4>>}

(* Two threads share a space. *)
MCSpaceOf(t) == IF t = "u3" THEN "s1" ELSE "s2"

-----------------------------------------------------------------------------
(* Trace, page tables, clock registers, snapshot file, memory and contexts *)
(* stay within their types.                                                *)
PartsTypeOK ==
  /\ part = "trace" => TraceTypeOK
  /\ part = "vme" => X86VmeTypeOK
  /\ part = "rtc" => X86RtcTypeOK
  /\ part = "snapshot" => SnapshotTypeOK
  /\ part = "memory" => MemTypeOK
  /\ part = "cte" => X86CteTypeOK
=============================================================================
