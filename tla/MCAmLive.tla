------------------------------ MODULE MCAmLive ------------------------------
(***************************************************************************)
(* The parts of the abstract machine whose processors wait for each other  *)
(* or share words.  A behaviour is about one part; the others keep their   *)
(* first state.                                                            *)
(***************************************************************************)
EXTENDS Htif, X86Boot, NativeVme

VARIABLE part   \* "htif", "boot" or "native"

vars == <<part, htifVars, bootVars, nativeVars>>

Init == part \in {"htif", "boot", "native"} /\ HtifInit /\ X86BootInit /\ NativeInit

HtifPart == part = "htif" /\ HtifNext /\ UNCHANGED <<part, bootVars, nativeVars>>
BootPart == part = "boot" /\ X86BootNext /\ UNCHANGED <<part, htifVars, nativeVars>>
NativePart == part = "native" /\ NativeNext /\ UNCHANGED <<part, htifVars, bootVars>>

Next == HtifPart \/ BootPart \/ NativePart

(* Every processor goes on, interrupts arrive, and the bootstrap CPU stays *)
(* in its loop; no CPU has to halt.                                        *)
BootFairness ==
  /\ \A c \in CPUs : WF_bootVars(part = "boot" /\ CpuStep(c))
  /\ WF_bootVars(part = "boot" /\ (WakeNext \/ PollReady))

Spec == Init /\ [][Next]_vars /\ HtifFairness /\ BootFairness

-----------------------------------------------------------------------------
(* The threads of a CPU of the native machine keep to the spaces of it. *)
MCMayLoad(c) == IF c = 1 THEN {"s1", "s2"} ELSE {"s3"}

-----------------------------------------------------------------------------
(* The shared words, the boot record, what the processors execute and the  *)
(* host mappings stay within their types.                                  *)
AmTypeOK == HtifTypeOK /\ X86BootTypeOK /\ NativeTypeOK
=============================================================================
