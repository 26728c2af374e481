---------------------------- MODULE MCSimulator -----------------------------
(* Simulator on the programs of MCPrograms. *)
EXTENDS Simulator, MCPrograms

MCEbreak == Named["ebreak"]

MCCsrInstrs == {Named[n] : n \in {"csrw", "rdtime"} \intersect Menu}

MCTimerReads == {Named[n] : n \in {"rdtime"} \intersect Menu}
=============================================================================
