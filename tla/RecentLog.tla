----------------------------- MODULE RecentLog ------------------------------
(***************************************************************************)
(* What the instruction trace promises: a log of the last Size entries,    *)
(* oldest first.                                                           *)
(***************************************************************************)
EXTENDS Naturals, Sequences

CONSTANTS Size, Entry

VARIABLE log

Init == log = <<>>

Record(e) ==
  log' = IF Len(log) < Size THEN Append(log, e) ELSE Append(Tail(log), e)

Next == \E e \in Entry : Record(e)

Spec == Init /\ [][Next]_log
=============================================================================
