---------------------------- MODULE AddressSpaces ----------------------------
(***************************************************************************)
(* What the virtual-memory interface of the abstract machine (protect,     *)
(* unprotect, map of am.h) promises: every address space is a mapping of   *)
(* its own, and a call changes the space it names at the page it names.    *)
(***************************************************************************)
CONSTANTS Spaces, Pages, Frames

VARIABLES
  present,    \* the spaces that exist
  space,      \* per space, the pages mapped in it
  halted      \* the machine has panicked

spaceVars == <<present, space, halted>>

Target == Frames \X BOOLEAN           \* physical page, writable
Nothing == [p \in {} |-> p]

ASInit ==
  /\ present = {}
  /\ space = [as \in Spaces |-> Nothing]
  /\ halted = FALSE

Protect(as) ==
  /\ as \notin present
  /\ present' = present \cup {as}
  /\ UNCHANGED <<space, halted>>

Unprotect(as) ==
  /\ as \in present
  /\ present' = present \ {as}
  /\ space' = [space EXCEPT ![as] = Nothing]
  /\ UNCHANGED halted

Map(as, p, t) ==
  /\ as \in present
  /\ p \notin DOMAIN space[as]
  /\ space' = [space EXCEPT ![as] =
                 [q \in DOMAIN space[as] \cup {p} |-> IF q = p THEN t ELSE space[as][q]]]
  /\ UNCHANGED <<present, halted>>

Unmap(as, p) ==
  /\ as \in present
  /\ p \in DOMAIN space[as]
  /\ space' = [space EXCEPT ![as] = [q \in DOMAIN space[as] \ {p} |-> space[as][q]]]
  /\ UNCHANGED <<present, halted>>

Panic == halted' = TRUE /\ UNCHANGED <<present, space>>

ASNext ==
  /\ ~halted
  /\ \/ Panic
     \/ \E as \in Spaces :
          \/ Protect(as) \/ Unprotect(as)
          \/ \E p \in Pages : Unmap(as, p) \/ \E t \in Target : Map(as, p, t)

ASSpec == ASInit /\ [][ASNext]_spaceVars
=============================================================================
