--------------------------- MODULE NewestOverride ---------------------------
(***************************************************************************)
(* What the operators are promised about the global override: there is one *)
(* override or none, a newer one replaces it, and once it is over nothing  *)
(* older ever comes back.                                                  *)
(***************************************************************************)
EXTENDS Naturals

VARIABLES
    current,  \* the override on the windows, or None
    newest    \* the newest override there has ever been, or None

None == 0

Init == current = None /\ newest = None

\* A newer override takes over.  It may be over before anyone can see it.
Start ==
    /\ newest' > newest
    /\ current' \in {newest', None}

\* The override ends or is cancelled.
End ==
    /\ current # None
    /\ current' = None
    /\ UNCHANGED newest

Next == Start \/ End

Spec == Init /\ [][Next]_<<current, newest>>
=============================================================================
