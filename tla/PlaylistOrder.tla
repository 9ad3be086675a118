---------------------------- MODULE PlaylistOrder ----------------------------
(***************************************************************************)
(* What an editor of playlists is promised: each window has a list of      *)
(* items, and an edit appends to it, removes from it or moves one of its   *)
(* items, all at once and without touching another window.                 *)
(***************************************************************************)
EXTENDS Integers, SequencesExt

CONSTANTS Windows, Items

VARIABLE order   \* window -> the sequence of its items

Init == order = [w \in Windows |-> <<>>]

AppendItem(w, item) ==
    /\ \A v \in Windows : ~Contains(order[v], item)
    /\ order' = [order EXCEPT ![w] = Append(@, item)]

RemoveItem(w, k) == order' = [order EXCEPT ![w] = RemoveAt(@, k)]

MoveItem(w, k, l) ==
    order' = [order EXCEPT ![w] = InsertAt(RemoveAt(@, k), l, @[k])]

Next ==
    \E w \in Windows :
        \/ \E item \in Items : AppendItem(w, item)
        \/ \E k \in DOMAIN order[w] : RemoveItem(w, k)
        \/ \E k, l \in DOMAIN order[w] : MoveItem(w, k, l)

Spec == Init /\ [][Next]_order
=============================================================================
