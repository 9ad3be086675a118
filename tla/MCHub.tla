------------------------------- MODULE MCHub -------------------------------
(* Instances of Hub for TLC.                                               *)
EXTENDS Hub

CONSTANTS c1, c2, e1, e2, e3

TwoConns == {c1, c2}
ThreeEvents == {e1, e2, e3}

Busy == [conns |-> {c1}, events |-> {e1, e2}, maxPings |-> 1]
Flooded == [conns |-> {c1}, events |-> {e1, e2, e3}, maxPings |-> 0]
Shared == [conns |-> {c1, c2}, events |-> {e1}, maxPings |-> 0]

BusyOrShared == {Busy, Shared}
FloodedOnly == {Flooded}
=============================================================================
