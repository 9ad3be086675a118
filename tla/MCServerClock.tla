--------------------------- MODULE MCServerClock ---------------------------
(***************************************************************************)
(* TLC instance of ServerClock: half milliseconds, two exchanges that      *)
(* overlap, and a browser whose clock is set, by a step that a measurement *)
(* may straddle or by a large one.  At any moment there are syncs that     *)
(* have to be on the screen, that have to be off it, and at every instant  *)
(* in between.                                                             *)
(***************************************************************************)
EXTENDS ServerClock, TLC

BehindOrAhead == {-8, -5, 7}
Instants == -11 .. 17
StartsOrEnds == {[startAt |-> i, endAt |-> 60] : i \in Instants} \cup {[startAt |-> -60, endAt |-> i] : i \in Instants}
Symmetry == Permutations(Exchanges)

=============================================================================
