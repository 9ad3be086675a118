-------------------------- MODULE MCPlaylistStore --------------------------
(* Instances of PlaylistStore for TLC.                                     *)
EXTENDS PlaylistStore, TLC

CONSTANTS w1, w2, r1, r2

TwoWindows == {w1, w2}
TwoRequests == {r1, r2}

\* A refused position, the first, a middle one and one beyond the end.
MCTargets == {-1, 0, 1, 9}

=============================================================================
