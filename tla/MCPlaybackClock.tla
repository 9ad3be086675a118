--------------------------- MODULE MCPlaybackClock ---------------------------
(* An instance of PlaybackClock for TLC.                                   *)
EXTENDS PlaybackClock

Both == {"go", "js"}
SomeSeconds == {-1, 0, 1, 2}
OneAnchor == 3
AroundAnchor == -8 .. 15
SomeSteps == {-2, 1, 2, 3}
=============================================================================
