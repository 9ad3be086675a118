--------------------------- MODULE MCPlaylistFeed ---------------------------
(* Instances of PlaylistFeed for TLC.                                      *)
EXTENDS PlaylistFeed

CONSTANTS w1, w2, b1, e1, e2, curl

TwoWindows == {w1, w2}
OneBrowser == {b1}
TwoEdits == {e1, e2}

Any == {"db", "net"}

\* One edit, of a window or creating another; requests that overlap; two edits of
\* a window, the first of which creates it.
OneEdit == [windows |-> {w1, w2}, first |-> {w1}, edits |-> {e1}, requests |-> {1},
            maxConnects |-> 2, faults |-> Any]
Overlapping == [windows |-> {w1}, first |-> {w1}, edits |-> {e1}, requests |-> {1, 2},
                maxConnects |-> 2, faults |-> Any]
TwoInARow == [windows |-> {w1}, first |-> {}, edits |-> {e1, e2}, requests |-> {1},
              maxConnects |-> 2, faults |-> Any]
Faultless == [windows |-> {w1}, first |-> {w1}, edits |-> {e1, e2}, requests |-> {1},
              maxConnects |-> 1, faults |-> {}]

AnyOfThree == {OneEdit, Overlapping, TwoInARow}
NoFault == {Faultless}
=============================================================================
