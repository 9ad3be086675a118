--------------------------- MODULE PlaybackClock ---------------------------
(***************************************************************************)
(* The playback clock: what a window shows is computed from its playlist,  *)
(* its cycle anchor and the time, by the server (playback.go, written in   *)
(* Go) and by every browser (playback.js).  The loops are taken one        *)
(* iteration at a time: laying the playlist out on a timeline, and the     *)
(* binary search for the item that covers an offset.  A render, or a       *)
(* request for the current playback, is one run from "build" or "resolve"  *)
(* to "done"; between runs time passes, the browser's estimate of the      *)
(* server's clock is corrected, or the playlist is edited.                 *)
(*                                                                         *)
(* Indexes count from 0, as in the code; item i of the timeline is         *)
(* timeline.items[i + 1].                                                  *)
(***************************************************************************)
EXTENDS Integers, Sequences

CONSTANTS
    Languages,        \* which of the implementations: "go", "js"
    Seconds,          \* the durations a media item may be configured with
    MillisPerSecond,  \* 1000
    MaxItems,         \* bound on the length of a playlist
    CycleMillis,      \* playback.CycleMillis and CYCLE_MILLIS
    Anchor,           \* the window's cycle anchor
    Instants,         \* the times at which the window is looked at
    Steps             \* how far the clock may move from one look to the next

ASSUME LanguagesAssumption == Languages \subseteq {"go", "js"}
ASSUME DurationsAssumption == Seconds \subseteq Int /\ MillisPerSecond \in Nat \ {0}
ASSUME CycleAssumption == CycleMillis \in Nat \ {0}
ASSUME TimeAssumption == Anchor \in Int /\ Instants \subseteq Int /\ Steps \subseteq Int

VARIABLES
    lang,      \* the implementation that runs
    playlist,  \* the configured durations, in seconds, in playlist order
    now,       \* nowMillis
    pc,
    next,      \* the playlist item NewTimeline looks at
    timeline,  \* Timeline: items, starts, total
    at,        \* where in its cycle and its playlist the window is
    lo, hi,    \* the bounds of indexAt
    shown,     \* the State that is returned and rendered, or Fallback
    previous   \* the last render of the same playlist, and its time

vars == <<lang, playlist, now, pc, next, timeline, at, lo, hi, shown, previous>>

Playlists == UNION {[1 .. n -> Seconds] : n \in 0 .. MaxItems}
Item == [playlistItemId : Nat, durationMillis : Nat \ {0}]
EmptyTimeline == [items |-> <<>>, starts |-> <<>>, total |-> 0]

Fallback == [index |-> -1]
State == [item : Item, index : Nat, cycleIndex : Int,
          elapsedInCycle : 0 .. CycleMillis - 1, loopIteration : Nat,
          elapsedInItem : Nat, remainingInItem : Nat \ {0}, truncatedByCycle : BOOLEAN]

Nowhere == [cycleIndex |-> 0, elapsedInCycle |-> 0, loopIteration |-> 0, offset |-> 0]
NotShown == [state |-> Fallback, time |-> Anchor]

-----------------------------------------------------------------------------
(* The arithmetic of the two languages.                                    *)

\* Go's a / b rounds towards zero.  The divisors here are positive.
Quotient(a, b) == IF a >= 0 THEN a \div b ELSE -((-a) \div b)
Remainder(a, b) == a - b * Quotient(a, b)

GoFloorDiv(a, b) ==
    IF Remainder(a, b) # 0 /\ (a < 0) # (b < 0) THEN Quotient(a, b) - 1 ELSE Quotient(a, b)

\* Math.floor(a / b)
JsFloorDiv(a, b) == a \div b

\* Mutant: a division that forgets that Go rounds towards zero.
FloorDivTruncating(a, b) == IF lang = "go" THEN Quotient(a, b) ELSE JsFloorDiv(a, b)

FloorDiv(a, b) == IF lang = "go" THEN GoFloorDiv(a, b) ELSE JsFloorDiv(a, b)

\* Mutant: the usual midpoint, rounded down.
MidDown(l, h) == Quotient(l + h, 2)

GoMid(l, h) == Quotient(l + h + 1, 2)

\* Math.ceil((lo + hi) / 2)
JsMid(l, h) == -((-(l + h)) \div 2)

Mid(l, h) == IF lang = "go" THEN GoMid(l, h) ELSE JsMid(l, h)

-----------------------------------------------------------------------------
Init ==
    /\ lang \in Languages
    /\ playlist \in Playlists
    /\ now \in Instants
    /\ pc = "build"
    /\ next = 1
    /\ timeline = EmptyTimeline
    /\ at = Nowhere
    /\ lo = 0 /\ hi = 0
    /\ shown = Fallback
    /\ previous = NotShown

Duration(n) == playlist[n] * MillisPerSecond

\* Mutant: items of no duration stay.
LayOutAll ==
    /\ pc = "build" /\ next <= Len(playlist)
    /\ timeline' =
         IF Duration(next) < 0 THEN timeline
         ELSE [items |-> Append(timeline.items,
                                [playlistItemId |-> next, durationMillis |-> Duration(next)]),
               starts |-> Append(timeline.starts, timeline.total),
               total |-> timeline.total + Duration(next)]
    /\ next' = next + 1
    /\ UNCHANGED <<lang, playlist, now, pc, at, lo, hi, shown, previous>>

\* One iteration of NewTimeline: an item that takes time goes behind the others.
LayOut ==
    /\ pc = "build" /\ next <= Len(playlist)
    /\ timeline' =
         IF Duration(next) <= 0 THEN timeline
         ELSE [items |-> Append(timeline.items,
                                [playlistItemId |-> next, durationMillis |-> Duration(next)]),
               starts |-> Append(timeline.starts, timeline.total),
               total |-> timeline.total + Duration(next)]
    /\ next' = next + 1
    /\ UNCHANGED <<lang, playlist, now, pc, at, lo, hi, shown, previous>>

TimelineBuilt ==
    /\ pc = "build" /\ next > Len(playlist)
    /\ pc' = "resolve"
    /\ UNCHANGED <<lang, playlist, now, next, timeline, at, lo, hi, shown, previous>>

\* Nothing in the playlist takes time: the window shows its fallback.
NothingPlayable ==
    /\ pc = "resolve" /\ timeline.total <= 0
    /\ shown' = Fallback
    /\ pc' = "done"
    /\ UNCHANGED <<lang, playlist, now, next, timeline, at, lo, hi, previous>>

\* Resolve up to its call of indexAt.
Resolve ==
    /\ pc = "resolve" /\ timeline.total > 0
    /\ LET delta == now - Anchor
           cycleIndex == FloorDiv(delta, CycleMillis)
           elapsedInCycle == delta - cycleIndex * CycleMillis
       IN  at' = [cycleIndex |-> cycleIndex,
                  elapsedInCycle |-> elapsedInCycle,
                  loopIteration |-> FloorDiv(elapsedInCycle, timeline.total),
                  offset |-> elapsedInCycle % timeline.total]
    /\ lo' = 0 /\ hi' = Len(timeline.starts) - 1
    /\ pc' = "search"
    /\ UNCHANGED <<lang, playlist, now, next, timeline, shown, previous>>

\* Mutant: an item is left only after its last instant.
SearchBehind ==
    /\ pc = "search" /\ lo < hi
    /\ LET mid == Mid(lo, hi)
       IN  IF timeline.starts[mid + 1] < at.offset
           THEN lo' = mid /\ UNCHANGED hi
           ELSE hi' = mid - 1 /\ UNCHANGED lo
    /\ UNCHANGED <<lang, playlist, now, pc, next, timeline, at, shown, previous>>

\* One iteration of indexAt.
Search ==
    /\ pc = "search" /\ lo < hi
    /\ LET mid == Mid(lo, hi)
       IN  IF timeline.starts[mid + 1] <= at.offset
           THEN lo' = mid /\ UNCHANGED hi
           ELSE hi' = mid - 1 /\ UNCHANGED lo
    /\ UNCHANGED <<lang, playlist, now, pc, next, timeline, at, shown, previous>>

\* Mutant: the end of the cycle does not cut an item short.
RemainingUncut(itemRemaining, cycleRemaining) == itemRemaining

\* What is left of the item: its own rest, or the rest of the cycle.
Remaining(itemRemaining, cycleRemaining) ==
    IF cycleRemaining < itemRemaining THEN cycleRemaining ELSE itemRemaining

Show ==
    /\ pc = "search" /\ lo >= hi
    /\ LET item == timeline.items[lo + 1]
           elapsedInItem == at.offset - timeline.starts[lo + 1]
           itemRemaining == item.durationMillis - elapsedInItem
           cycleRemaining == CycleMillis - at.elapsedInCycle
       IN  shown' = [item |-> item, index |-> lo, cycleIndex |-> at.cycleIndex,
                     elapsedInCycle |-> at.elapsedInCycle,
                     loopIteration |-> at.loopIteration,
                     elapsedInItem |-> elapsedInItem,
                     remainingInItem |-> Remaining(itemRemaining, cycleRemaining),
                     truncatedByCycle |-> cycleRemaining < itemRemaining]
    /\ pc' = "done"
    /\ at' = Nowhere /\ lo' = 0 /\ hi' = 0
    /\ UNCHANGED <<lang, playlist, now, next, timeline, previous>>

\* The time of a later look at the same playlist.
Later(d) ==
    /\ pc = "done" /\ now + d \in Instants
    /\ now' = now + d
    /\ previous' = [state |-> shown, time |-> now]
    /\ shown' = Fallback
    /\ UNCHANGED <<lang, playlist, at, lo, hi>>

\* The browser's tick: the component keeps its timeline (useMemo).
Tick(d) ==
    /\ lang = "js" /\ Later(d)
    /\ pc' = "resolve"
    /\ UNCHANGED <<next, timeline>>

\* Another request to the server, which builds the timeline again.
CurrentPlayback(d) ==
    /\ lang = "go" /\ Later(d)
    /\ pc' = "build" /\ next' = 1 /\ timeline' = EmptyTimeline

\* The window arrives with another playlist: both build a new timeline.
Edit(p) ==
    /\ pc = "done" /\ p # playlist
    /\ playlist' = p
    /\ pc' = "build" /\ next' = 1 /\ timeline' = EmptyTimeline
    /\ shown' = Fallback /\ previous' = NotShown
    /\ UNCHANGED <<lang, now, at, lo, hi>>

Render == LayOut \/ TimelineBuilt \/ NothingPlayable \/ Resolve \/ Search \/ Show

Next == Render \/ (\E d \in Steps : Tick(d) \/ CurrentPlayback(d)) \/ (\E p \in Playlists : Edit(p))

\* A computation that has begun goes on to its end.
Spec == Init /\ [][Next]_vars /\ WF_vars(Render)

-----------------------------------------------------------------------------
\* Every variable has its type; at the time a window is shown, the position
\* in the cycle lies inside the cycle, before the anchor too.
TypeOK ==
    /\ lang \in Languages
    /\ playlist \in Seq(Seconds)
    /\ now \in Int
    /\ pc \in {"build", "resolve", "search", "done"}
    /\ next \in Nat \ {0}
    /\ timeline \in [items : Seq(Item), starts : Seq(Nat), total : Nat]
    /\ at \in [cycleIndex : Int, elapsedInCycle : 0 .. CycleMillis - 1,
               loopIteration : Nat, offset : Nat]
    /\ lo \in Nat /\ hi \in Nat
    /\ shown \in State \cup {Fallback}
    /\ previous \in [state : State \cup {Fallback}, time : Int]

\* Items follow each other without a gap, from 0 to the length of one pass.
BackToBack ==
    LET n == Len(timeline.items)
        End(i) == timeline.starts[i] + timeline.items[i].durationMillis
    IN  /\ Len(timeline.starts) = n
        /\ n = 0 => timeline.total = 0
        /\ n > 0 => timeline.starts[1] = 0 /\ timeline.total = End(n)
        /\ \A i \in 1 .. n - 1 : timeline.starts[i + 1] = End(i)

\* The timeline holds the items that take time, all of them, in their order.
HoldsPlayable(upTo) ==
    LET Id(i) == timeline.items[i].playlistItemId
    IN  /\ \A i \in 1 .. Len(timeline.items) :
              /\ Id(i) \in 1 .. upTo
              /\ timeline.items[i].durationMillis = Duration(Id(i))
              /\ Duration(Id(i)) > 0
        /\ \A i, j \in 1 .. Len(timeline.items) : i < j => Id(i) < Id(j)
        /\ \A n \in 1 .. upTo : Duration(n) > 0 =>
              \E i \in 1 .. Len(timeline.items) : Id(i) = n

\* Whatever the durations in the database, one pass through the timeline that
\* NewTimeline leaves plays exactly the items of positive duration, in playlist
\* order and without gaps; so does the browser's memoised timeline after edits
\* and ticks.
TimelineIsPlaylist ==
    pc \in {"resolve", "search", "done"} => BackToBack /\ HoldsPlayable(Len(playlist))

\* The rendered state is the one the timeline prescribes for this instant: the
\* anchor, whole cycles, whole passes, the items before and the elapsed part
\* add up to the time, and the item ends at its own end or at the cycle's,
\* whichever comes first.  The conditions determine the state, so server and
\* browsers that agree on the time agree on what is shown.
ShownIsScheduled ==
    pc = "done" =>
        IF timeline.items = <<>> THEN shown = Fallback
        ELSE /\ shown \in State
             /\ shown.index < Len(timeline.items)
             /\ shown.item = timeline.items[shown.index + 1]
             /\ now = Anchor + shown.cycleIndex * CycleMillis + shown.elapsedInCycle
             /\ shown.elapsedInCycle =
                    shown.loopIteration * timeline.total
                    + timeline.starts[shown.index + 1] + shown.elapsedInItem
             /\ shown.elapsedInItem < shown.item.durationMillis
             /\ LET own == shown.item.durationMillis - shown.elapsedInItem
                    rest == CycleMillis - shown.elapsedInCycle
                IN  /\ shown.remainingInItem \in {own, rest}
                    /\ shown.remainingInItem <= own /\ shown.remainingInItem <= rest
                    /\ shown.truncatedByCycle = (rest < own)

OccurrenceKey(s) == <<s.cycleIndex, s.loopIteration, s.index, s.item.playlistItemId>>

\* s is the occurrence that has to follow p: the next item, the first item of
\* the next pass, or the first item of the next cycle.
Follows(s, p) ==
    LET cycleOver == p.elapsedInCycle + p.remainingInItem = CycleMillis
        passOver == p.index = Len(timeline.items) - 1
    IN  /\ s.elapsedInItem = 0
        /\ s.cycleIndex = IF cycleOver THEN p.cycleIndex + 1 ELSE p.cycleIndex
        /\ s.index = IF cycleOver \/ passOver THEN 0 ELSE p.index + 1
        /\ s.loopIteration =
             IF cycleOver THEN 0
             ELSE IF passOver THEN p.loopIteration + 1 ELSE p.loopIteration

\* From one look to the next, an item plays on at the same pace for exactly the
\* time the last state said was left, and is then followed without a gap by
\* the right one; the key that restarts the video changes when, and only when,
\* another occurrence begins.
PlaysOn ==
    (pc = "done" /\ shown # Fallback /\ previous.state # Fallback) =>
        LET p == previous.state
            d == now - previous.time
        IN  /\ d \in -p.elapsedInItem .. p.remainingInItem - 1
                 <=> OccurrenceKey(shown) = OccurrenceKey(p)
            /\ OccurrenceKey(shown) = OccurrenceKey(p) =>
                 shown.elapsedInItem = p.elapsedInItem + d
            /\ d = p.remainingInItem => Follows(shown, p)

\* Every computation ends, whatever the playlist: no bad duration and no
\* rounding of the binary search makes a loop endless.
EveryRenderEnds == pc # "done" ~> pc = "done"
=============================================================================
