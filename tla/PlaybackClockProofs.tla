------------------------ MODULE PlaybackClockProofs ------------------------
(***************************************************************************)
(* What PlaybackClock's run checks for a few durations and instants holds  *)
(* for all: any durations, any cycle, anchor and time, both languages;     *)
(* first of one look at the schedule, then of a look and the next.         *)
(***************************************************************************)
EXTENDS PlaybackClock, TLAPS

-----------------------------------------------------------------------------
(* Division.                                                               *)

\* The quotient and the remainder of a positive divisor.
LEMMA DivMod ==
    ASSUME NEW a \in Int, NEW b \in Nat \ {0}
    PROVE  /\ a \div b \in Int
           /\ a % b \in 0 .. b - 1
           /\ a = b * (a \div b) + (a % b)
  BY SMT

\* Both implementations of floorDiv round towards minus infinity.
LEMMA FloorDivIsFloor ==
    ASSUME NEW a \in Int, NEW b \in Nat \ {0}
    PROVE  FloorDiv(a, b) = a \div b
<1>1. Quotient(a, b) \in Int /\ Remainder(a, b) \in Int
  BY DivMod, -a \in Int DEF Quotient, Remainder
<1>2. CASE a >= 0
  <2>1. Quotient(a, b) = a \div b
    BY <1>2 DEF Quotient
  <2>2. GoFloorDiv(a, b) = a \div b
    BY <2>1, <1>2 DEF GoFloorDiv
  <2> QED
    BY <2>2 DEF FloorDiv, JsFloorDiv
<1>3. CASE a < 0
  <2> DEFINE q == (-a) \div b
             r == (-a) % b
  <2>1. q \in Int /\ r \in 0 .. b - 1 /\ -a = b * q + r
    BY DivMod, -a \in Int
  <2>2. Quotient(a, b) = -q
    BY <1>3 DEF Quotient
  <2> HIDE DEF q, r
  <2>3. Remainder(a, b) = -r
    <3>1. a - b * (-q) = -r
      BY <2>1, SMT
    <3> QED
      BY <2>2, <3>1 DEF Remainder
  <2>4. GoFloorDiv(a, b) = IF r # 0 THEN -q - 1 ELSE -q
    BY <2>1, <2>2, <2>3, <1>3 DEF GoFloorDiv
  <2>5. a \div b = IF r # 0 THEN -q - 1 ELSE -q
    <3> DEFINE u == a \div b
               v == a % b
    <3>1. u \in Int /\ v \in 0 .. b - 1 /\ a = b * u + v
      BY DivMod
    <3> HIDE DEF u, v
    <3>2. CASE r = 0
      <4>1. b * (u + q) = -v
        BY <2>1, <3>1, <3>2, SMT
      <4>2. u + q = 0
        BY <4>1, <2>1, <3>1, SMT
      <4> QED
        BY <4>2, <3>2, <3>1, <2>1 DEF u
    <3>3. CASE r # 0
      <4>1. b * (u + q + 1) = b - r - v
        BY <2>1, <3>1, <3>3, SMT
      <4>2. u + q + 1 = 0
        BY <4>1, <2>1, <3>1, <3>3, SMT
      <4> QED
        BY <4>2, <3>3, <3>1, <2>1 DEF u
    <3> QED
      BY <3>2, <3>3
  <2> QED
    BY <2>4, <2>5 DEF FloorDiv, JsFloorDiv
<1> QED
  BY <1>2, <1>3

\* Both implementations take the upper of two middles, so that a search that
\* moves lo to it has made its range smaller.
LEMMA MidIsUpper ==
    ASSUME NEW l \in Nat, NEW h \in Nat, l < h
    PROVE  Mid(l, h) \in l + 1 .. h
<1>1. (l + h + 1) \div 2 \in l + 1 .. h
  BY SMT
<1>2. -((-(l + h)) \div 2) \in l + 1 .. h
  BY SMT
<1> QED
  BY <1>1, <1>2 DEF Mid, GoMid, JsMid, Quotient

-----------------------------------------------------------------------------
(* The inductive invariant.                                                *)

\* The items NewTimeline has been through are on the timeline, the others not.
LaidOut ==
    /\ BackToBack
    /\ HoldsPlayable(IF pc = "build" THEN next - 1 ELSE Len(playlist))
    /\ pc = "build" => next <= Len(playlist) + 1

\* While indexAt runs, the position that Resolve worked out stands for the time.
Located ==
    pc = "search" =>
        /\ timeline.items # <<>>
        /\ now = Anchor + at.cycleIndex * CycleMillis + at.elapsedInCycle
        /\ at.elapsedInCycle = at.loopIteration * timeline.total + at.offset
        /\ at.offset < timeline.total

\* The item that covers the offset is always between lo and hi.
Bracketed ==
    pc = "search" =>
        /\ lo <= hi /\ hi < Len(timeline.starts)
        /\ timeline.starts[lo + 1] <= at.offset
        /\ hi < Len(timeline.starts) - 1 => at.offset < timeline.starts[hi + 2]

\* A number of whole passes and cycles that fits is what is on the screen.
Inv == TypeOK /\ LaidOut /\ Located /\ Bracketed /\ ShownIsScheduled

LEMMA InitInv == Init => Inv
<1> SUFFICES ASSUME Init PROVE Inv
  OBVIOUS
<1> USE DEF Init
<1>1. playlist \in Seq(Seconds)
  <2>1. PICK n \in 0 .. MaxItems : playlist \in [1 .. n -> Seconds]
    BY DEF Playlists
  <2> QED
    BY <2>1, SMT
<1>2. TypeOK
  <2>1. Nowhere \in [cycleIndex : Int, elapsedInCycle : 0 .. CycleMillis - 1,
                     loopIteration : Nat, offset : Nat]
    BY CycleAssumption DEF Nowhere
  <2>2. EmptyTimeline \in [items : Seq(Item), starts : Seq(Nat), total : Nat]
    BY DEF EmptyTimeline
  <2>3. NotShown \in [state : State \cup {Fallback}, time : Int]
    BY TimeAssumption DEF NotShown
  <2> QED
    BY <1>1, <2>1, <2>2, <2>3, TimeAssumption DEF TypeOK
<1>3. BackToBack /\ HoldsPlayable(0)
  BY DEF BackToBack, HoldsPlayable, EmptyTimeline
<1>4. LaidOut
  BY <1>1, <1>3 DEF LaidOut
<1> QED
  BY <1>2, <1>4 DEF Inv, Located, Bracketed, ShownIsScheduled

\* What Append leaves where it was, and what it adds.
LEMMA AppendFacts ==
    ASSUME NEW S, NEW s \in Seq(S), NEW e \in S
    PROVE  /\ Append(s, e) \in Seq(S)
           /\ Len(Append(s, e)) = Len(s) + 1
           /\ Append(s, e)[Len(s) + 1] = e
           /\ \A i \in 1 .. Len(s) : Append(s, e)[i] = s[i]
  OBVIOUS

\* The duration of a configured item is a number of milliseconds.
LEMMA DurationInt ==
    ASSUME TypeOK, NEW n \in 1 .. Len(playlist)
    PROVE  Duration(n) \in Int
<1>1. playlist[n] \in Seconds
  BY DEF TypeOK
<1>2. playlist[n] \in Int /\ MillisPerSecond \in Int
  <2>1. Seconds \subseteq Int /\ MillisPerSecond \in Nat \ {0}
    BY DurationsAssumption
  <2>2. playlist[n] \in Int
    BY <1>1, <2>1, Zenon
  <2> QED
    BY <2>1, <2>2
<1> QED
  BY <1>2 DEF Duration

\* A playable item goes where the ones before it end, and keeps the order.
LEMMA LayOutInv ==
    ASSUME Inv, LayOut
    PROVE  Inv'
<1> DEFINE item == [playlistItemId |-> next, durationMillis |-> Duration(next)]
           n == Len(timeline.items)
<1>1. /\ playlist \in Seq(Seconds) /\ next \in Nat \ {0}
      /\ pc = "build" /\ n \in Nat /\ next <= Len(playlist)
      /\ timeline.items \in Seq(Item) /\ timeline.starts \in Seq(Nat)
      /\ timeline.total \in Nat
  BY DEF Inv, TypeOK, LayOut
<1>2. Duration(next) \in Int
  BY <1>1, DurationInt DEF Inv
<1>3. BackToBack /\ HoldsPlayable(next - 1)
  BY <1>1 DEF Inv, LaidOut
<1>4. /\ next' = next + 1 /\ next' - 1 = next /\ pc' = "build"
      /\ UNCHANGED <<lang, playlist, now, pc, at, lo, hi, shown, previous>>
  BY <1>1 DEF LayOut
<1>5. \A m : Duration(m)' = Duration(m)
  BY <1>4 DEF Duration
<1>6. CASE Duration(next) <= 0
  <2>1. UNCHANGED timeline
    BY <1>6 DEF LayOut
  <2>2. TypeOK'
    BY <1>1, <1>4, <2>1 DEF Inv, TypeOK
  <2>3. HoldsPlayable(next - 1)'
    <3> DEFINE id(i) == timeline.items[i].playlistItemId
    <3>1. /\ \A i \in 1 .. n : id(i) \in 1 .. next - 1
                              /\ timeline.items[i].durationMillis = Duration(id(i))
                              /\ Duration(id(i)) > 0
          /\ \A i, j \in 1 .. n : i < j => id(i) < id(j)
          /\ \A m \in 1 .. next - 1 : Duration(m) > 0 => \E i \in 1 .. n : id(i) = m
      BY <1>3 DEF HoldsPlayable
    <3>2. \A i \in 1 .. n : id(i) \in 1 .. next
      BY <3>1, <1>1
    <3>3. \A m \in 1 .. next : Duration(m) > 0 => \E i \in 1 .. n : id(i) = m
      <4> SUFFICES ASSUME NEW m \in 1 .. next, Duration(m) > 0
                   PROVE  \E i \in 1 .. n : id(i) = m
        OBVIOUS
      <4>1. m # next
        BY <1>6, <1>2, SMT
      <4> QED
        BY <4>1, <3>1, <1>1
    <3> HIDE DEF id
    <3>4. /\ Len(timeline'.items) = n /\ \A i : timeline'.items[i].playlistItemId = id(i)
          /\ \A i : timeline'.items[i] = timeline.items[i]
      BY <2>1 DEF id
    <3> QED
      BY <3>1, <3>2, <3>3, <3>4, <1>4, <1>5 DEF HoldsPlayable
  <2>4. BackToBack'
    BY <1>3, <2>1 DEF BackToBack
  <2>5. LaidOut'
    BY <1>1, <1>4, <2>3, <2>4 DEF LaidOut
  <2> QED
    BY <1>4, <2>2, <2>5 DEF Inv, Located, Bracketed, ShownIsScheduled
<1>7. CASE Duration(next) > 0
  <2>1. /\ timeline' = [items |-> Append(timeline.items, item),
                        starts |-> Append(timeline.starts, timeline.total),
                        total |-> timeline.total + Duration(next)]
    BY <1>2, <1>7 DEF LayOut
  <2>2. /\ item \in Item /\ item.playlistItemId = next
        /\ item.durationMillis = Duration(next)
    BY <1>1, <1>2, <1>7 DEF Item
  <2> HIDE DEF item
  <2>3. /\ timeline'.items = Append(timeline.items, item)
        /\ timeline'.starts = Append(timeline.starts, timeline.total)
        /\ timeline'.total = timeline.total + item.durationMillis
        /\ timeline' \in [items : Seq(Item), starts : Seq(Nat), total : Nat]
    <3>1. Append(timeline.items, item) \in Seq(Item)
      BY <1>1, <2>2
    <3>2. Append(timeline.starts, timeline.total) \in Seq(Nat)
      BY <1>1
    <3>3. timeline.total + Duration(next) \in Nat
      BY <1>1, <1>2, <1>7
    <3> QED
      BY <2>1, <2>2, <3>1, <3>2, <3>3
  <2>4. TypeOK'
    BY <1>1, <1>4, <2>3 DEF Inv, TypeOK
  <2>5. /\ Len(timeline.starts) = n
        /\ n = 0 => timeline.total = 0
        /\ n > 0 => /\ timeline.starts[1] = 0
                    /\ timeline.total = timeline.starts[n] + timeline.items[n].durationMillis
        /\ \A i \in 1 .. n - 1 :
              timeline.starts[i + 1] = timeline.starts[i] + timeline.items[i].durationMillis
    BY <1>3 DEF BackToBack
  <2>6. /\ Len(timeline'.items) = n + 1 /\ Len(timeline'.starts) = n + 1
        /\ timeline'.items[n + 1] = item /\ timeline'.starts[n + 1] = timeline.total
        /\ \A i \in 1 .. n : /\ timeline'.items[i] = timeline.items[i]
                            /\ timeline'.starts[i] = timeline.starts[i]
    <3>1. /\ Len(timeline'.items) = n + 1 /\ timeline'.items[n + 1] = item
          /\ \A i \in 1 .. n : timeline'.items[i] = timeline.items[i]
      BY <1>1, <2>2, <2>3, AppendFacts
    <3>2. /\ Len(timeline'.starts) = n + 1 /\ timeline'.starts[n + 1] = timeline.total
          /\ \A i \in 1 .. n : timeline'.starts[i] = timeline.starts[i]
      <4>1. Len(timeline.starts) = n
        BY <2>5
      <4>2. timeline.starts \in Seq(Nat) /\ timeline.total \in Nat
        BY <1>1
      <4>3. LET s == timeline.starts
                t == Append(s, timeline.total)
            IN  /\ Len(t) = Len(s) + 1 /\ t[Len(s) + 1] = timeline.total
                /\ \A i \in 1 .. Len(s) : t[i] = s[i]
        BY <4>2, AppendFacts
      <4> HIDE DEF n
      <4> QED
        BY <2>3, <4>1, <4>3
    <3> QED
      BY <3>1, <3>2
  <2>7. BackToBack'
    <3> HIDE DEF n
    <3>1. timeline'.starts[1] = 0
      <4>1. CASE n = 0
        BY <4>1, <2>5, <2>6
      <4>2. CASE n # 0
        BY <4>2, <2>5, <2>6, <1>1
      <4> QED
        BY <4>1, <4>2
    <3>2. ASSUME NEW i \in 1 .. n
          PROVE  timeline'.starts[i + 1] = timeline'.starts[i] + timeline'.items[i].durationMillis
      <4>1. CASE i = n
        BY <4>1, <2>5, <2>6, <1>1
      <4>2. CASE i # n
        <5>1. i \in 1 .. n - 1 /\ i + 1 \in 1 .. n
          BY <4>2, <1>1
        <5> QED
          BY <5>1, <2>5, <2>6
      <4> QED
        BY <4>1, <4>2
    <3>3. timeline'.total = timeline'.starts[n + 1] + timeline'.items[n + 1].durationMillis
      BY <2>3, <2>6
    <3> QED
      BY <2>6, <3>1, <3>2, <3>3, <1>1 DEF BackToBack
  <2>8. HoldsPlayable(next - 1)'
    <3> DEFINE id(i) == timeline.items[i].playlistItemId
               idp(i) == timeline'.items[i].playlistItemId
    <3>1. /\ \A i \in 1 .. n : id(i) \in 1 .. next - 1
                              /\ timeline.items[i].durationMillis = Duration(id(i))
                              /\ Duration(id(i)) > 0
          /\ \A i, j \in 1 .. n : i < j => id(i) < id(j)
          /\ \A m \in 1 .. next - 1 : Duration(m) > 0 => \E i \in 1 .. n : id(i) = m
      BY <1>3 DEF HoldsPlayable
    <3>2. /\ idp(n + 1) = next /\ timeline'.items[n + 1].durationMillis = Duration(next)
          /\ \A i \in 1 .. n : idp(i) = id(i)
                              /\ timeline'.items[i].durationMillis
                                   = timeline.items[i].durationMillis
      BY <2>2, <2>6
    <3> HIDE DEF id, idp, n
    <3>3. \A i \in 1 .. n + 1 : i \in 1 .. n \/ i = n + 1
      BY <1>1
    <3>4. ASSUME NEW i \in 1 .. n + 1
          PROVE  /\ idp(i) \in 1 .. next
                 /\ timeline'.items[i].durationMillis = Duration(idp(i))
                 /\ Duration(idp(i)) > 0
      <4>1. CASE i \in 1 .. n
        <5>1. id(i) \in 1 .. next
          BY <4>1, <3>1, <1>1
        <5> QED
          BY <4>1, <5>1, <3>1, <3>2
      <4>2. CASE i = n + 1
        BY <4>2, <3>2, <1>1, <1>7
      <4> QED
        BY <4>1, <4>2, <3>3
    <3>5. ASSUME NEW i \in 1 .. n + 1, NEW j \in 1 .. n + 1, i < j
          PROVE  idp(i) < idp(j)
      <4>1. i \in 1 .. n
        BY <3>5, <3>3, <1>1
      <4>2. CASE j \in 1 .. n
        BY <4>1, <4>2, <3>1, <3>2, <3>5
      <4>3. CASE j = n + 1
        <5>1. id(i) \in 1 .. next - 1
          BY <4>1, <3>1
        <5> QED
          BY <4>1, <4>3, <5>1, <3>2, <1>1
      <4> QED
        BY <4>2, <4>3, <3>3
    <3>6. \A m \in 1 .. next : Duration(m) > 0 => \E i \in 1 .. n + 1 : idp(i) = m
      <4> SUFFICES ASSUME NEW m \in 1 .. next, Duration(m) > 0
                   PROVE  \E i \in 1 .. n + 1 : idp(i) = m
        OBVIOUS
      <4>1. CASE m = next
        BY <4>1, <3>2, <1>1
      <4>2. CASE m # next
        <5>1. PICK i \in 1 .. n : id(i) = m
          BY <4>2, <3>1, <1>1
        <5> QED
          BY <5>1, <3>2, <1>1
      <4> QED
        BY <4>1, <4>2
    <3> QED
      BY <2>6, <3>4, <3>5, <3>6, <1>4, <1>5 DEF HoldsPlayable, idp
  <2>9. LaidOut'
    BY <1>1, <1>4, <2>7, <2>8 DEF LaidOut
  <2> QED
    BY <1>4, <2>4, <2>9 DEF Inv, Located, Bracketed, ShownIsScheduled
<1> QED
  BY <1>2, <1>6, <1>7

\* A timeline has items exactly when a pass through it takes time.
LEMMA TotalPositive ==
    ASSUME TypeOK, BackToBack
    PROVE  timeline.total > 0 <=> timeline.items # <<>>
<1>1. timeline.items \in Seq(Item) /\ timeline.starts \in Seq(Nat)
  BY DEF TypeOK
<1>2. CASE timeline.items = <<>>
  BY <1>2, <1>1 DEF BackToBack
<1>3. CASE timeline.items # <<>>
  <2> DEFINE n == Len(timeline.items)
  <2>1. n \in Nat /\ n > 0
    BY <1>1, <1>3
  <2>2. timeline.items[n] \in Item /\ timeline.starts[n] \in Nat
    BY <1>1, <2>1 DEF BackToBack
  <2>3. timeline.items[n].durationMillis > 0
    BY <2>2 DEF Item
  <2>4. timeline.total = timeline.starts[n] + timeline.items[n].durationMillis
    BY <2>1 DEF BackToBack
  <2> QED
    BY <1>3, <2>2, <2>3, <2>4, timeline.items[n].durationMillis \in Nat DEF Item
<1> QED
  BY <1>2, <1>3

LEMMA TimelineBuiltInv ==
    ASSUME Inv, TimelineBuilt
    PROVE  Inv'
<1> USE DEF TimelineBuilt
<1>1. TypeOK'
  BY DEF Inv, TypeOK
<1>2. LaidOut'
  <2>1. next - 1 = Len(playlist)
    BY DEF Inv, TypeOK, LaidOut
  <2>2. BackToBack /\ HoldsPlayable(Len(playlist))
    BY <2>1 DEF Inv, LaidOut
  <2>3. BackToBack' /\ HoldsPlayable(Len(playlist))'
    BY <2>2 DEF BackToBack, HoldsPlayable, Duration
  <2> QED
    BY <2>3 DEF LaidOut
<1> QED
  BY <1>1, <1>2 DEF Inv, Located, Bracketed, ShownIsScheduled

\* The timeline stays as it is until the next look at the window.
LEMMA LaidOutKept ==
    ASSUME LaidOut, pc # "build", pc' # "build", UNCHANGED <<playlist, timeline>>
    PROVE  LaidOut'
<1>1. BackToBack /\ HoldsPlayable(Len(playlist))
  BY DEF LaidOut
<1>2. BackToBack' /\ HoldsPlayable(Len(playlist))'
  BY <1>1 DEF BackToBack, HoldsPlayable, Duration
<1> QED
  BY <1>2 DEF LaidOut

LEMMA NothingPlayableInv ==
    ASSUME Inv, NothingPlayable
    PROVE  Inv'
<1> USE DEF NothingPlayable
<1>1. TypeOK'
  BY DEF Inv, TypeOK
<1>2. LaidOut'
  BY LaidOutKept DEF Inv
<1>3. timeline.items = <<>>
  <2>1. ~(timeline.total > 0)
    BY DEF Inv, TypeOK
  <2> QED
    BY <2>1, TotalPositive DEF Inv, LaidOut
<1> QED
  BY <1>1, <1>2, <1>3 DEF Inv, Located, Bracketed, ShownIsScheduled

\* The position Resolve works out is the time, taken apart.
LEMMA ResolveInv ==
    ASSUME Inv, Resolve
    PROVE  Inv'
<1> DEFINE delta == now - Anchor
           c == delta \div CycleMillis
           e == delta - c * CycleMillis
           total == timeline.total
           l == e \div total
           o == e % total
<1>1. /\ delta \in Int /\ CycleMillis \in Nat \ {0} /\ total \in Nat \ {0}
      /\ now \in Int /\ Anchor \in Int
  BY CycleAssumption, TimeAssumption DEF Inv, TypeOK, Resolve
<1>2. c \in Int /\ e \in 0 .. CycleMillis - 1
  <2>1. /\ c \in Int /\ delta % CycleMillis \in 0 .. CycleMillis - 1
        /\ delta = CycleMillis * c + (delta % CycleMillis)
    BY <1>1, DivMod
  <2> HIDE DEF c, delta
  <2> QED
    BY <2>1, <1>1, SMT
<1>3. l \in Int /\ o \in 0 .. total - 1 /\ e = l * total + o
  <2>1. e \in Int
    BY <1>2
  <2> HIDE DEF e
  <2>2. l \in Int /\ o \in 0 .. total - 1 /\ e = total * l + o
    BY <1>1, <2>1, DivMod
  <2> HIDE DEF l, o, total
  <2> QED
    BY <2>2, <1>1
<1>4. l \in Nat
  <2>1. e \in Nat
    BY <1>2, <1>1
  <2> HIDE DEF e, l, o, total
  <2>2. l * total > -total
    BY <2>1, <1>3, <1>1
  <2> QED
    BY <2>2, <1>1, <1>3, SMT
<1>5. at' = [cycleIndex |-> c, elapsedInCycle |-> e, loopIteration |-> l, offset |-> o]
  <2>1. FloorDiv(delta, CycleMillis) = c
    BY <1>1, FloorDivIsFloor
  <2>2. FloorDiv(e, total) = l
    <3>1. e \in Int /\ total \in Nat \ {0}
      BY <1>1, <1>2
    <3> HIDE DEF e, total
    <3> QED
      BY <3>1, FloorDivIsFloor
  <2> QED
    BY <2>1, <2>2 DEF Resolve
<1>6. now = Anchor + c * CycleMillis + e
  <2>1. c * CycleMillis \in Int
    BY <1>1, <1>2
  <2> HIDE DEF c
  <2> QED
    BY <2>1, <1>1
<1> HIDE DEF c, e, l, o, delta
<1>7. /\ pc = "resolve" /\ pc' = "search" /\ lo' = 0 /\ hi' = Len(timeline.starts) - 1
      /\ UNCHANGED <<lang, playlist, now, next, timeline, shown, previous>>
  BY DEF Resolve
<1>8. timeline.items # <<>> /\ Len(timeline.starts) > 0 /\ timeline.starts[1] = 0
  <2>1. timeline.items # <<>>
    BY <1>1, TotalPositive DEF Inv, LaidOut
  <2>2. timeline.items \in Seq(Item)
    BY DEF Inv, TypeOK
  <2> QED
    BY <2>1, <2>2 DEF Inv, LaidOut, BackToBack
<1>9. timeline.starts \in Seq(Nat) /\ Len(timeline.starts) \in Nat
  BY DEF Inv, TypeOK
<1>10. TypeOK'
  <2>1. at' \in [cycleIndex : Int, elapsedInCycle : 0 .. CycleMillis - 1,
                 loopIteration : Nat, offset : Nat]
    BY <1>1, <1>2, <1>3, <1>4, <1>5
  <2> QED
    BY <2>1, <1>7, <1>8, <1>9 DEF Inv, TypeOK
<1>11. LaidOut'
  BY <1>7, LaidOutKept DEF Inv
<1>12. Located'
  <2>1. o < total
    BY <1>3, <1>1
  <2> QED
    BY <2>1, <1>3, <1>5, <1>6, <1>7, <1>8 DEF Located
<1>13. Bracketed'
  BY <1>1, <1>3, <1>5, <1>7, <1>8, <1>9 DEF Bracketed
<1> QED
  BY <1>7, <1>10, <1>11, <1>12, <1>13 DEF Inv, ShownIsScheduled

\* Whichever half of the range the search keeps, the item it looks for is there.
LEMMA SearchInv ==
    ASSUME Inv, Search
    PROVE  Inv'
<1> DEFINE mid == Mid(lo, hi)
<1>1. /\ pc = "search" /\ lo < hi /\ lo \in Nat /\ hi \in Nat
      /\ hi < Len(timeline.starts) /\ Len(timeline.starts) \in Nat
      /\ at.offset \in Nat /\ timeline.starts \in Seq(Nat)
      /\ timeline.starts[lo + 1] <= at.offset
      /\ hi < Len(timeline.starts) - 1 => at.offset < timeline.starts[hi + 2]
  BY DEF Inv, TypeOK, Search, Bracketed
<1>2. mid \in lo + 1 .. hi
  BY <1>1, MidIsUpper
<1>3. UNCHANGED <<lang, playlist, now, pc, next, timeline, at, shown, previous>>
  BY DEF Search
<1>4. CASE timeline.starts[mid + 1] <= at.offset
  <2>1. lo' = mid /\ hi' = hi
    BY <1>4 DEF Search
  <2> HIDE DEF mid
  <2> QED
    BY <2>1, <1>1, <1>2, <1>3, <1>4, LaidOutKept
    DEF Inv, TypeOK, Located, Bracketed, ShownIsScheduled
<1>5. CASE ~(timeline.starts[mid + 1] <= at.offset)
  <2>1. lo' = lo /\ hi' = mid - 1
    BY <1>5 DEF Search
  <2> HIDE DEF mid
  <2>2. timeline.starts[mid + 1] \in Nat
    BY <1>1, <1>2
  <2>3. at.offset < timeline.starts[(mid - 1) + 2]
    BY <1>1, <1>2, <1>5, <2>2
  <2> QED
    BY <2>1, <2>3, <1>1, <1>2, <1>3, LaidOutKept
    DEF Inv, TypeOK, Located, Bracketed, ShownIsScheduled
<1> QED
  BY <1>4, <1>5

\* When the range has shrunk to one item, that item covers the offset.
LEMMA ShowInv ==
    ASSUME Inv, Show
    PROVE  Inv'
<1> DEFINE n == Len(timeline.items)
           item == timeline.items[lo + 1]
           start == timeline.starts[lo + 1]
           elapsed == at.offset - start
           own == item.durationMillis - elapsed
           rest == CycleMillis - at.elapsedInCycle
           state == [item |-> item, index |-> lo, cycleIndex |-> at.cycleIndex,
                     elapsedInCycle |-> at.elapsedInCycle,
                     loopIteration |-> at.loopIteration, elapsedInItem |-> elapsed,
                     remainingInItem |-> Remaining(own, rest),
                     truncatedByCycle |-> rest < own]
<1>1. /\ pc = "search" /\ pc' = "done" /\ lo >= hi
      /\ shown' = state /\ at' = Nowhere /\ lo' = 0 /\ hi' = 0
      /\ UNCHANGED <<lang, playlist, now, next, timeline, previous>>
  BY DEF Show
<1>2. /\ timeline.items \in Seq(Item) /\ timeline.starts \in Seq(Nat) /\ n \in Nat
      /\ timeline.total \in Nat /\ at.offset \in Nat /\ at.loopIteration \in Nat
      /\ at.cycleIndex \in Int /\ at.elapsedInCycle \in 0 .. CycleMillis - 1
      /\ lo \in Nat /\ hi \in Nat /\ now \in Int
  BY DEF Inv, TypeOK
<1>3. BackToBack /\ Len(timeline.starts) = n
  BY DEF Inv, LaidOut, BackToBack
<1>4. /\ lo = hi /\ hi < n /\ start <= at.offset
      /\ hi < n - 1 => at.offset < timeline.starts[hi + 2]
  BY <1>1, <1>2, <1>3 DEF Inv, Bracketed
<1>5. /\ timeline.items # <<>>
      /\ now = Anchor + at.cycleIndex * CycleMillis + at.elapsedInCycle
      /\ at.elapsedInCycle = at.loopIteration * timeline.total + at.offset
      /\ at.offset < timeline.total
  BY <1>1 DEF Inv, Located
<1>6. item \in Item /\ start \in Nat
  BY <1>2, <1>3, <1>4
<1>7. item.durationMillis \in Nat \ {0}
  BY <1>6 DEF Item
<1>8. at.offset < start + item.durationMillis
  <2>1. CASE lo = n - 1
    <3>1. timeline.total = timeline.starts[n] + timeline.items[n].durationMillis
      BY <1>2, <1>3, <1>4 DEF BackToBack
    <3> QED
      BY <2>1, <3>1, <1>2, <1>5
  <2>2. CASE lo # n - 1
    <3>1. lo + 1 \in 1 .. n - 1 /\ (lo + 1) + 1 = hi + 2
      BY <2>2, <1>2, <1>4
    <3>2. timeline.starts[(lo + 1) + 1] = start + item.durationMillis
      BY <3>1, <1>3 DEF BackToBack
    <3> QED
      BY <3>1, <3>2, <2>2, <1>2, <1>4
  <2> QED
    BY <2>1, <2>2
<1> HIDE DEF item, start
<1>9. elapsed \in Nat /\ elapsed < item.durationMillis
  BY <1>2, <1>4, <1>6, <1>7, <1>8
<1>10. own \in Nat \ {0} /\ rest \in Nat \ {0}
  <2>1. rest \in Nat \ {0}
    BY <1>2, CycleAssumption
  <2>2. own \in Nat \ {0}
    BY <1>7, <1>9
  <2> QED
    BY <2>1, <2>2
<1>11. at.elapsedInCycle = at.loopIteration * timeline.total + start + elapsed
  <2>1. at.loopIteration * timeline.total \in Int
    BY <1>2
  <2> QED
    BY <2>1, <1>2, <1>5, <1>6
<1> HIDE DEF elapsed, own, rest
<1>12. Remaining(own, rest) \in Nat \ {0}
  BY <1>10 DEF Remaining
<1>13. state \in State
  BY <1>2, <1>6, <1>9, <1>10, <1>12 DEF State
<1>14. TypeOK'
  <2>1. Nowhere \in [cycleIndex : Int, elapsedInCycle : 0 .. CycleMillis - 1,
                     loopIteration : Nat, offset : Nat]
    BY CycleAssumption DEF Nowhere
  <2> HIDE DEF state
  <2> QED
    BY <1>1, <1>13, <2>1 DEF Inv, TypeOK
<1>15. LaidOut'
  BY <1>1, LaidOutKept DEF Inv
<1>16. ShownIsScheduled'
  <2> HIDE DEF n
  <2>1. /\ shown'.index = lo /\ shown'.item = item /\ shown'.cycleIndex = at.cycleIndex
        /\ shown'.elapsedInCycle = at.elapsedInCycle
        /\ shown'.loopIteration = at.loopIteration /\ shown'.elapsedInItem = elapsed
        /\ shown'.remainingInItem = Remaining(own, rest)
        /\ shown'.truncatedByCycle = (rest < own)
    BY <1>1
  <2>2. shown' \in State /\ timeline' = timeline /\ now' = now
    BY <1>1, <1>13
  <2> HIDE DEF state
  <2>3. lo < Len(timeline.items)
    BY <1>4 DEF n
  <2>4. LET remaining == Remaining(own, rest)
        IN  remaining \in {own, rest} /\ remaining <= own /\ remaining <= rest
    BY <1>10 DEF Remaining
  <2>5. own = shown'.item.durationMillis - shown'.elapsedInItem
    BY <2>1 DEF own
  <2>6. rest = CycleMillis - shown'.elapsedInCycle
    BY <2>1 DEF rest
  <2>7. shown'.item = timeline.items[shown'.index + 1]
    BY <2>1 DEF item
  <2>8. timeline.starts[shown'.index + 1] = start
    BY <2>1 DEF start
  <2> QED
    BY <1>1, <1>5, <1>9, <1>11, <2>1, <2>2, <2>3, <2>4, <2>5, <2>6, <2>7, <2>8
    DEF ShownIsScheduled
<1> QED
  BY <1>1, <1>14, <1>15, <1>16 DEF Inv, Located, Bracketed

\* A computation that starts anew starts from an empty timeline.
LEMMA EmptyLaidOut ==
    ASSUME pc' = "build", next' = 1, timeline' = EmptyTimeline, playlist' \in Seq(Seconds)
    PROVE  /\ LaidOut'
           /\ timeline' \in [items : Seq(Item), starts : Seq(Nat), total : Nat]
<1>1. Len(timeline'.items) = 0 /\ Len(timeline'.starts) = 0 /\ timeline'.total = 0
  BY DEF EmptyTimeline
<1>2. BackToBack'
  BY <1>1 DEF BackToBack
<1>3. HoldsPlayable(next - 1)'
  BY <1>1 DEF HoldsPlayable
<1>4. next' <= Len(playlist') + 1
  OBVIOUS
<1>5. LaidOut'
  BY <1>2, <1>3, <1>4 DEF LaidOut
<1> QED
  BY <1>5 DEF EmptyTimeline

\* What every later look has in common.
LEMMA LaterFacts ==
    ASSUME Inv, NEW d \in Steps, Later(d)
    PROVE  /\ pc = "done" /\ now' \in Int /\ shown' = Fallback
           /\ previous' \in [state : State \cup {Fallback}, time : Int]
           /\ UNCHANGED <<lang, playlist, at, lo, hi>>
<1>1. previous' = [state |-> shown, time |-> now]
  BY DEF Later
<1>2. previous' \in [state : State \cup {Fallback}, time : Int]
  BY <1>1 DEF Inv, TypeOK
<1> QED
  BY <1>2, TimeAssumption DEF Later

LEMMA TickInv ==
    ASSUME Inv, NEW d \in Steps, Tick(d)
    PROVE  Inv'
<1>1. /\ pc = "done" /\ now' \in Int /\ shown' = Fallback
      /\ previous' \in [state : State \cup {Fallback}, time : Int]
      /\ UNCHANGED <<lang, playlist, at, lo, hi>>
  BY LaterFacts DEF Tick
<1>2. pc' = "resolve" /\ UNCHANGED <<next, timeline>>
  BY DEF Tick
<1> QED
  BY <1>1, <1>2, LaidOutKept DEF Inv, TypeOK, Located, Bracketed, ShownIsScheduled

LEMMA CurrentPlaybackInv ==
    ASSUME Inv, NEW d \in Steps, CurrentPlayback(d)
    PROVE  Inv'
<1>1. /\ pc = "done" /\ now' \in Int /\ shown' = Fallback
      /\ previous' \in [state : State \cup {Fallback}, time : Int]
      /\ UNCHANGED <<lang, playlist, at, lo, hi>>
  BY LaterFacts DEF CurrentPlayback
<1>2. pc' = "build" /\ next' = 1 /\ timeline' = EmptyTimeline
  BY DEF CurrentPlayback
<1>3. playlist' \in Seq(Seconds)
  BY <1>1 DEF Inv, TypeOK
<1> QED
  BY <1>1, <1>2, <1>3, EmptyLaidOut DEF Inv, TypeOK, Located, Bracketed, ShownIsScheduled

LEMMA EditInv ==
    ASSUME Inv, NEW p \in Playlists, Edit(p)
    PROVE  Inv'
<1>1. /\ playlist' = p /\ pc' = "build" /\ next' = 1 /\ timeline' = EmptyTimeline
      /\ shown' = Fallback /\ previous' = NotShown
      /\ UNCHANGED <<lang, now, at, lo, hi>>
  BY DEF Edit
<1>2. playlist' \in Seq(Seconds)
  <2>1. PICK n \in 0 .. MaxItems : p \in [1 .. n -> Seconds]
    BY DEF Playlists
  <2> QED
    BY <1>1, <2>1, SMT
<1>3. previous' \in [state : State \cup {Fallback}, time : Int]
  BY <1>1, TimeAssumption DEF NotShown
<1> QED
  BY <1>1, <1>2, <1>3, EmptyLaidOut
  DEF Inv, TypeOK, Located, Bracketed, ShownIsScheduled

LEMMA StepInv == Inv /\ [Next]_vars => Inv'
<1> SUFFICES ASSUME Inv, [Next]_vars PROVE Inv'
  OBVIOUS
<1>1. CASE Render
  BY <1>1, LayOutInv, TimelineBuiltInv, NothingPlayableInv, ResolveInv, SearchInv, ShowInv
  DEF Render
<1>2. CASE \E d \in Steps : Tick(d) \/ CurrentPlayback(d)
  BY <1>2, TickInv, CurrentPlaybackInv
<1>3. CASE \E p \in Playlists : Edit(p)
  BY <1>3, EditInv
<1>4. CASE UNCHANGED vars
  BY <1>4 DEF vars, Inv, TypeOK, LaidOut, BackToBack, HoldsPlayable, Duration, Located,
              Bracketed, ShownIsScheduled
<1> QED
  BY <1>1, <1>2, <1>3, <1>4 DEF Next

-----------------------------------------------------------------------------
THEOREM Invariance == Spec => []Inv
<1> QED
  BY InitInv, StepInv, PTL DEF Spec

\* Whatever the playlist, the anchor and the time, the computation of
\* NewTimeline, Resolve and indexAt stays well typed: the position in the cycle
\* is inside it, and what remains of an item is positive.
THEOREM TypeCorrectness == Spec => []TypeOK
<1>1. Inv => TypeOK
  BY DEF Inv
<1> QED
  BY <1>1, Invariance, PTL

\* NewTimeline keeps exactly the items that take time, in order, back to back,
\* for every playlist.
THEOREM TimelineCorrect == Spec => []TimelineIsPlaylist
<1>1. Inv => TimelineIsPlaylist
  BY DEF Inv, LaidOut, TimelineIsPlaylist
<1> QED
  BY <1>1, Invariance, PTL

\* What a window shows is what its playlist prescribes for that instant, in
\* both implementations, for every playlist, cycle, anchor and time.
THEOREM ScheduledAlways == Spec => []ShownIsScheduled
<1>1. Inv => ShownIsScheduled
  BY DEF Inv
<1> QED
  BY <1>1, Invariance, PTL

-----------------------------------------------------------------------------
(* From one look to the next.  The server builds its timeline again, so    *)
(* that two states agree needs that the same playlist always gives the     *)
(* same timeline: while it is built it is the first part of the one the    *)
(* last state was read from, which Recalls keeps in mind.                  *)

Timelines == [items : Seq(Item), starts : Seq(Nat), total : Nat]

End(tl, i) == tl.starts[i] + tl.items[i].durationMillis

\* No item begins before one ahead of it has ended, and none ends after the pass.
Ordered(tl) ==
    /\ \A i \in 1 .. Len(tl.items) : End(tl, i) <= tl.total
    /\ \A i, j \in 1 .. Len(tl.items) : i < j => End(tl, i) <= tl.starts[j]

\* The whole timeline of the playlist.
Whole(tl) ==
    LET n == Len(tl.items)
        Id(i) == tl.items[i].playlistItemId
    IN  /\ tl \in Timelines /\ Ordered(tl)
        /\ Len(tl.starts) = n
        /\ n = 0 => tl.total = 0
        /\ n > 0 => tl.starts[1] = 0 /\ tl.total = End(tl, n)
        /\ \A i \in 1 .. n - 1 : tl.starts[i + 1] = End(tl, i)
        /\ \A i \in 1 .. n : /\ Id(i) \in 1 .. Len(playlist)
                             /\ tl.items[i].durationMillis = Duration(Id(i))
                             /\ Duration(Id(i)) > 0
        /\ \A i, j \in 1 .. n : i < j => Id(i) < Id(j)
        /\ \A m \in 1 .. Len(playlist) : Duration(m) > 0 => \E i \in 1 .. n : Id(i) = m

\* At time t the window is in cycle c, in pass l, and x into item i.
Stands(tl, t, c, e, l, i, x) ==
    /\ c \in Int /\ e \in 0 .. CycleMillis - 1 /\ l \in Nat /\ x \in Nat
    /\ i \in 1 .. Len(tl.items)
    /\ t = Anchor + c * CycleMillis + e
    /\ e = l * tl.total + tl.starts[i] + x
    /\ x < tl.items[i].durationMillis

\* s is the state that ShownIsScheduled prescribes for tl at time t.
Prescribed(tl, s, t) ==
    /\ s \in State /\ t \in Int
    /\ Stands(tl, t, s.cycleIndex, s.elapsedInCycle, s.loopIteration, s.index + 1, s.elapsedInItem)
    /\ s.item = tl.items[s.index + 1]
    /\ LET own == s.item.durationMillis - s.elapsedInItem
           rest == CycleMillis - s.elapsedInCycle
       IN  s.remainingInItem \in {own, rest} /\ s.remainingInItem <= own /\ s.remainingInItem <= rest

\* f is the first part of tl.
FirstPart(f, tl) ==
    /\ Len(f.items) <= Len(tl.items)
    /\ \A i \in 1 .. Len(f.items) : f.items[i] = tl.items[i] /\ f.starts[i] = tl.starts[i]

Recalls ==
    previous.state # Fallback =>
        \E tl \in Timelines :
            Whole(tl) /\ Prescribed(tl, previous.state, previous.time) /\ FirstPart(timeline, tl)

\* The quotient and the remainder are determined.
LEMMA DivisionUnique ==
    ASSUME NEW m \in Nat \ {0}, NEW a \in Int, NEW b \in Int,
           NEW x \in 0 .. m - 1, NEW y \in 0 .. m - 1, a * m + x = b * m + y
    PROVE  a = b /\ x = y
<1>1. m * (a - b) = y - x
  BY SMT
<1>2. y - x \in Int /\ y - x < m /\ -m < y - x
  BY SMT
<1>3. a - b = 0
  <2> DEFINE k == a - b
  <2>1. k \in Int /\ m * k = y - x
    BY <1>1
  <2> HIDE DEF k
  <2>2. CASE k >= 1
    <3>1. m * k >= m
      BY <2>1, <2>2, SMT
    <3> QED
      BY <1>2, <2>1, <3>1
  <2>3. CASE k <= -1
    <3>1. m * k <= -m
      BY <2>1, <2>3, SMT
    <3> QED
      BY <1>2, <2>1, <3>1
  <2> QED
    BY <2>1, <2>2, <2>3 DEF k
<1>4. a = b
  BY <1>3
<1> QED
  BY <1>4

LEMMA TimelineFacts ==
    ASSUME NEW tl \in Timelines, NEW i \in 1 .. Len(tl.items), Len(tl.starts) = Len(tl.items)
    PROVE  /\ Len(tl.items) \in Nat /\ i \in Nat \ {0} /\ tl.total \in Nat
           /\ tl.starts[i] \in Nat /\ tl.items[i] \in Item
           /\ tl.items[i].durationMillis \in Nat \ {0} /\ tl.items[i].playlistItemId \in Nat
           /\ End(tl, i) \in Nat
<1>1. tl.items \in Seq(Item) /\ tl.starts \in Seq(Nat) /\ tl.total \in Nat
  BY DEF Timelines
<1>2. tl.items[i] \in Item /\ tl.starts[i] \in Nat /\ Len(tl.items) \in Nat
  BY <1>1
<1>3. tl.items[i].durationMillis \in Nat \ {0} /\ tl.items[i].playlistItemId \in Nat
  BY <1>2 DEF Item
<1> QED
  BY <1>1, <1>2, <1>3 DEF End

\* Time determines where the window stands.
LEMMA StandsOnce ==
    ASSUME NEW tl, Whole(tl), NEW t,
           NEW c, NEW e, NEW l, NEW i, NEW x, Stands(tl, t, c, e, l, i, x),
           NEW d, NEW f, NEW k, NEW j, NEW y, Stands(tl, t, d, f, k, j, y)
    PROVE  c = d /\ e = f /\ l = k /\ i = j /\ x = y
<1> DEFINE T == tl.total
           s == tl.starts[i]
           r == tl.starts[j]
           u == tl.items[i].durationMillis
           v == tl.items[j].durationMillis
<1>1. /\ c \in Int /\ e \in 0 .. CycleMillis - 1 /\ l \in Nat /\ x \in Nat
      /\ d \in Int /\ f \in 0 .. CycleMillis - 1 /\ k \in Nat /\ y \in Nat
      /\ i \in 1 .. Len(tl.items) /\ j \in 1 .. Len(tl.items)
      /\ t = Anchor + c * CycleMillis + e /\ t = Anchor + d * CycleMillis + f
      /\ e = l * T + s + x /\ f = k * T + r + y
      /\ x < u /\ y < v
  BY DEF Stands
<1>2. /\ T \in Nat /\ s \in Nat /\ r \in Nat /\ u \in Nat \ {0} /\ v \in Nat \ {0}
      /\ i \in Nat /\ j \in Nat
  BY <1>1, TimelineFacts DEF Whole
<1>3. /\ s + u <= T /\ r + v <= T
      /\ i < j => s + u <= r
      /\ j < i => r + v <= s
  BY <1>1 DEF Whole, Ordered, End
<1> HIDE DEF T, s, r, u, v
<1>4. CycleMillis \in Nat \ {0} /\ Anchor \in Int
  BY CycleAssumption, TimeAssumption
<1>5. c * CycleMillis + e = d * CycleMillis + f
  <2> DEFINE g == c * CycleMillis
             h == d * CycleMillis
  <2>1. g \in Int /\ h \in Int
    BY <1>1, <1>4
  <2>2. t = Anchor + g + e /\ t = Anchor + h + f /\ e \in Int /\ f \in Int
    BY <1>1, <1>4
  <2> HIDE DEF g, h
  <2>3. g + e = h + f
    BY <1>4, <2>1, <2>2
  <2> QED
    BY <2>3 DEF g, h
<1>6. c = d /\ e = f
  <2>1. c \in Int /\ d \in Int /\ e \in 0 .. CycleMillis - 1 /\ f \in 0 .. CycleMillis - 1
    BY <1>1
  <2> QED
    BY <1>4, <1>5, <2>1, DivisionUnique
<1>7. /\ T \in Nat \ {0} /\ s + x \in 0 .. T - 1 /\ r + y \in 0 .. T - 1
  BY <1>1, <1>2, <1>3
<1>8. l * T + (s + x) = k * T + (r + y)
  <2>1. l * T \in Int /\ k * T \in Int
    BY <1>1, <1>2
  <2> QED
    BY <1>1, <1>2, <1>6, <2>1
<1>9. l = k /\ s + x = r + y
  <2> DEFINE p == s + x
             q == r + y
  <2>1. p \in 0 .. T - 1 /\ q \in 0 .. T - 1 /\ l * T + p = k * T + q
    BY <1>7, <1>8
  <2> HIDE DEF p, q
  <2>2. l \in Int /\ k \in Int
    BY <1>1
  <2>3. l = k /\ p = q
    BY <1>7, <2>1, <2>2, DivisionUnique
  <2> QED
    BY <2>3 DEF p, q
<1>10. ~(i < j) /\ ~(j < i)
  BY <1>1, <1>2, <1>3, <1>9
<1>11. i = j
  BY <1>2, <1>10
<1>12. s = r
  BY <1>11 DEF s, r
<1>13. x = y
  BY <1>1, <1>2, <1>9, <1>12
<1> QED
  BY <1>6, <1>9, <1>11, <1>13

\* What the time t tells of a look at time u, on the same timeline.
LEMMA Onwards ==
    ASSUME NEW tl, Whole(tl), NEW u \in Int, NEW t \in Int,
           NEW c, NEW e, NEW l, NEW i, NEW x, Stands(tl, u, c, e, l, i, x),
           NEW d, NEW f, NEW k, NEW j, NEW y, Stands(tl, t, d, f, k, j, y),
           NEW r \in Nat \ {0},
           r = tl.items[i].durationMillis - x \/ r = CycleMillis - e,
           r <= tl.items[i].durationMillis - x, r <= CycleMillis - e
    PROVE  /\ t - u \in -x .. r - 1 <=> c = d /\ l = k /\ i = j
           /\ c = d /\ l = k /\ i = j => y = x + (t - u)
           /\ t - u = r =>
                 /\ y = 0
                 /\ d = IF e + r = CycleMillis THEN c + 1 ELSE c
                 /\ j = IF e + r = CycleMillis \/ i = Len(tl.items) THEN 1 ELSE i + 1
                 /\ k = IF e + r = CycleMillis THEN 0 ELSE IF i = Len(tl.items) THEN l + 1 ELSE l
<1> DEFINE n == Len(tl.items)
           T == tl.total
           s == tl.starts[i]
           m == tl.items[i].durationMillis
           g == c * CycleMillis
           p == l * T
           z == t - u
<1>1. /\ c \in Int /\ e \in 0 .. CycleMillis - 1 /\ l \in Nat /\ x \in Nat
      /\ i \in 1 .. n
      /\ u = Anchor + g + e /\ e = p + s + x /\ x < m
  BY DEF Stands
<1>2. /\ f \in 0 .. CycleMillis - 1 /\ y \in Nat /\ j \in 1 .. n /\ y < tl.items[j].durationMillis
      /\ t = Anchor + d * CycleMillis + f /\ f = k * T + tl.starts[j] + y
  BY DEF Stands
<1>3. /\ n \in Nat /\ i \in Nat \ {0} /\ T \in Nat /\ s \in Nat /\ m \in Nat \ {0}
      /\ CycleMillis \in Nat \ {0} /\ Anchor \in Int
  BY <1>1, TimelineFacts, CycleAssumption, TimeAssumption DEF Whole
<1>4. g \in Int /\ p \in Nat
  <2>1. c \in Int /\ l \in Nat
    BY <1>1
  <2> HIDE DEF T
  <2>2. T \in Nat /\ CycleMillis \in Nat \ {0}
    BY <1>3
  <2> QED
    BY <2>1, <2>2, SMT
<1>5. z \in Int /\ t = u + z
  OBVIOUS
<1>6. r = m - x \/ r = CycleMillis - e
  OBVIOUS
<1>7. r <= m - x /\ r <= CycleMillis - e
  OBVIOUS
<1> HIDE DEF z
<1>8. ASSUME c = d, l = k, i = j PROVE z = y - x /\ z \in -x .. r - 1
  <2>1. t = Anchor + g + f /\ f = p + s + y /\ y < m
    BY <1>2, <1>8
  <2> HIDE DEF g, p, s, m, T, n
  <2>2. z = f - e
    <3>1. f \in Int /\ e \in Int /\ u = Anchor + g + e /\ t = Anchor + g + f
      BY <1>1, <1>2, <2>1
    <3>2. Anchor \in Int /\ g \in Int /\ z \in Int /\ t = u + z
      BY <1>3, <1>4, <1>5
    <3> QED
      BY <3>1, <3>2
  <2>3. z = y - x
    BY <1>1, <1>2, <1>3, <1>4, <2>1, <2>2
  <2>4. z < m - x /\ z < CycleMillis - e /\ z >= -x
    BY <1>1, <1>2, <1>3, <2>1, <2>2, <2>3
  <2> QED
    BY <1>1, <1>5, <1>6, <2>3, <2>4
<1>9. ASSUME z \in -x .. r - 1 PROVE c = d /\ l = k /\ i = j
  <2> DEFINE ee == e + z
             xx == x + z
  <2>1. /\ xx \in Nat /\ xx < m /\ ee \in 0 .. CycleMillis - 1
        /\ t = Anchor + g + ee /\ ee = p + s + xx
    <3> HIDE DEF g, p, s, m, T, n
    <3> QED
      BY <1>1, <1>3, <1>4, <1>5, <1>7, <1>9
  <2> HIDE DEF ee, xx
  <2>2. Stands(tl, t, c, ee, l, i, xx)
    BY <1>1, <2>1 DEF Stands
  <2> QED
    BY <2>2, StandsOnce
<1>10. n >= 1 /\ 1 \in 1 .. n /\ tl.starts[1] = 0 /\ tl.items[1].durationMillis \in Nat \ {0}
  <2>1. n >= 1 /\ 1 \in 1 .. n
    BY <1>1, <1>3
  <2>2. tl.starts[1] = 0
    BY <2>1 DEF Whole
  <2> QED
    BY <2>1, <2>2, TimelineFacts DEF Whole
<1>11. ASSUME z = r, r = CycleMillis - e PROVE y = 0 /\ d = c + 1 /\ k = 0 /\ j = 1
  <2>1. t = Anchor + (c + 1) * CycleMillis + 0
    <3>1. (c + 1) * CycleMillis = g + CycleMillis
      BY <1>1, <1>3
    <3> DEFINE q == (c + 1) * CycleMillis
    <3>2. q = g + CycleMillis
      BY <3>1
    <3> HIDE DEF g, p, s, m, T, n, q
    <3>3. t = Anchor + q + 0
      BY <1>1, <1>3, <1>4, <1>5, <1>11, <3>2
    <3> QED
      BY <3>3 DEF q
  <2>2. 0 = 0 * T + tl.starts[1] + 0 /\ 0 \in 0 .. CycleMillis - 1 /\ c + 1 \in Int
    BY <1>1, <1>3, <1>10
  <2>3. 0 \in Nat /\ 0 < tl.items[1].durationMillis
    BY <1>10
  <2>4. Stands(tl, t, c + 1, 0, 0, 1, 0)
    <3> DEFINE a == c + 1
               b == 0
    <3>1. /\ a \in Int /\ b \in 0 .. CycleMillis - 1 /\ b \in Nat /\ 1 \in 1 .. n
          /\ t = Anchor + a * CycleMillis + b /\ b = b * T + tl.starts[1] + b
          /\ b < tl.items[1].durationMillis
      BY <1>10, <2>1, <2>2, <2>3
    <3> HIDE DEF a, b
    <3>2. Stands(tl, t, a, b, b, 1, b)
      BY <3>1 DEF Stands
    <3> QED
      BY <3>2 DEF a, b
  <2> QED
    BY <2>4, StandsOnce
<1>12. ASSUME z = r, r # CycleMillis - e, i = n PROVE y = 0 /\ d = c /\ k = l + 1 /\ j = 1
  <2> DEFINE ee == e + z
             q == (l + 1) * T
  <2>1. T = s + m
    BY <1>3, <1>12 DEF Whole, End
  <2>2. q = p + T
    <3>1. l \in Nat /\ T \in Nat
      BY <1>1, <1>3
    <3> HIDE DEF T
    <3> QED
      BY <3>1, SMT
  <2>3. ee \in 0 .. CycleMillis - 1 /\ t = Anchor + g + ee /\ ee = q + tl.starts[1] + 0
    <3> HIDE DEF g, p, s, m, T, n, q
    <3> QED
      BY <1>1, <1>3, <1>4, <1>5, <1>6, <1>7, <1>10, <1>12, <2>1, <2>2
  <2> HIDE DEF ee
  <2>4. Stands(tl, t, c, ee, l + 1, 1, 0)
    <3> DEFINE a == l + 1
               b == 0
    <3>1. /\ c \in Int /\ a \in Nat /\ b \in Nat /\ 1 \in 1 .. n
          /\ t = Anchor + c * CycleMillis + ee /\ ee = a * T + tl.starts[1] + b
          /\ b < tl.items[1].durationMillis
      BY <1>1, <1>10, <2>3
    <3> HIDE DEF a, b
    <3>2. Stands(tl, t, c, ee, a, 1, b)
      BY <2>3, <3>1 DEF Stands
    <3> QED
      BY <3>2 DEF a, b
  <2> QED
    BY <2>4, StandsOnce
<1>13. ASSUME z = r, r # CycleMillis - e, i # n PROVE y = 0 /\ d = c /\ k = l /\ j = i + 1
  <2> DEFINE ee == e + z
  <2>1. i \in 1 .. n - 1 /\ i + 1 \in 1 .. n
    <3>1. i \in 1 .. n /\ n \in Nat /\ i # n
      BY <1>1, <1>3, <1>13
    <3> HIDE DEF n
    <3> QED
      BY <3>1
  <2>2. tl.starts[i + 1] = s + m /\ tl.items[i + 1].durationMillis \in Nat \ {0}
    BY <2>1, TimelineFacts DEF Whole, End
  <2>3. ee \in 0 .. CycleMillis - 1 /\ t = Anchor + g + ee /\ ee = p + tl.starts[i + 1] + 0
    <3> HIDE DEF g, p, s, m, T, n
    <3> QED
      BY <1>1, <1>3, <1>4, <1>5, <1>6, <1>7, <1>13, <2>2
  <2> HIDE DEF ee
  <2>4. Stands(tl, t, c, ee, l, i + 1, 0)
    <3> DEFINE a == i + 1
               b == 0
    <3>1. /\ c \in Int /\ l \in Nat /\ b \in Nat /\ a \in 1 .. n
          /\ t = Anchor + c * CycleMillis + ee /\ ee = l * T + tl.starts[a] + b
          /\ b < tl.items[a].durationMillis
      BY <1>1, <2>1, <2>2, <2>3
    <3> HIDE DEF a, b
    <3>2. Stands(tl, t, c, ee, l, a, b)
      BY <2>3, <3>1 DEF Stands
    <3> QED
      BY <3>2 DEF a, b
  <2> QED
    BY <2>4, StandsOnce
<1>14. e + r = CycleMillis <=> r = CycleMillis - e
  <2>1. e \in Int /\ r \in Int /\ CycleMillis \in Int
    BY <1>1, <1>3
  <2> QED
    BY <2>1
<1>15. z \in -x .. r - 1 <=> c = d /\ l = k /\ i = j
  BY <1>8, <1>9
<1>16. c = d /\ l = k /\ i = j => y = x + z
  BY <1>1, <1>2, <1>5, <1>8
<1>17. z = r =>
         /\ y = 0
         /\ d = IF e + r = CycleMillis THEN c + 1 ELSE c
         /\ j = IF e + r = CycleMillis \/ i = n THEN 1 ELSE i + 1
         /\ k = IF e + r = CycleMillis THEN 0 ELSE IF i = n THEN l + 1 ELSE l
  BY <1>11, <1>12, <1>13, <1>14
<1> QED
  BY <1>15, <1>16, <1>17 DEF z

\* On one timeline, the states of two looks play on as PlaysOn says.
LEMMA TwoLooks ==
    ASSUME NEW tl, Whole(tl), NEW p, NEW u, Prescribed(tl, p, u),
           NEW s, NEW t, Prescribed(tl, s, t), Len(timeline.items) = Len(tl.items)
    PROVE  /\ t - u \in -p.elapsedInItem .. p.remainingInItem - 1
                <=> OccurrenceKey(s) = OccurrenceKey(p)
           /\ OccurrenceKey(s) = OccurrenceKey(p) => s.elapsedInItem = p.elapsedInItem + (t - u)
           /\ t - u = p.remainingInItem => Follows(s, p)
<1>1. /\ p \in State /\ s \in State /\ t \in Int /\ u \in Int
      /\ Stands(tl, u, p.cycleIndex, p.elapsedInCycle, p.loopIteration, p.index + 1, p.elapsedInItem)
      /\ Stands(tl, t, s.cycleIndex, s.elapsedInCycle, s.loopIteration, s.index + 1, s.elapsedInItem)
      /\ p.item = tl.items[p.index + 1] /\ s.item = tl.items[s.index + 1]
  BY DEF Prescribed
<1>2. /\ p.remainingInItem \in Nat \ {0} /\ p.index \in Nat /\ s.index \in Nat
      /\ p.loopIteration \in Nat /\ s.loopIteration \in Nat
  BY <1>1 DEF State
<1>3. LET own == tl.items[p.index + 1].durationMillis - p.elapsedInItem
          rest == CycleMillis - p.elapsedInCycle
      IN  /\ p.remainingInItem = own \/ p.remainingInItem = rest
          /\ p.remainingInItem <= own /\ p.remainingInItem <= rest
  BY <1>1 DEF Prescribed
<1> DEFINE same == /\ p.cycleIndex = s.cycleIndex /\ p.loopIteration = s.loopIteration
                   /\ p.index + 1 = s.index + 1
           r == p.remainingInItem
           over == p.elapsedInCycle + r = CycleMillis
           last == p.index + 1 = Len(tl.items)
<1>4. /\ t - u \in -p.elapsedInItem .. r - 1 <=> same
      /\ same => s.elapsedInItem = p.elapsedInItem + (t - u)
      /\ t - u = r =>
            /\ s.elapsedInItem = 0
            /\ s.cycleIndex = IF over THEN p.cycleIndex + 1 ELSE p.cycleIndex
            /\ s.index + 1 = IF over \/ last THEN 1 ELSE p.index + 1 + 1
            /\ s.loopIteration = IF over THEN 0 ELSE IF last THEN p.loopIteration + 1 ELSE p.loopIteration
  <2> DEFINE c == p.cycleIndex
             e == p.elapsedInCycle
             l == p.loopIteration
             i == p.index + 1
             x == p.elapsedInItem
             d == s.cycleIndex
             f == s.elapsedInCycle
             k == s.loopIteration
             j == s.index + 1
             y == s.elapsedInItem
  <2>1. /\ Stands(tl, u, c, e, l, i, x) /\ Stands(tl, t, d, f, k, j, y)
        /\ r \in Nat \ {0}
        /\ r = tl.items[i].durationMillis - x \/ r = CycleMillis - e
        /\ r <= tl.items[i].durationMillis - x /\ r <= CycleMillis - e
    BY <1>1, <1>2, <1>3
  <2> HIDE DEF c, e, l, i, x, d, f, k, j, y, r
  <2>2. /\ t - u \in -x .. r - 1 <=> c = d /\ l = k /\ i = j
        /\ c = d /\ l = k /\ i = j => y = x + (t - u)
        /\ t - u = r =>
              /\ y = 0
              /\ d = IF e + r = CycleMillis THEN c + 1 ELSE c
              /\ j = IF e + r = CycleMillis \/ i = Len(tl.items) THEN 1 ELSE i + 1
              /\ k = IF e + r = CycleMillis THEN 0 ELSE IF i = Len(tl.items) THEN l + 1 ELSE l
    BY <1>1, <2>1, Onwards
  <2> QED
    BY <2>2 DEF c, e, l, i, x, d, f, k, j, y, r
<1>5. same <=> OccurrenceKey(s) = OccurrenceKey(p)
  <2>1. p.index + 1 = s.index + 1 <=> p.index = s.index
    BY <1>2
  <2>2. p.index = s.index => p.item.playlistItemId = s.item.playlistItemId
    BY <1>1
  <2> QED
    BY <2>1, <2>2 DEF OccurrenceKey
<1> HIDE DEF same
<1>6. t - u = r => Follows(s, p)
  <2>1. Len(tl.items) \in Nat
    <3>1. tl.items \in Seq(Item)
      BY DEF Whole, Timelines
    <3> QED
      BY <3>1
  <2>2. last <=> p.index = Len(timeline.items) - 1
    BY <1>2, <2>1
  <2>3. /\ s.index + 1 = 1 <=> s.index = 0
        /\ s.index + 1 = p.index + 1 + 1 <=> s.index = p.index + 1
    BY <1>2
  <2> HIDE DEF last
  <2> QED
    BY <1>4, <2>2, <2>3 DEF Follows
<1> QED
  BY <1>4, <1>5, <1>6

\* What laying out a playable item does to the timeline.
LEMMA LaidOutNext ==
    ASSUME Inv, LayOut, ~(Duration(next) <= 0)
    PROVE  LET n == Len(timeline.items)
               item == [playlistItemId |-> next, durationMillis |-> Duration(next)]
           IN  /\ Len(timeline'.items) = n + 1
               /\ timeline'.items[n + 1] = item /\ item \in Item
               /\ timeline'.starts[n + 1] = timeline.total
               /\ timeline'.total = timeline.total + item.durationMillis
               /\ \A i \in 1 .. n : /\ timeline'.items[i] = timeline.items[i]
                                   /\ timeline'.starts[i] = timeline.starts[i]
<1> DEFINE n == Len(timeline.items)
           item == [playlistItemId |-> next, durationMillis |-> Duration(next)]
<1>1. /\ next \in 1 .. Len(playlist) /\ playlist \in Seq(Seconds) /\ next \in Nat
      /\ timeline.items \in Seq(Item) /\ timeline.starts \in Seq(Nat)
      /\ timeline.total \in Nat /\ Len(timeline.starts) = n
  BY DEF Inv, TypeOK, LayOut, LaidOut, BackToBack
<1>2. Duration(next) \in Int
  BY <1>1, DurationInt DEF Inv
<1>3. item \in Item /\ item.durationMillis = Duration(next)
  BY <1>1, <1>2 DEF Item
<1>4. /\ timeline'.items = Append(timeline.items, item)
      /\ timeline'.starts = Append(timeline.starts, timeline.total)
      /\ timeline'.total = timeline.total + Duration(next)
  BY DEF LayOut
<1> HIDE DEF item
<1>5. /\ Len(timeline'.items) = n + 1 /\ timeline'.items[n + 1] = item
      /\ \A i \in 1 .. n : timeline'.items[i] = timeline.items[i]
  BY <1>1, <1>3, <1>4, AppendFacts
<1>6. /\ timeline'.starts[n + 1] = timeline.total
      /\ \A i \in 1 .. n : timeline'.starts[i] = timeline.starts[i]
  BY <1>1, <1>4, AppendFacts
<1> QED
  BY <1>3, <1>4, <1>5, <1>6 DEF item

LEMMA LayOutOrders == ASSUME Inv, Ordered(timeline), LayOut PROVE Ordered(timeline)'
<1> DEFINE n == Len(timeline.items)
<1>1. CASE Duration(next) <= 0
  BY <1>1 DEF LayOut, Ordered, End
<1>2. CASE ~(Duration(next) <= 0)
  <2>1. PICK item \in Item :
          /\ Len(timeline'.items) = n + 1
          /\ timeline'.items[n + 1] = item
          /\ timeline'.starts[n + 1] = timeline.total
          /\ timeline'.total = timeline.total + item.durationMillis
          /\ \A i \in 1 .. n : /\ timeline'.items[i] = timeline.items[i]
                              /\ timeline'.starts[i] = timeline.starts[i]
    BY <1>2, LaidOutNext
  <2>2. item.durationMillis \in Nat \ {0} /\ timeline.total \in Nat /\ n \in Nat
    BY DEF Inv, TypeOK, Item
  <2>3. timeline \in Timelines /\ Len(timeline.starts) = n
    BY DEF Inv, TypeOK, LaidOut, BackToBack, Timelines
  <2>4. \A i \in 1 .. n : /\ End(timeline, i) \in Nat /\ End(timeline', i) = End(timeline, i)
                         /\ End(timeline, i) <= timeline.total
    BY <2>1, <2>3, TimelineFacts DEF End, Ordered
  <2>5. \A i, j \in 1 .. n : i < j => End(timeline, i) <= timeline.starts[j]
    BY DEF Ordered
  <2>6. End(timeline', n + 1) = timeline.total + item.durationMillis
    BY <2>1 DEF End
  <2> HIDE DEF n
  <2>7. \A i \in 1 .. n + 1 : i \in 1 .. n \/ i = n + 1
    BY <2>2
  <2>8. \A i \in 1 .. n + 1 : End(timeline', i) <= timeline'.total
    BY <2>1, <2>2, <2>4, <2>6, <2>7
  <2>9. ASSUME NEW i \in 1 .. n + 1, NEW j \in 1 .. n + 1, i < j
        PROVE  End(timeline', i) <= timeline'.starts[j]
    <3>1. i \in 1 .. n
      BY <2>2, <2>9
    <3>2. CASE j \in 1 .. n
      BY <2>1, <2>4, <2>5, <2>9, <3>1, <3>2
    <3>3. CASE j = n + 1
      BY <2>1, <2>4, <3>1, <3>3
    <3> QED
      BY <2>7, <3>2, <3>3
  <2> QED
    BY <2>1, <2>8, <2>9 DEF Ordered
<1> QED
  BY <1>1, <1>2

\* A timeline that begins as tl does goes on as tl does.
LEMMA LayOutRecalls ==
    ASSUME Inv, LayOut, NEW tl \in Timelines, Whole(tl), FirstPart(timeline, tl)
    PROVE  FirstPart(timeline', tl)
<1> DEFINE n == Len(timeline.items)
           Id(i) == tl.items[i].playlistItemId
<1>1. CASE Duration(next) <= 0
  BY <1>1 DEF LayOut, FirstPart
<1>2. CASE ~(Duration(next) <= 0)
  <2>1. /\ Len(timeline'.items) = n + 1
        /\ timeline'.items[n + 1] = [playlistItemId |-> next, durationMillis |-> Duration(next)]
        /\ timeline'.starts[n + 1] = timeline.total
        /\ \A i \in 1 .. n : /\ timeline'.items[i] = timeline.items[i]
                            /\ timeline'.starts[i] = timeline.starts[i]
    BY <1>2, LaidOutNext
  <2>2. /\ n \in Nat /\ next \in Nat /\ next \in 1 .. Len(playlist) /\ Len(tl.items) \in Nat
        /\ n <= Len(tl.items) /\ tl.items \in Seq(Item)
        /\ \A i \in 1 .. n : timeline.items[i] = tl.items[i] /\ timeline.starts[i] = tl.starts[i]
    <3>1. timeline.items \in Seq(Item) /\ tl.items \in Seq(Item) /\ next \in Nat \ {0}
      BY DEF Inv, TypeOK, Timelines
    <3>2. next <= Len(playlist) /\ Len(playlist) \in Nat
      BY DEF Inv, TypeOK, LayOut
    <3>3. /\ n <= Len(tl.items)
          /\ \A i \in 1 .. n : timeline.items[i] = tl.items[i] /\ timeline.starts[i] = tl.starts[i]
      BY DEF FirstPart
    <3> QED
      BY <3>1, <3>2, <3>3
  <2>3. /\ \A i \in 1 .. n : Id(i) \in 1 .. next - 1
        /\ \A m \in 1 .. next - 1 : Duration(m) > 0 => \E i \in 1 .. n : Id(i) = m
    BY <2>2 DEF Inv, LaidOut, LayOut, HoldsPlayable
  <2>4. /\ \A i \in 1 .. Len(tl.items) : /\ Id(i) \in 1 .. Len(playlist)
                                        /\ tl.items[i].durationMillis = Duration(Id(i))
                                        /\ Duration(Id(i)) > 0
        /\ \A i, j \in 1 .. Len(tl.items) : i < j => Id(i) < Id(j)
        /\ \A m \in 1 .. Len(playlist) : Duration(m) > 0 => \E i \in 1 .. Len(tl.items) : Id(i) = m
    <3>1. \A i \in 1 .. Len(tl.items) : /\ Id(i) \in 1 .. Len(playlist)
                                        /\ tl.items[i].durationMillis = Duration(Id(i))
                                        /\ Duration(Id(i)) > 0
      BY DEF Whole
    <3>2. \A i, j \in 1 .. Len(tl.items) : i < j => Id(i) < Id(j)
      BY DEF Whole
    <3>3. \A m \in 1 .. Len(playlist) : Duration(m) > 0 => \E i \in 1 .. Len(tl.items) : Id(i) = m
      BY DEF Whole
    <3> QED
      BY <3>1, <3>2, <3>3
  <2>5. Duration(next) > 0
    BY <1>2, <2>2, DurationInt DEF Inv
  <2>6. PICK k \in 1 .. Len(tl.items) : Id(k) = next
    BY <2>2, <2>4, <2>5
  <2>7. \A i \in 1 .. Len(tl.items) : tl.items[i] \in Item /\ Id(i) \in Nat
    BY TimelineFacts DEF Whole
  <2> HIDE DEF Id, n
  <2>8. k \notin 1 .. n
    BY <2>2, <2>3, <2>6
  <2>9. n + 1 \in 1 .. Len(tl.items) /\ n + 1 <= k
    BY <2>2, <2>6, <2>8
  <2>10. Id(n + 1) = next
    <3>1. Id(n + 1) <= next
      BY <2>2, <2>4, <2>6, <2>7, <2>9
    <3>2. CASE Id(n + 1) < next
      <4>1. Id(n + 1) \in 1 .. next - 1 /\ Duration(Id(n + 1)) > 0
        BY <2>2, <2>4, <2>9, <3>2
      <4>2. PICK i \in 1 .. n : Id(i) = Id(n + 1)
        BY <2>3, <4>1
      <4>3. i < n + 1 /\ i \in 1 .. Len(tl.items)
        BY <2>2, <4>2
      <4> QED
        BY <2>4, <2>7, <2>9, <4>2, <4>3
    <3> QED
      BY <2>2, <2>7, <2>9, <3>1, <3>2
  <2>11. tl.items[n + 1] = [playlistItemId |-> next, durationMillis |-> Duration(next)]
    <3>1. tl.items[n + 1] \in Item
      BY <2>7, <2>9
    <3>2. /\ tl.items[n + 1].playlistItemId = next
          /\ tl.items[n + 1].durationMillis = Duration(next)
      BY <2>4, <2>9, <2>10 DEF Id
    <3> QED
      BY <3>1, <3>2 DEF Item
  <2>12. tl.starts[n + 1] = timeline.total
    <3>1. CASE n = 0
      <4>1. timeline.total = 0
        BY <3>1 DEF Inv, LaidOut, BackToBack, n
      <4>2. tl.starts[1] = 0
        BY <2>2, <2>9 DEF Whole
      <4> QED
        BY <3>1, <4>1, <4>2
    <3>2. CASE n # 0
      <4>1. timeline.total = timeline.starts[n] + timeline.items[n].durationMillis
        BY <2>2, <3>2 DEF Inv, LaidOut, BackToBack, n
      <4>2. n \in 1 .. Len(tl.items) - 1 /\ n \in 1 .. n
        BY <2>2, <2>9, <3>2
      <4>3. tl.starts[n + 1] = tl.starts[n] + tl.items[n].durationMillis
        BY <4>2 DEF Whole, End
      <4> QED
        BY <2>2, <4>1, <4>2, <4>3
    <3> QED
      BY <3>1, <3>2
  <2>13. \A i \in 1 .. n + 1 : i \in 1 .. n \/ i = n + 1
    BY <2>2
  <2>14. Len(timeline'.items) <= Len(tl.items)
    BY <2>1, <2>2, <2>9
  <2> QED
    BY <2>1, <2>2, <2>11, <2>12, <2>13, <2>14 DEF FirstPart
<1> QED
  BY <1>1, <1>2

\* The same playlist gives the same timeline.
LEMMA FinishedIsWhole ==
    ASSUME Inv, Ordered(timeline), pc \in {"resolve", "search", "done"}
    PROVE  Whole(timeline)
<1>1. BackToBack /\ HoldsPlayable(Len(playlist)) /\ timeline \in Timelines
  BY DEF Inv, TypeOK, LaidOut, Timelines
<1> QED
  BY <1>1 DEF Whole, BackToBack, HoldsPlayable, End

LEMMA WholeIsUnique ==
    ASSUME NEW f \in Timelines, Whole(f), NEW tl \in Timelines, Whole(tl), FirstPart(f, tl)
    PROVE  Len(f.items) = Len(tl.items) /\ f.total = tl.total
<1> DEFINE n == Len(f.items)
           m == Len(tl.items)
<1>1. /\ n \in Nat /\ m \in Nat /\ n <= m
      /\ \A i \in 1 .. n : f.items[i] = tl.items[i] /\ f.starts[i] = tl.starts[i]
  BY DEF Timelines, FirstPart
<1>2. n = m
  <2> SUFFICES ASSUME n < m PROVE FALSE
    BY <1>1
  <2>1. n + 1 \in 1 .. m
    BY <1>1
  <2> DEFINE id == tl.items[n + 1].playlistItemId
  <2>2. id \in 1 .. Len(playlist) /\ Duration(id) > 0
    BY <2>1 DEF Whole
  <2>3. PICK i \in 1 .. n : f.items[i].playlistItemId = id
    BY <2>2 DEF Whole
  <2>4. i < n + 1 /\ i \in 1 .. m /\ tl.items[i].playlistItemId = id
    BY <1>1, <2>3
  <2>5. tl.items[i].playlistItemId < id
    BY <2>1, <2>4 DEF Whole
  <2>6. id \in Nat
    BY <2>1, TimelineFacts DEF Whole
  <2> QED
    BY <2>4, <2>5, <2>6
<1>3. n = 0 \/ n \in 1 .. n
  BY <1>1
<1> QED
  BY <1>1, <1>2, <1>3 DEF Whole, End

\* Whatever is on the screen is what the whole timeline prescribes.
LEMMA ShownIsPrescribed ==
    ASSUME Inv, Ordered(timeline), pc = "done", shown # Fallback
    PROVE  Whole(timeline) /\ Prescribed(timeline, shown, now)
<1>1. Whole(timeline)
  BY FinishedIsWhole
<1>2. timeline.items # <<>>
  BY DEF Inv, ShownIsScheduled
<1>3. /\ shown \in State /\ now \in Int
      /\ shown.index < Len(timeline.items) /\ shown.item = timeline.items[shown.index + 1]
      /\ now = Anchor + shown.cycleIndex * CycleMillis + shown.elapsedInCycle
      /\ shown.elapsedInCycle = shown.loopIteration * timeline.total
                                + timeline.starts[shown.index + 1] + shown.elapsedInItem
      /\ shown.elapsedInItem < shown.item.durationMillis
  BY <1>2 DEF Inv, TypeOK, ShownIsScheduled
<1>4. /\ shown.cycleIndex \in Int /\ shown.elapsedInCycle \in 0 .. CycleMillis - 1
      /\ shown.loopIteration \in Nat /\ shown.elapsedInItem \in Nat /\ shown.index \in Nat
  BY <1>3 DEF State
<1>5. shown.index + 1 \in 1 .. Len(timeline.items)
  <2>1. Len(timeline.items) \in Nat
    BY DEF Inv, TypeOK
  <2> QED
    BY <1>3, <1>4, <2>1
<1>6. Stands(timeline, now, shown.cycleIndex, shown.elapsedInCycle, shown.loopIteration,
             shown.index + 1, shown.elapsedInItem)
  <2> DEFINE i == shown.index + 1
  <2>1. /\ i \in 1 .. Len(timeline.items)
        /\ shown.elapsedInCycle = shown.loopIteration * timeline.total
                                  + timeline.starts[i] + shown.elapsedInItem
        /\ shown.elapsedInItem < timeline.items[i].durationMillis
    BY <1>3, <1>5
  <2> HIDE DEF i
  <2>2. Stands(timeline, now, shown.cycleIndex, shown.elapsedInCycle, shown.loopIteration,
               i, shown.elapsedInItem)
    BY <1>3, <1>4, <2>1 DEF Stands
  <2> QED
    BY <2>2 DEF i
<1>7. LET own == shown.item.durationMillis - shown.elapsedInItem
          rest == CycleMillis - shown.elapsedInCycle
      IN  /\ shown.remainingInItem \in {own, rest}
          /\ shown.remainingInItem <= own /\ shown.remainingInItem <= rest
  BY <1>2 DEF Inv, ShownIsScheduled
<1> QED
  BY <1>1, <1>3, <1>6, <1>7 DEF Prescribed

LaidInv == Ordered(timeline) /\ Recalls

LEMMA EmptyIsOrdered ==
    ASSUME NEW f, f.items = <<>> PROVE Ordered(f) /\ \A tl \in Timelines : FirstPart(f, tl)
<1>1. Len(f.items) = 0
  OBVIOUS
<1>2. \A tl \in Timelines : Len(tl.items) \in Nat
  BY DEF Timelines
<1> QED
  BY <1>1, <1>2 DEF Ordered, FirstPart

LEMMA LaidKept ==
    ASSUME Inv, LaidInv, [Next]_vars PROVE LaidInv'
<1>1. CASE LayOut
  <2>1. Ordered(timeline)'
    BY <1>1, LayOutOrders DEF LaidInv
  <2>2. UNCHANGED <<playlist, previous>>
    BY <1>1 DEF LayOut
  <2>3. ASSUME NEW tl, Whole(tl) PROVE Whole(tl)'
    BY <2>2, <2>3 DEF Whole, Duration
  <2>4. Recalls'
    BY <1>1, <2>2, <2>3, LayOutRecalls DEF LaidInv, Recalls
  <2> QED
    BY <2>1, <2>4 DEF LaidInv
<1>2. CASE UNCHANGED <<timeline, playlist, previous>>
  <2>1. ASSUME NEW tl, Whole(tl) PROVE Whole(tl)'
    BY <1>2, <2>1 DEF Whole, Duration
  <2> QED
    BY <1>2, <2>1 DEF LaidInv, Recalls, Ordered, End
<1>3. ASSUME NEW d \in Steps, Tick(d) \/ CurrentPlayback(d) PROVE LaidInv'
  <2>1. /\ pc = "done" /\ UNCHANGED playlist /\ previous' = [state |-> shown, time |-> now]
        /\ timeline' = timeline \/ timeline' = EmptyTimeline
    BY <1>3 DEF Tick, CurrentPlayback, Later
  <2>2. timeline' = timeline \/ timeline'.items = <<>>
    BY <2>1 DEF EmptyTimeline
  <2>3. timeline \in Timelines
    BY DEF Inv, TypeOK, Timelines
  <2>4. FirstPart(timeline, timeline)
    BY <2>3 DEF FirstPart, Timelines
  <2>5. Ordered(timeline') /\ FirstPart(timeline', timeline)
    BY <2>2, <2>3, <2>4, EmptyIsOrdered DEF LaidInv
  <2>6. ASSUME NEW tl, Whole(tl) PROVE Whole(tl)'
    BY <2>1, <2>6 DEF Whole, Duration
  <2>7. Recalls'
    <3> PICK tl : tl = timeline
      OBVIOUS
    <3>1. shown # Fallback => Whole(tl) /\ Prescribed(tl, shown, now)
      BY <2>1, ShownIsPrescribed DEF LaidInv
    <3>2. shown # Fallback => Whole(tl)'
      BY <2>6, <3>1
    <3>3. tl \in Timelines /\ FirstPart(timeline', tl)
      BY <2>3, <2>5
    <3> QED
      BY <2>1, <3>1, <3>2, <3>3 DEF Recalls
  <2> QED
    BY <2>5, <2>7 DEF LaidInv, Ordered, End
<1>4. ASSUME NEW p \in Playlists, Edit(p) PROVE LaidInv'
  <2>1. timeline'.items = <<>> /\ previous'.state = Fallback
    BY <1>4 DEF Edit, EmptyTimeline, NotShown
  <2>2. Ordered(timeline')
    BY <2>1, EmptyIsOrdered
  <2> QED
    BY <2>1, <2>2 DEF LaidInv, Recalls, Ordered, End
<1>5. TimelineBuilt \/ NothingPlayable \/ Resolve \/ Search \/ Show
        => UNCHANGED <<timeline, playlist, previous>>
  BY DEF TimelineBuilt, NothingPlayable, Resolve, Search, Show
<1>6. UNCHANGED vars => UNCHANGED <<timeline, playlist, previous>>
  BY DEF vars
<1> QED
  BY <1>1, <1>2, <1>3, <1>4, <1>5, <1>6 DEF Next, Render

\* From one look at a window to the next an item plays on at the same pace for
\* exactly the time that was said to be left of it, and the right one follows
\* without a gap, whether the timeline was kept (the browser) or built again
\* (the server), for every playlist, cycle, anchor and pair of instants.
THEOREM PlaysOnAlways == Spec => []PlaysOn
<1>1. Init => LaidInv
  <2> SUFFICES ASSUME Init PROVE LaidInv
    OBVIOUS
  <2>1. timeline.items = <<>> /\ previous.state = Fallback
    BY DEF Init, EmptyTimeline, NotShown
  <2> QED
    BY <2>1, EmptyIsOrdered DEF LaidInv, Recalls
<1>2. Inv /\ LaidInv /\ [Next]_vars => LaidInv'
  BY LaidKept
<1>3. Inv /\ LaidInv => PlaysOn
  <2> SUFFICES ASSUME Inv, LaidInv, pc = "done", shown # Fallback, previous.state # Fallback
               PROVE  LET p == previous.state
                          d == now - previous.time
                      IN  /\ d \in -p.elapsedInItem .. p.remainingInItem - 1
                               <=> OccurrenceKey(shown) = OccurrenceKey(p)
                          /\ OccurrenceKey(shown) = OccurrenceKey(p) =>
                               shown.elapsedInItem = p.elapsedInItem + d
                          /\ d = p.remainingInItem => Follows(shown, p)
    BY DEF PlaysOn
  <2>1. Whole(timeline) /\ Prescribed(timeline, shown, now) /\ timeline \in Timelines
    BY ShownIsPrescribed DEF LaidInv, Whole
  <2>2. PICK tl \in Timelines :
          Whole(tl) /\ Prescribed(tl, previous.state, previous.time) /\ FirstPart(timeline, tl)
    BY DEF LaidInv, Recalls
  <2>3. Len(timeline.items) = Len(tl.items) /\ timeline.total = tl.total
    BY <2>1, <2>2, WholeIsUnique
  <2>4. /\ \A i \in 1 .. Len(tl.items) : /\ timeline.items[i] = tl.items[i]
                                        /\ timeline.starts[i] = tl.starts[i]
        /\ shown.index + 1 \in 1 .. Len(tl.items)
    BY <2>1, <2>2, <2>3 DEF FirstPart, Prescribed, Stands
  <2>5. Prescribed(tl, shown, now)
    <3> DEFINE i == shown.index + 1
    <3>1. /\ i \in 1 .. Len(tl.items)
          /\ timeline.items[i] = tl.items[i] /\ timeline.starts[i] = tl.starts[i]
      BY <2>4
    <3> HIDE DEF i
    <3>2. Stands(timeline, now, shown.cycleIndex, shown.elapsedInCycle, shown.loopIteration,
                 i, shown.elapsedInItem)
      BY <2>1 DEF Prescribed, i
    <3>3. Stands(tl, now, shown.cycleIndex, shown.elapsedInCycle, shown.loopIteration,
                 i, shown.elapsedInItem)
      BY <2>3, <3>1, <3>2 DEF Stands
    <3>4. shown.item = tl.items[i]
      BY <2>1, <3>1 DEF Prescribed, i
    <3> QED
      BY <2>1, <3>3, <3>4 DEF Prescribed, i
  <2> QED
    BY <2>2, <2>3, <2>5, TwoLooks
<1> QED
  BY <1>1, <1>2, <1>3, Invariance, PTL DEF Spec

=============================================================================
