-------------------------- MODULE GlobalSyncProofs --------------------------
(***************************************************************************)
(* Proofs about GlobalSync, for any requests, durations, clocks and faults.*)
(***************************************************************************)
EXTENDS GlobalSync, TLAPS, WellFoundedInduction

-----------------------------------------------------------------------------
(* The inductive invariant.                                                *)

\* What a handler knows of the event it creates or cancels.
Knows(p) ==
    /\ req[p].at <= now
    /\ req[p].id = NoSync \/ req[p].id \in DOMAIN rows
    /\ req[p].pc \in {"idle", "begin", "supersede", "select"} => req[p].id = NoSync
    /\ req[p].pc \in {"begin", "supersede"} => req[p].at + SyncLead < req[p].endAt
    /\ req[p].pc \in {"schedule", "publishStarted", "update", "unschedule"} =>
           req[p].id \in CommittedIds
    /\ req[p].pc \in StartPC => p \in StartRequests
    /\ req[p].pc \in CancelPC => p \in CancelRequests

HandlersKnow == \A p \in Requests : Knows(p)

\* No two requests create the same event.
IdsAreOwn ==
    \A p, q \in StartRequests : p # q /\ req[p].id = req[q].id => req[p].id = NoSync

Over(i) == rows[i].cancelled \/ rows[i].endAt <= now

\* What an open transaction saw is over, or it has it locked, or will visit it.
Supersedes(p) ==
    /\ req[p].pc \in {"supersede", "commit"} =>
           /\ req[p].saw \subseteq CommittedIds
           /\ \A i \in req[p].saw : i \in req[p].todo \/ i \in req[p].locked \/ Over(i)
    /\ req[p].pc = "commit" =>
           /\ req[p].todo = {}
           /\ req[p].id \in DOMAIN rows
           /\ rows[req[p].id].state = "pending"
           /\ rows[req[p].id].saw = req[p].saw

TransactionsSupersede == \A p \in Requests : Supersedes(p)

\* Whatever had committed when an override was created is over once the
\* override is there.
SeenIsOver ==
    \A j \in CommittedIds : \A i \in rows[j].saw : i \in DOMAIN rows /\ Over(i)

\* The end of the process is the end of its goroutines.
DownIsQuiet ==
    ~up => Quiet /\ endTimer = NoTimer /\ firing = {} /\ announcing = {}

Ended == {published[k].id : k \in {l \in DOMAIN published : published[l].type = "SYNC_ENDED"}}

\* No timer is due before its override ends.
TimersAreDue ==
    /\ endTimer.id # NoSync =>
           endTimer.id \in DOMAIN rows /\ rows[endTimer.id].endAt <= endTimer.due
    /\ \A i \in firing \cup announcing \cup Ended : i \in DOMAIN rows /\ rows[i].endAt <= now

\* The announcement of an end is in one place at a time: a request that will
\* arm the timer, the timer, a callback that has yet to check, a callback that
\* will publish, or what has been published.
OneAnnouncement ==
    /\ \A p \in StartRequests : req[p].pc \in {"commit", "schedule"} =>
           req[p].id \notin {endTimer.id} \cup firing \cup announcing \cup Ended
    /\ endTimer.id \notin firing \cup announcing \cup Ended
    /\ firing \cap (announcing \cup Ended) = {}
    /\ announcing \cap Ended = {}

IInv ==
    /\ TypeOK
    /\ HandlersKnow
    /\ IdsAreOwn
    /\ TransactionsSupersede
    /\ SeenIsOver
    /\ DownIsQuiet
    /\ TimersAreDue
    /\ OneAnnouncement
    /\ EndAnnouncedAtMostOnce

-----------------------------------------------------------------------------
(* What serial operators add.                                              *)

OneAtATime == \A p, q \in Requests : InFlight(p) /\ InFlight(q) => p = q

\* Every override was created in view of all that came before it.
SeenInOrder ==
    /\ \A i, j \in CommittedIds : i < j => i \in rows[j].saw
    /\ \A p \in Requests :
        /\ req[p].pc \in {"supersede", "commit"} => req[p].saw = CommittedIds
        /\ req[p].pc \in {"commit", "schedule"} => \A i \in CommittedIds : i <= req[p].id

\* A cancellation has picked, and then cancelled, all there is to cancel.
CancelsTheLiveOne ==
    \A p \in Requests :
        /\ req[p].pc = "update" => LiveRows(now) \subseteq {req[p].id}
        /\ req[p].pc = "unschedule" => LiveRows(now) = {}

Armed(i) ==
    /\ endTimer = [id |-> i, due |-> rows[i].endAt]
    /\ endSyncID = i

LiveIsArmed ==
    up /\ NoneFailed /\ "boot" \notin env.faults =>
        \A i \in LiveRows(now) :
            Armed(i) \/ \E p \in Requests : req[p].pc = "schedule" /\ req[p].id = i

SerialInv ==
    env.serial => OneAtATime /\ SeenInOrder /\ CancelsTheLiveOne /\ LiveIsArmed

-----------------------------------------------------------------------------
(* Rows and their ids.                                                     *)

\* A nonempty set of naturals has a least element, and a bounded one a greatest.
LEMMA LeastNatural ==
    ASSUME NEW T \in SUBSET Nat, T # {}
    PROVE  \E n \in T : \A m \in T : n <= m
<1> DEFINE R == OpToRel(<, Nat)
<1>1. IsWellFoundedOn(R, Nat)
    BY NatLessThanWellFounded
<1>2. PICK n \in T : \A m \in T : ~ (<<m, n>> \in R)
    <2> HIDE DEF R
    <2> QED BY <1>1, WFMin
<1>3. \A m \in T : m < n => <<m, n>> \in R
    BY DEF OpToRel
<1> HIDE DEF R
<1>4. \A m \in T : ~ (m < n)
    BY <1>2, <1>3
<1> QED BY <1>4

LEMMA GreatestNatural ==
    ASSUME NEW T \in SUBSET Nat, T # {}, NEW bound \in Nat, \A m \in T : m <= bound
    PROVE  \E n \in T : \A m \in T : m <= n
<1> DEFINE U == {n \in Nat : \A m \in T : m <= n}
<1>1. U \in SUBSET Nat /\ U # {}
    OBVIOUS
<1>2. PICK n \in U : \A m \in U : n <= m
    <2> HIDE DEF U
    <2> QED BY <1>1, LeastNatural
<1>3. CASE n \in T
    BY <1>2, <1>3
<1>4. CASE n \notin T
    <2>1. PICK t \in T : TRUE
        OBVIOUS
    <2>2. \A m \in T : m <= n /\ m # n
        BY <1>2, <1>4
    <2>3. n # 0 /\ \A m \in T : m <= n - 1
        BY <2>1, <2>2
    <2>4. n - 1 \in U
        BY <2>3
    <2> QED BY <1>2, <2>4
<1> QED BY <1>3, <1>4

LEMMA RowIds ==
    ASSUME TypeOK
    PROVE  /\ DOMAIN rows = 1 .. Len(rows)
           /\ Len(rows) \in Nat
           /\ DOMAIN rows \subseteq Nat \ {NoSync}
           /\ \A i \in DOMAIN rows : rows[i] \in Row
    BY DEF TypeOK, NoSync

\* The newest of some events is one of them.
LEMMA NewestOf ==
    ASSUME TypeOK, NEW S \in SUBSET DOMAIN rows, S # {}
    PROVE  Newest(S) \in S /\ \A j \in S : j <= Newest(S)
<1>1. S \in SUBSET Nat /\ \A j \in S : j <= Len(rows)
    BY RowIds
<1>2. \E n \in S : \A m \in S : m <= n
    BY <1>1, RowIds, GreatestNatural
<1> QED BY <1>2 DEF Newest

LEMMA OldestOf ==
    ASSUME NEW S \in SUBSET Nat, S # {}
    PROVE  Oldest(S) \in S
    BY LeastNatural DEF Oldest

LEMMA LiveSyncIsLive ==
    ASSUME TypeOK, NEW t \in Nat
    PROVE  /\ LiveSync(t) \in {NoSync} \cup LiveRows(t)
           /\ LiveSync(t) = NoSync <=> LiveRows(t) = {}
           /\ \A i \in LiveRows(t) : i <= LiveSync(t)
<1>1. LiveRows(t) \in SUBSET DOMAIN rows /\ NoSync \notin LiveRows(t)
    BY RowIds DEF LiveRows, CommittedIds
<1> QED BY <1>1, NewestOf DEF LiveSync

-----------------------------------------------------------------------------
(* Types.                                                                  *)


LEMMA ArriveType ==
    ASSUME TypeOK, NEW p \in Requests, NEW pc \in {"begin", "select", "done"}, NEW e \in Nat,
           Arrive(p, pc, e)
    PROVE  TypeOK'
<1>1. req' \in [Requests -> Request]
    <2>1. req[p] \in Request /\ now \in Nat
        BY DEF TypeOK
    <2>2. pc \in StartPC \cup CancelPC \cup Finished
        BY DEF StartPC, CancelPC, Finished
    <2> DEFINE h == [req[p] EXCEPT !.pc = pc, !.at = now, !.endAt = e]
    <2>3. h \in Request
        BY <2>1, <2>2 DEF Request
    <2>4. req' = [req EXCEPT ![p] = h]
        BY DEF Arrive
    <2> HIDE DEF h
    <2> QED BY <2>3, <2>4 DEF TypeOK
<1> QED BY <1>1 DEF TypeOK, Arrive

LEMMA GotoType ==
    ASSUME TypeOK, NEW p \in Requests, NEW pc \in StartPC \cup CancelPC \cup Finished,
           Goto(p, pc)
    PROVE  req' \in [Requests -> Request]
    BY DEF TypeOK, Goto, Request

LEMMA CommitType ==
    ASSUME TypeOK, NEW p \in Requests, CommitRows(p)
    PROVE  rows' \in Seq(Row) /\ \A i \in DOMAIN rows' : rows'[i].startAt < rows'[i].endAt
<1>1. \A i \in 1 .. Len(rows) : rows[i] \in Row
    BY RowIds
<1>2. \A i \in 1 .. Len(rows) : /\ [rows[i] EXCEPT !.state = "committed"] \in Row
                                /\ [rows[i] EXCEPT !.cancelled = TRUE] \in Row
    BY <1>1 DEF Row
<1>3. /\ DOMAIN rows' = 1 .. Len(rows)
      /\ rows' \in [1 .. Len(rows) -> Row]
    BY <1>1, <1>2, RowIds DEF CommitRows
<1>4. rows' \in Seq(Row)
    BY <1>3, RowIds
<1>5. \A i \in 1 .. Len(rows) : rows'[i].startAt = rows[i].startAt /\ rows'[i].endAt = rows[i].endAt
    BY <1>1, RowIds DEF CommitRows, Row
<1> QED BY <1>3, <1>4, <1>5, RowIds DEF TypeOK

LEMMA StartStepType ==
    ASSUME IInv, NEW p \in StartRequests, StartStep(p)
    PROVE  TypeOK'
<1>0. TypeOK /\ p \in Requests
    BY DEF IInv, Requests
<1>1. CommittedIds \in SUBSET Nat /\ LiveRows(req[p].at) \in SUBSET Nat
    BY <1>0, RowIds DEF CommittedIds, LiveRows
<1>2. CASE BeginCreate(p)
    <2>1. req' \in [Requests -> Request]
        BY <1>0, <1>1, <1>2 DEF TypeOK, BeginCreate, Request, StartPC
    <2> QED BY <1>0, <1>2, <2>1 DEF TypeOK, BeginCreate
<1>3. CASE SupersedeRow(p)
    <2>1. req[p].todo \in SUBSET Nat /\ Oldest(req[p].todo) \in Nat
        BY <1>0, <1>3, OldestOf DEF TypeOK, SupersedeRow, Request
    <2>2. req' \in [Requests -> Request]
        <3> DEFINE i == Oldest(req[p].todo)
                   own == IF rows[i].cancelled THEN {} ELSE {i}
                   h == [req[p] EXCEPT !.todo = req[p].todo \ {i}, !.locked = req[p].locked \cup own]
        <3>1. req[p] \in Request /\ own \in SUBSET Nat
            BY <1>0, <2>1 DEF TypeOK
        <3>2. req' = [req EXCEPT ![p] = h]
            BY <1>3 DEF SupersedeRow
        <3> HIDE DEF i, own
        <3>3. h \in Request
            BY <3>1 DEF Request
        <3> HIDE DEF h
        <3> QED BY <1>0, <3>2, <3>3 DEF TypeOK
    <2> QED BY <1>0, <1>3, <2>2 DEF TypeOK, SupersedeRow
<1>4. CASE InsertRow(p)
    <2>1. req' \in [Requests -> Request]
        <3>1. req[p] \in Request /\ Len(rows) + 1 \in Nat
            BY <1>0, RowIds DEF TypeOK
        <3>2. [req[p] EXCEPT !.pc = "commit", !.id = Len(rows) + 1] \in Request
            BY <3>1 DEF Request, StartPC
        <3> QED BY <1>0, <1>4, <3>2 DEF InsertRow, TypeOK
    <2> DEFINE row == [startAt |-> req[p].at + SyncLead, endAt |-> req[p].endAt,
                       cancelled |-> FALSE, state |-> "pending", saw |-> req[p].saw]
    <2>2. row \in Row /\ row.startAt < row.endAt
        BY <1>0, <1>4, BoundsAssumption DEF IInv, HandlersKnow, Knows, TypeOK, InsertRow, Request, Row
    <2>3. rows' = Append(rows, row)
        BY <1>4 DEF InsertRow
    <2> HIDE DEF row
    <2>4. /\ rows' \in Seq(Row)
          /\ \A i \in DOMAIN rows' : rows'[i] = IF i = Len(rows) + 1 THEN row ELSE rows[i]
          /\ DOMAIN rows' = 1 .. Len(rows) + 1
        BY <1>0, <2>2, <2>3, RowIds DEF TypeOK
    <2>5. \A i \in DOMAIN rows' : rows'[i].startAt < rows'[i].endAt
        BY <1>0, <2>2, <2>4, RowIds DEF TypeOK
    <2> QED BY <1>0, <1>4, <2>1, <2>4, <2>5 DEF TypeOK, InsertRow
<1>5. CASE CommitCreate(p)
    <2>1. req' \in [Requests -> Request]
        BY <1>0, <1>5 DEF TypeOK, CommitCreate, Request, StartPC
    <2> QED BY <1>0, <1>5, <2>1, CommitType DEF TypeOK, CommitCreate
<1>6. CASE ScheduleEnd(p)
    <2>1. req[p].id \in DOMAIN rows /\ rows[req[p].id].endAt \in Nat
        BY <1>0, <1>6, RowIds DEF IInv, HandlersKnow, Knows, ScheduleEnd, CommittedIds, Row
    <2>2. Delay(req[p].id) \in Nat
        BY <1>0, <2>1 DEF Delay, TypeOK
    <2>3. req[p].id \in Nat
        BY <1>0 DEF TypeOK, Request
    <2>4. endTimer' \in [id : Nat, due : Nat] /\ endSyncID' \in Nat
        BY <1>0, <1>6, <2>2, <2>3 DEF ScheduleEnd, ScheduleSyncEnd, TypeOK
    <2>5. req' \in [Requests -> Request]
        BY <1>0, <1>6, GotoType DEF ScheduleEnd, StartPC
    <2> QED BY <1>0, <1>6, <2>4, <2>5 DEF TypeOK, ScheduleEnd
<1>7. CASE PublishStarted(p)
    <2>1. req[p].id \in Nat
        BY <1>0 DEF TypeOK, Request
    <2>2. published' \in Seq(Event)
        BY <1>0, <1>7, <2>1 DEF PublishStarted, Publish, TypeOK, Event
    <2>3. req' \in [Requests -> Request]
        BY <1>0, <1>7, GotoType DEF PublishStarted, Finished
    <2> QED BY <1>0, <1>7, <2>2, <2>3 DEF TypeOK, PublishStarted
<1> QED BY <1>2, <1>3, <1>4, <1>5, <1>6, <1>7 DEF StartStep

LEMMA CancelStepType ==
    ASSUME IInv, NEW p \in CancelRequests, CancelStep(p)
    PROVE  TypeOK'
<1>0. TypeOK /\ p \in Requests
    BY DEF IInv, Requests
<1>1. req[p] \in Request /\ req[p].id \in Nat /\ req[p].at \in Nat
    BY <1>0 DEF TypeOK, Request
<1>2. CASE CancelSelect(p)
    <2>1. LiveSync(req[p].at) \in Nat
        BY <1>0, <1>1, LiveSyncIsLive, RowIds DEF LiveRows, CommittedIds, NoSync
    <2> DEFINE next == IF LiveSync(req[p].at) = NoSync THEN "done" ELSE "update"
    <2>2. next \in CancelPC \cup Finished
        BY DEF CancelPC, Finished
    <2>3. req' = [req EXCEPT ![p] = [@ EXCEPT !.id = LiveSync(req[p].at), !.pc = next]]
        BY <1>2 DEF CancelSelect
    <2> HIDE DEF next
    <2>4. [req[p] EXCEPT !.id = LiveSync(req[p].at), !.pc = next] \in Request
        BY <1>1, <2>1, <2>2 DEF Request
    <2>5. req' \in [Requests -> Request]
        BY <1>0, <2>3, <2>4 DEF TypeOK
    <2> QED BY <1>0, <1>2, <2>5 DEF TypeOK, CancelSelect
<1>3. CASE CancelUpdate(p)
    <2>1. \A i \in 1 .. Len(rows) : rows[i] \in Row /\ [rows[i] EXCEPT !.cancelled = TRUE] \in Row
        BY <1>0, RowIds DEF Row
    <2>2. DOMAIN rows' = 1 .. Len(rows) /\ rows' \in [1 .. Len(rows) -> Row]
        BY <1>0, <1>3, <2>1, RowIds DEF CancelUpdate
    <2>3. rows' \in Seq(Row)
        BY <1>0, <2>2, RowIds
    <2>4. \A i \in 1 .. Len(rows) : rows'[i].startAt = rows[i].startAt /\ rows'[i].endAt = rows[i].endAt
        BY <1>0, <1>3, <2>1, RowIds DEF CancelUpdate, Row
    <2>5. req' \in [Requests -> Request]
        BY <1>0, <1>3, GotoType DEF CancelUpdate, CancelPC
    <2> QED BY <1>0, <1>3, <2>2, <2>3, <2>4, <2>5, RowIds DEF TypeOK, CancelUpdate
<1>4. CASE Unschedule(p)
    <2>1. req' \in [Requests -> Request]
        BY <1>0, <1>4, GotoType DEF Unschedule, CancelPC
    <2> QED BY <1>0, <1>4, <2>1 DEF TypeOK, Unschedule, CancelScheduledEnd, NoTimer, NoSync
<1>5. CASE PublishCancelled(p)
    <2>1. published' \in Seq(Event)
        BY <1>0, <1>1, <1>5 DEF PublishCancelled, Publish, TypeOK, Event
    <2>2. req' \in [Requests -> Request]
        BY <1>0, <1>5, GotoType DEF PublishCancelled, Finished
    <2> QED BY <1>0, <1>5, <2>1, <2>2 DEF TypeOK, PublishCancelled
<1> QED BY <1>2, <1>3, <1>4, <1>5 DEF CancelStep

\* A rollback of the rows that satisfy a condition.
LEMMA RollbackType ==
    ASSUME TypeOK, NEW S,
           rows' = [i \in DOMAIN rows |->
                      IF i \in S THEN [rows[i] EXCEPT !.state = "rolledback"] ELSE rows[i]]
    PROVE  rows' \in Seq(Row) /\ \A i \in DOMAIN rows' : rows'[i].startAt < rows'[i].endAt
<1>1. \A i \in 1 .. Len(rows) : rows[i] \in Row /\ [rows[i] EXCEPT !.state = "rolledback"] \in Row
    BY RowIds DEF Row
<1>2. DOMAIN rows' = 1 .. Len(rows) /\ rows' \in [1 .. Len(rows) -> Row]
    BY <1>1, RowIds
<1>3. rows' \in Seq(Row)
    BY <1>2, RowIds
<1>4. \A i \in 1 .. Len(rows) : rows'[i].startAt = rows[i].startAt /\ rows'[i].endAt = rows[i].endAt
    BY <1>1, RowIds DEF Row
<1> QED BY <1>2, <1>3, <1>4, RowIds DEF TypeOK

LEMMA FailType ==
    ASSUME IInv, NEW p \in Requests, FailCreate(p) \/ CommitUnanswered(p) \/ FailCancel(p)
    PROVE  TypeOK'
<1>0. TypeOK /\ req[p] \in Request
    BY DEF IInv, TypeOK
<1>1. CASE FailCreate(p)
    <2>1. [req[p] EXCEPT !.pc = "failed", !.locked = {}, !.todo = {}] \in Request
        BY <1>0 DEF Request, Finished
    <2>2. req' \in [Requests -> Request]
        BY <1>0, <1>1, <2>1 DEF TypeOK, FailCreate
    <2>3. rows' = [i \in DOMAIN rows |->
                     IF i \in {req[p].id} THEN [rows[i] EXCEPT !.state = "rolledback"] ELSE rows[i]]
        BY <1>1 DEF FailCreate
    <2>4. rows' \in Seq(Row) /\ \A i \in DOMAIN rows' : rows'[i].startAt < rows'[i].endAt
        BY <1>0, <2>3, RollbackType
    <2> QED BY <1>0, <1>1, <2>2, <2>4 DEF TypeOK, FailCreate
<1>2. CASE CommitUnanswered(p)
    <2>1. [req[p] EXCEPT !.pc = "failed", !.locked = {}] \in Request
        BY <1>0 DEF Request, Finished
    <2>2. req' \in [Requests -> Request]
        BY <1>0, <1>2, <2>1 DEF TypeOK, CommitUnanswered
    <2> QED BY <1>0, <1>2, <2>2, CommitType DEF TypeOK, CommitUnanswered
<1>3. CASE FailCancel(p)
    <2>1. req' \in [Requests -> Request]
        BY <1>0, <1>3, GotoType DEF FailCancel, Finished
    <2> QED BY <1>0, <1>3, <2>1 DEF TypeOK, FailCancel
<1> QED BY <1>1, <1>2, <1>3

LEMMA CrashType ==
    ASSUME TypeOK, Crash
    PROVE  TypeOK'
<1>1. \A q \in Requests : [req[q] EXCEPT !.pc = "lost", !.locked = {}, !.todo = {}] \in Request
    BY DEF TypeOK, Request, Finished
<1>2. req' \in [Requests -> Request]
    BY <1>1 DEF TypeOK, Crash
<1>3. rows' \in Seq(Row) /\ \A i \in DOMAIN rows' : rows'[i].startAt < rows'[i].endAt
    <2> DEFINE Pending == {i \in DOMAIN rows : rows[i].state = "pending"}
    <2>1. rows' = [i \in DOMAIN rows |->
                     IF i \in Pending THEN [rows[i] EXCEPT !.state = "rolledback"] ELSE rows[i]]
        BY DEF Crash
    <2> HIDE DEF Pending
    <2> QED BY <2>1, RollbackType
<1> QED BY <1>2, <1>3 DEF TypeOK, Crash, CancelScheduledEnd, NoTimer, NoSync

LEMMA TimerType ==
    ASSUME TypeOK, FireTimer \/ (\E i \in firing : CheckEnd(i))
                   \/ (\E i \in announcing : AnnounceEnd(i))
                   \/ RestoreSyncTimer \/ RestoreFails \/ Tick
    PROVE  TypeOK'
<1>1. CASE FireTimer
    BY <1>1 DEF TypeOK, FireTimer, NoTimer, NoSync
<1>2. CASE \E i \in firing : CheckEnd(i)
    BY <1>2 DEF TypeOK, CheckEnd
<1>3. CASE \E i \in announcing : AnnounceEnd(i)
    <2>1. PICK i \in announcing : AnnounceEnd(i)
        BY <1>3
    <2>2. published' \in Seq(Event)
        BY <2>1 DEF AnnounceEnd, Publish, TypeOK, Event
    <2> QED BY <2>1, <2>2 DEF TypeOK, AnnounceEnd
<1>4. CASE RestoreSyncTimer
    <2>1. CASE LiveSync(now) = NoSync
        BY <1>4, <2>1 DEF TypeOK, RestoreSyncTimer
    <2>2. CASE LiveSync(now) # NoSync
        <3>1. now \in Nat
            BY DEF TypeOK
        <3>2. LiveSync(now) \in DOMAIN rows
            BY <2>2, <3>1, LiveSyncIsLive DEF LiveRows, CommittedIds
        <3>3. LiveSync(now) \in Nat /\ rows[LiveSync(now)].endAt \in Nat
            BY <3>2, RowIds DEF Row
        <3>4. Delay(LiveSync(now)) \in Nat
            BY <3>1, <3>3 DEF Delay
        <3>5. endTimer' \in [id : Nat, due : Nat] /\ endSyncID' \in Nat
            BY <1>4, <2>2, <3>1, <3>3, <3>4 DEF RestoreSyncTimer, ScheduleSyncEnd
        <3> QED BY <1>4, <3>5 DEF TypeOK, RestoreSyncTimer
    <2> QED BY <2>1, <2>2
<1>5. CASE RestoreFails
    BY <1>5 DEF TypeOK, RestoreFails
<1>6. CASE Tick
    BY <1>6 DEF TypeOK, Tick
<1> QED BY <1>1, <1>2, <1>3, <1>4, <1>5, <1>6

LEMMA TypeStep ==
    ASSUME IInv, [Next]_vars
    PROVE  TypeOK'
<1>0. TypeOK /\ Requests = StartRequests \cup CancelRequests
    BY DEF IInv, Requests
<1>1. CASE UNCHANGED vars
    BY <1>0, <1>1 DEF vars, TypeOK
<1>2. ASSUME NEW p \in StartRequests, NEW d \in Durations, AcceptStart(p, d)
      PROVE  TypeOK'
    <2>1. now + SyncLead + d \in Nat /\ p \in Requests
        BY <1>0, BoundsAssumption, DurationsAssumption DEF TypeOK
    <2> QED BY <1>0, <1>2, <2>1, ArriveType DEF AcceptStart
<1>3. ASSUME NEW p \in StartRequests, RejectStart(p)
      PROVE  TypeOK'
    BY <1>0, <1>3, ArriveType DEF RejectStart
<1>4. ASSUME NEW p \in CancelRequests, AcceptCancel(p)
      PROVE  TypeOK'
    BY <1>0, <1>4, ArriveType DEF AcceptCancel
<1>5. ASSUME NEW p \in Requests, FailCreate(p) \/ CommitUnanswered(p) \/ FailCancel(p)
      PROVE  TypeOK'
    BY <1>5, FailType
<1> QED BY <1>0, <1>1, <1>2, <1>3, <1>4, <1>5, StartStepType, CancelStepType, CrashType, TimerType
        DEF Next

-----------------------------------------------------------------------------
(* What no step does to the table.                                         *)

RowsKept ==
    /\ DOMAIN rows \subseteq DOMAIN rows'
    /\ \A i \in DOMAIN rows :
        /\ rows'[i].startAt = rows[i].startAt
        /\ rows'[i].endAt = rows[i].endAt
        /\ rows'[i].saw = rows[i].saw
        /\ rows[i].cancelled => rows'[i].cancelled
        /\ rows[i].state # "pending" => rows'[i].state = rows[i].state

\* The rows that a commit makes visible.
LEMMA Committing ==
    ASSUME IInv, NEW p \in Requests, req[p].pc = "commit", CommitRows(p)
    PROVE  /\ RowsKept
           /\ DOMAIN rows' = DOMAIN rows
           /\ \A i \in DOMAIN rows : i # req[p].id => rows'[i].state = rows[i].state
           /\ rows'[req[p].id].state = "committed"
           /\ rows'[req[p].id].cancelled = rows[req[p].id].cancelled
           /\ \A i \in req[p].locked \cap DOMAIN rows : i # req[p].id => rows'[i].cancelled
           /\ \A i \in DOMAIN rows :
                  i \notin req[p].locked => rows'[i].cancelled = rows[i].cancelled
<1>1. TypeOK /\ Supersedes(p)
    BY DEF IInv, TransactionsSupersede
<1>2. req[p].id \in DOMAIN rows /\ rows[req[p].id].state = "pending"
    BY <1>1 DEF Supersedes
<1>3. \A i \in DOMAIN rows : DOMAIN rows[i] = {"startAt", "endAt", "cancelled", "state", "saw"}
    BY <1>1, RowIds DEF Row
<1>4. DOMAIN rows' = DOMAIN rows
    BY DEF CommitRows
<1>5. rows'[req[p].id] = [rows[req[p].id] EXCEPT !.state = "committed"]
    BY <1>2 DEF CommitRows
<1>6. \A i \in DOMAIN rows : i # req[p].id /\ i \in req[p].locked =>
          rows'[i] = [rows[i] EXCEPT !.cancelled = TRUE]
    BY DEF CommitRows
<1>7. \A i \in DOMAIN rows : i # req[p].id /\ i \notin req[p].locked => rows'[i] = rows[i]
    BY DEF CommitRows
<1> QED BY <1>2, <1>3, <1>4, <1>5, <1>6, <1>7 DEF RowsKept

LEMMA Inserting ==
    ASSUME TypeOK, NEW p \in Requests, InsertRow(p)
    PROVE  /\ RowsKept
           /\ DOMAIN rows' = DOMAIN rows \cup {Len(rows) + 1}
           /\ \A i \in DOMAIN rows : rows'[i] = rows[i]
           /\ rows'[Len(rows) + 1].endAt = req[p].endAt
           /\ rows'[Len(rows) + 1].state = "pending"
           /\ rows'[Len(rows) + 1].saw = req[p].saw
           /\ Len(rows) + 1 \notin DOMAIN rows
<1> DEFINE row == [startAt |-> req[p].at + SyncLead, endAt |-> req[p].endAt,
                   cancelled |-> FALSE, state |-> "pending", saw |-> req[p].saw]
<1>1. rows' = Append(rows, row)
    BY DEF InsertRow
<1> HIDE DEF row
<1>2. /\ \A i \in DOMAIN rows' : rows'[i] = IF i = Len(rows) + 1 THEN row ELSE rows[i]
      /\ DOMAIN rows' = 1 .. Len(rows) + 1
    BY <1>1, RowIds DEF TypeOK
<1>3. DOMAIN rows' = DOMAIN rows \cup {Len(rows) + 1} /\ Len(rows) + 1 \notin DOMAIN rows
    BY <1>2, RowIds
<1>4. RowsKept
    BY <1>2, <1>3 DEF RowsKept
<1>5. rows'[Len(rows) + 1] = row
    BY <1>2, <1>3
<1>6. row.endAt = req[p].endAt /\ row.state = "pending" /\ row.saw = req[p].saw
    BY DEF row
<1>7. \A i \in DOMAIN rows : rows'[i] = rows[i]
    BY <1>2, <1>3
<1> QED BY <1>3, <1>4, <1>5, <1>6, <1>7

\* The rows that roll back.
LEMMA RollingBack ==
    ASSUME TypeOK, NEW S, \A i \in S \cap DOMAIN rows : rows[i].state = "pending",
           rows' = [i \in DOMAIN rows |->
                      IF i \in S THEN [rows[i] EXCEPT !.state = "rolledback"] ELSE rows[i]]
    PROVE  /\ RowsKept
           /\ DOMAIN rows' = DOMAIN rows
           /\ \A i \in DOMAIN rows : rows'[i].cancelled = rows[i].cancelled
           /\ \A i \in S \cap DOMAIN rows : rows'[i].state = "rolledback"
           /\ \A i \in DOMAIN rows : i \notin S => rows'[i] = rows[i]
<1>1. \A i \in DOMAIN rows : DOMAIN rows[i] = {"startAt", "endAt", "cancelled", "state", "saw"}
    BY RowIds DEF Row
<1>2. DOMAIN rows' = DOMAIN rows
    OBVIOUS
<1>3. \A i \in S \cap DOMAIN rows : rows'[i] = [rows[i] EXCEPT !.state = "rolledback"]
    OBVIOUS
<1>4. \A i \in DOMAIN rows : i \notin S => rows'[i] = rows[i]
    OBVIOUS
<1> QED BY <1>1, <1>2, <1>3, <1>4 DEF RowsKept

LEMMA FailingCreate ==
    ASSUME IInv, NEW p \in Requests, FailCreate(p)
    PROVE  /\ RowsKept
           /\ DOMAIN rows' = DOMAIN rows
           /\ \A i \in DOMAIN rows : rows'[i].cancelled = rows[i].cancelled
           /\ \A i \in DOMAIN rows : i # req[p].id => rows'[i] = rows[i]
           /\ req[p].id \in DOMAIN rows => rows'[req[p].id].state = "rolledback"
<1>1. TypeOK /\ Supersedes(p) /\ Knows(p)
    BY DEF IInv, TransactionsSupersede, HandlersKnow
<1>2. \A i \in {req[p].id} \cap DOMAIN rows : rows[i].state = "pending"
    BY <1>1, RowIds DEF FailCreate, Supersedes, Knows
<1>3. rows' = [i \in DOMAIN rows |->
                 IF i \in {req[p].id} THEN [rows[i] EXCEPT !.state = "rolledback"] ELSE rows[i]]
    BY DEF FailCreate
<1> QED BY <1>1, <1>2, <1>3, RollingBack

LEMMA Crashing ==
    ASSUME TypeOK, Crash
    PROVE  /\ RowsKept
           /\ DOMAIN rows' = DOMAIN rows
           /\ \A i \in DOMAIN rows : rows'[i].cancelled = rows[i].cancelled
           /\ \A i \in DOMAIN rows : rows[i].state # "pending" => rows'[i] = rows[i]
           /\ \A i \in DOMAIN rows : rows'[i].state # "pending"
           /\ CommittedIds' = CommittedIds
<1> DEFINE Pending == {i \in DOMAIN rows : rows[i].state = "pending"}
<1>1. rows' = [i \in DOMAIN rows |->
                 IF i \in Pending THEN [rows[i] EXCEPT !.state = "rolledback"] ELSE rows[i]]
    BY DEF Crash
<1>2. \A i \in Pending \cap DOMAIN rows : rows[i].state = "pending"
    OBVIOUS
<1>3. \A i \in DOMAIN rows : i \in Pending <=> rows[i].state = "pending"
    OBVIOUS
<1> HIDE DEF Pending
<1>4. /\ RowsKept
      /\ DOMAIN rows' = DOMAIN rows
      /\ \A i \in DOMAIN rows : rows'[i].cancelled = rows[i].cancelled
      /\ \A i \in Pending \cap DOMAIN rows : rows'[i].state = "rolledback"
      /\ \A i \in DOMAIN rows : i \notin Pending => rows'[i] = rows[i]
    BY <1>1, <1>2, RollingBack
<1> QED BY <1>3, <1>4 DEF CommittedIds

LEMMA Cancelling ==
    ASSUME TypeOK, NEW p \in Requests, CancelUpdate(p)
    PROVE  /\ RowsKept
           /\ DOMAIN rows' = DOMAIN rows
           /\ \A i \in DOMAIN rows : rows'[i].state = rows[i].state
           /\ \A i \in DOMAIN rows : i # req[p].id => rows'[i] = rows[i]
           /\ req[p].id \in DOMAIN rows => rows'[req[p].id].cancelled
           /\ CommittedIds' = CommittedIds
<1>1. \A i \in DOMAIN rows : DOMAIN rows[i] = {"startAt", "endAt", "cancelled", "state", "saw"}
    BY RowIds DEF Row
<1>2. DOMAIN rows' = DOMAIN rows
    BY DEF CancelUpdate
<1>3. req[p].id \in DOMAIN rows => rows'[req[p].id] = [rows[req[p].id] EXCEPT !.cancelled = TRUE]
    BY DEF CancelUpdate
<1>4. \A i \in DOMAIN rows : i # req[p].id => rows'[i] = rows[i]
    BY DEF CancelUpdate
<1>5. \A i \in DOMAIN rows : rows'[i].state = rows[i].state
    BY <1>1, <1>3, <1>4
<1> QED BY <1>1, <1>2, <1>3, <1>4, <1>5 DEF RowsKept, CommittedIds

-----------------------------------------------------------------------------
(* The handlers and the table.                                             *)

LEMMA Frame ==
    ASSUME IInv, RowsKept, now' \in Nat, now <= now'
    PROVE  /\ CommittedIds \subseteq CommittedIds'
           /\ \A i \in DOMAIN rows : Over(i) => Over(i)'
           /\ \A q \in Requests : req'[q] = req[q] => Knows(q)'
           /\ \A q \in Requests :
                  /\ req'[q] = req[q]
                  /\ req[q].pc = "commit" => rows'[req[q].id].state = "pending"
                  => Supersedes(q)'
           /\ \A j \in CommittedIds : \A i \in rows'[j].saw : i \in DOMAIN rows' /\ Over(i)'
<1>0. TypeOK /\ now \in Nat
    BY DEF IInv, TypeOK
<1>1. CommittedIds \subseteq CommittedIds'
    BY DEF RowsKept, CommittedIds
<1>2. ASSUME NEW i \in DOMAIN rows, Over(i) PROVE Over(i)'
    <2>1. rows[i].endAt \in Nat
        BY <1>0, RowIds DEF Row
    <2> QED BY <1>0, <1>2, <2>1 DEF Over, RowsKept
<1>3. ASSUME NEW q \in Requests, req'[q] = req[q] PROVE Knows(q)'
    <2>1. Knows(q) /\ req[q].at \in Nat
        BY <1>0 DEF IInv, HandlersKnow, TypeOK, Request
    <2>2. req[q].at <= now'
        BY <1>0, <2>1 DEF Knows
    <2> QED BY <1>1, <1>3, <2>1, <2>2 DEF Knows, RowsKept
<1>4. ASSUME NEW q \in Requests, req'[q] = req[q],
             req[q].pc = "commit" => rows'[req[q].id].state = "pending"
      PROVE  Supersedes(q)'
    <2>1. Supersedes(q)
        BY DEF IInv, TransactionsSupersede
    <2>2. req[q].pc \in {"supersede", "commit"} => req[q].saw \subseteq DOMAIN rows
        BY <2>1 DEF Supersedes, CommittedIds
    <2>3. req[q].pc \in {"supersede", "commit"} =>
              /\ req[q].saw \subseteq CommittedIds'
              /\ \A i \in req[q].saw : i \in req[q].todo \/ i \in req[q].locked \/ Over(i)'
        BY <1>1, <1>2, <2>1, <2>2 DEF Supersedes
    <2>4. req[q].pc = "commit" =>
              /\ req[q].todo = {}
              /\ req[q].id \in DOMAIN rows'
              /\ rows'[req[q].id].state = "pending"
              /\ rows'[req[q].id].saw = req[q].saw
        BY <1>4, <2>1 DEF Supersedes, RowsKept
    <2> QED BY <1>4, <2>3, <2>4 DEF Supersedes
<1>5. ASSUME NEW j \in CommittedIds, NEW i \in rows'[j].saw
      PROVE  i \in DOMAIN rows' /\ Over(i)'
    <2>1. j \in DOMAIN rows
        BY DEF CommittedIds
    <2>2. i \in rows[j].saw
        BY <2>1 DEF RowsKept
    <2>3. i \in DOMAIN rows /\ Over(i)
        BY <2>2 DEF IInv, SeenIsOver
    <2> QED BY <1>2, <2>3 DEF RowsKept
<1> QED BY <1>1, <1>2, <1>3, <1>4, <1>5

TableInv == HandlersKnow /\ IdsAreOwn /\ TransactionsSupersede /\ SeenIsOver

\* One handler takes a step; every other one stays where it is.
LEMMA Moving ==
    ASSUME IInv, RowsKept, now' = now, NEW p \in Requests,
           \A q \in Requests : q # p => req'[q] = req[q],
           \A q \in Requests : q # p /\ req[q].pc = "commit" => rows'[req[q].id].state = "pending",
           Knows(p)', Supersedes(p)',
           \/ p \notin StartRequests
           \/ req'[p].id = req[p].id
           \/ req'[p].id \notin DOMAIN rows,
           \A j \in CommittedIds' : j \notin CommittedIds =>
               \A i \in rows'[j].saw : i \in DOMAIN rows' /\ Over(i)'
    PROVE  TableInv'
<1>0. TypeOK /\ now \in Nat /\ now' \in Nat /\ now <= now'
    BY DEF IInv, TypeOK
<1>1. HandlersKnow' /\ TransactionsSupersede'
    BY <1>0, Frame DEF HandlersKnow, TransactionsSupersede, Requests
<1>2. ASSUME NEW q \in StartRequests, NEW r \in StartRequests, q # r, req'[q].id = req'[r].id
      PROVE  req'[q].id = NoSync
    <2>1. q \in Requests /\ r \in Requests
        BY DEF Requests
    <2>2. req[q].id = NoSync \/ req[q].id \in DOMAIN rows
        BY <2>1 DEF IInv, HandlersKnow, Knows
    <2>3. req[r].id = NoSync \/ req[r].id \in DOMAIN rows
        BY <2>1 DEF IInv, HandlersKnow, Knows
    <2>4. req[q].id = req[r].id => req[q].id = NoSync
        BY <1>2 DEF IInv, IdsAreOwn
    <2>5. (q # p => req'[q] = req[q]) /\ (r # p => req'[r] = req[r])
        BY <2>1
    <2> QED BY <1>2, <2>2, <2>3, <2>4, <2>5
<1>3. SeenIsOver'
    BY <1>0, Frame DEF SeenIsOver
<1> QED BY <1>1, <1>2, <1>3 DEF TableInv, IdsAreOwn

LEMMA Others ==
    ASSUME IInv, NEW p \in StartRequests, NEW q \in Requests, q # p, req[q].pc = "commit"
    PROVE  /\ req[q].id \in DOMAIN rows
           /\ rows[req[q].id].state = "pending"
           /\ req[q].id # req[p].id
<1>1. Supersedes(q) /\ Knows(q) /\ TypeOK
    BY DEF IInv, TransactionsSupersede, HandlersKnow
<1>2. q \in StartRequests
    BY <1>1 DEF Knows, StartPC
<1>3. req[q].id # NoSync
    BY <1>1, RowIds DEF Supersedes
<1> QED BY <1>1, <1>2, <1>3 DEF IInv, IdsAreOwn, Supersedes

LEMMA RowsUnchanged ==
    ASSUME UNCHANGED rows
    PROVE  RowsKept /\ CommittedIds' = CommittedIds
    BY DEF RowsKept, CommittedIds

\* A handler that leaves the table alone and is in no transaction afterwards.
LEMMA MovingAlong ==
    ASSUME IInv, UNCHANGED <<rows, now>>, NEW p \in Requests,
           \A q \in Requests : q # p => req'[q] = req[q],
           Knows(p)', Supersedes(p)',
           p \notin StartRequests \/ req'[p].id = req[p].id
    PROVE  TableInv'
<1>1. RowsKept /\ CommittedIds' = CommittedIds
    BY RowsUnchanged
<1>2. \A q \in Requests : req[q].pc = "commit" => rows'[req[q].id].state = "pending"
    BY DEF IInv, TransactionsSupersede, Supersedes
<1> QED BY <1>1, <1>2, Moving

LEMMA ArriveTable ==
    ASSUME IInv, NEW p \in Requests, NEW pc, NEW e, Arrive(p, pc, e),
           \/ pc = "begin" /\ p \in StartRequests /\ now + SyncLead < e
           \/ pc = "done"
           \/ pc = "select" /\ p \in CancelRequests
    PROVE  TableInv'
<1>0. TypeOK /\ req[p] \in Request /\ Knows(p) /\ now \in Nat
    BY DEF IInv, HandlersKnow, TypeOK
<1>1. /\ UNCHANGED <<rows, now>>
      /\ \A q \in Requests : q # p => req'[q] = req[q]
      /\ req[p].pc = "idle"
      /\ req'[p] = [req[p] EXCEPT !.pc = pc, !.at = now, !.endAt = e]
    BY <1>0 DEF Arrive, TypeOK
<1>2. req'[p].pc = pc /\ req'[p].at = now /\ req'[p].endAt = e /\ req'[p].id = req[p].id
    BY <1>0, <1>1 DEF Request
<1>3. Knows(p)'
    BY <1>0, <1>1, <1>2 DEF Knows, StartPC, CancelPC
<1>4. Supersedes(p)'
    BY <1>2 DEF Supersedes
<1> QED BY <1>1, <1>2, <1>3, <1>4, MovingAlong

LEMMA GotoTable ==
    ASSUME IInv, NEW p \in Requests, NEW pc, Goto(p, pc), UNCHANGED <<rows, now>>,
           \/ pc \in Finished
           \/ pc = "publishStarted" /\ req[p].pc = "schedule"
           \/ pc = "publishCancelled" /\ req[p].pc = "unschedule"
    PROVE  TableInv'
<1>0. TypeOK /\ req[p] \in Request /\ Knows(p)
    BY DEF IInv, HandlersKnow, TypeOK
<1>1. /\ \A q \in Requests : q # p => req'[q] = req[q]
      /\ req'[p] = [req[p] EXCEPT !.pc = pc]
    BY <1>0 DEF Goto, TypeOK
<1>2. req'[p].pc = pc /\ req'[p].at = req[p].at /\ req'[p].id = req[p].id
    BY <1>0, <1>1 DEF Request
<1>3. CommittedIds' = CommittedIds
    BY RowsUnchanged
<1>4. Knows(p)'
    BY <1>0, <1>2, <1>3 DEF Knows, StartPC, CancelPC, Finished
<1>5. Supersedes(p)'
    BY <1>2 DEF Supersedes, Finished
<1> QED BY <1>1, <1>2, <1>4, <1>5, MovingAlong

LEMMA BeginTable ==
    ASSUME IInv, NEW p \in StartRequests, BeginCreate(p)
    PROVE  TableInv'
<1>0. TypeOK /\ p \in Requests /\ req[p] \in Request /\ Knows(p)
    BY DEF IInv, HandlersKnow, TypeOK, Requests
<1>1. /\ \A q \in Requests : q # p => req'[q] = req[q]
      /\ req'[p] = [req[p] EXCEPT !.pc = "supersede", !.todo = LiveRows(req[p].at), !.saw = CommittedIds]
    BY <1>0 DEF BeginCreate, TypeOK
<1>2. /\ req'[p].pc = "supersede" /\ req'[p].at = req[p].at /\ req'[p].id = req[p].id
      /\ req'[p].endAt = req[p].endAt /\ req'[p].todo = LiveRows(req[p].at)
      /\ req'[p].saw = CommittedIds
    BY <1>0, <1>1 DEF Request
<1>3. UNCHANGED <<rows, now>> /\ CommittedIds' = CommittedIds /\ req[p].pc = "begin"
    BY RowsUnchanged DEF BeginCreate
<1>4. Knows(p)'
    BY <1>0, <1>2, <1>3 DEF Knows, StartPC, CancelPC
<1>5. \A i \in CommittedIds : i \in LiveRows(req[p].at) \/ Over(i)
    <2> TAKE i \in CommittedIds
    <2>1. rows[i].endAt \in Nat /\ req[p].at \in Nat /\ now \in Nat /\ req[p].at <= now
        BY <1>0, RowIds DEF CommittedIds, Row, Request, Knows, TypeOK
    <2> QED BY <2>1 DEF LiveRows, Over
<1>6. Supersedes(p)'
    BY <1>2, <1>3, <1>5 DEF Supersedes, Over
<1> QED BY <1>0, <1>1, <1>2, <1>3, <1>4, <1>6, MovingAlong

LEMMA SupersedeTable ==
    ASSUME IInv, NEW p \in StartRequests, SupersedeRow(p)
    PROVE  TableInv'
<1> DEFINE i == Oldest(req[p].todo)
           own == IF rows[i].cancelled THEN {} ELSE {i}
<1>0. /\ TypeOK /\ p \in Requests /\ req[p] \in Request /\ Knows(p) /\ Supersedes(p)
      /\ req[p].pc = "supersede"
    BY DEF IInv, HandlersKnow, TypeOK, Requests, TransactionsSupersede, SupersedeRow
<1>1. /\ \A q \in Requests : q # p => req'[q] = req[q]
      /\ req'[p] = [req[p] EXCEPT !.todo = req[p].todo \ {i}, !.locked = req[p].locked \cup own]
    BY <1>0 DEF SupersedeRow, TypeOK
<1>2. /\ req'[p].pc = "supersede" /\ req'[p].at = req[p].at /\ req'[p].id = req[p].id
      /\ req'[p].endAt = req[p].endAt /\ req'[p].todo = req[p].todo \ {i}
      /\ req'[p].locked = req[p].locked \cup own
      /\ req'[p].saw = req[p].saw
    <2> HIDE DEF i, own
    <2> QED BY <1>0, <1>1 DEF Request
<1>3. UNCHANGED <<rows, now>> /\ CommittedIds' = CommittedIds
    BY RowsUnchanged DEF SupersedeRow
<1>4. Knows(p)'
    <2> HIDE DEF i, own
    <2> QED BY <1>0, <1>2, <1>3 DEF Knows, StartPC, CancelPC
<1>5. \A j \in req[p].saw : j \in req'[p].todo \/ j \in req'[p].locked \/ Over(j)
    <2>1. i \in own \/ Over(i)
        BY DEF Over
    <2> HIDE DEF i, own
    <2> QED BY <1>0, <1>2, <2>1 DEF Supersedes
<1>6. Supersedes(p)'
    <2> HIDE DEF i, own
    <2> QED BY <1>0, <1>2, <1>3, <1>5 DEF Supersedes, Over
<1> HIDE DEF i, own
<1> QED BY <1>0, <1>1, <1>2, <1>3, <1>4, <1>6, MovingAlong

LEMMA InsertTable ==
    ASSUME IInv, NEW p \in StartRequests, InsertRow(p)
    PROVE  TableInv'
<1>0. /\ TypeOK /\ p \in Requests /\ req[p] \in Request /\ Knows(p) /\ Supersedes(p)
      /\ req[p].pc = "supersede" /\ req[p].todo = {}
    BY DEF IInv, HandlersKnow, TypeOK, Requests, TransactionsSupersede, InsertRow
<1> DEFINE new == Len(rows) + 1
<1>1. /\ \A q \in Requests : q # p => req'[q] = req[q]
      /\ req'[p] = [req[p] EXCEPT !.pc = "commit", !.id = new]
    BY <1>0 DEF InsertRow, TypeOK
<1>2. /\ RowsKept
      /\ DOMAIN rows' = DOMAIN rows \cup {new}
      /\ \A i \in DOMAIN rows : rows'[i] = rows[i]
      /\ rows'[new].state = "pending"
      /\ rows'[new].saw = req[p].saw
      /\ new \notin DOMAIN rows
    BY <1>0, Inserting
<1> HIDE DEF new
<1>3. /\ req'[p].pc = "commit" /\ req'[p].at = req[p].at /\ req'[p].id = new
      /\ req'[p].todo = {} /\ req'[p].locked = req[p].locked /\ req'[p].saw = req[p].saw
    BY <1>0, <1>1 DEF Request
<1>4. now' = now /\ now \in Nat /\ CommittedIds' = CommittedIds
    BY <1>0, <1>2 DEF InsertRow, TypeOK, CommittedIds
<1>5. Knows(p)'
    BY <1>0, <1>2, <1>3, <1>4 DEF Knows, CancelPC
<1>6. Supersedes(p)'
    <2>1. \A i \in CommittedIds : Over(i) => Over(i)'
        BY <1>2, <1>4 DEF Over, CommittedIds
    <2> QED BY <1>0, <1>2, <1>3, <1>4, <2>1 DEF Supersedes
<1>7. \A q \in Requests : q # p /\ req[q].pc = "commit" => rows'[req[q].id].state = "pending"
    BY <1>2, Others
<1> QED BY <1>0, <1>1, <1>2, <1>3, <1>4, <1>5, <1>6, <1>7, Moving

LEMMA CommitTable ==
    ASSUME IInv, NEW p \in StartRequests, CommitCreate(p) \/ CommitUnanswered(p)
    PROVE  TableInv'
<1>0. /\ TypeOK /\ p \in Requests /\ req[p] \in Request /\ Knows(p) /\ Supersedes(p)
      /\ req[p].pc = "commit" /\ CommitRows(p) /\ now' = now
    BY DEF IInv, HandlersKnow, TypeOK, Requests, TransactionsSupersede, CommitCreate, CommitUnanswered
<1>1. PICK pc \in {"schedule", "failed"} :
          req' = [req EXCEPT ![p] = [@ EXCEPT !.pc = pc, !.locked = {}]]
    BY DEF CommitCreate, CommitUnanswered
<1>2. /\ \A q \in Requests : q # p => req'[q] = req[q]
      /\ req'[p] = [req[p] EXCEPT !.pc = pc, !.locked = {}]
    BY <1>0, <1>1 DEF TypeOK
<1>3. req'[p].pc = pc /\ req'[p].at = req[p].at /\ req'[p].id = req[p].id
    BY <1>0, <1>2 DEF Request
<1>4. /\ RowsKept
      /\ DOMAIN rows' = DOMAIN rows
      /\ \A i \in DOMAIN rows : i # req[p].id => rows'[i].state = rows[i].state
      /\ rows'[req[p].id].state = "committed"
      /\ \A i \in req[p].locked \cap DOMAIN rows : i # req[p].id => rows'[i].cancelled
    BY <1>0, Committing
<1>5. req[p].id \in CommittedIds' /\ CommittedIds' \subseteq CommittedIds \cup {req[p].id}
    BY <1>0, <1>4 DEF Supersedes, CommittedIds
<1>6. Knows(p)'
    BY <1>0, <1>3, <1>4, <1>5 DEF Knows, StartPC, CancelPC
<1>7. Supersedes(p)'
    BY <1>3 DEF Supersedes
<1>8. \A q \in Requests : q # p /\ req[q].pc = "commit" => rows'[req[q].id].state = "pending"
    BY <1>4, Others
<1>9. ASSUME NEW i \in rows'[req[p].id].saw
      PROVE  i \in DOMAIN rows' /\ Over(i)'
    <2>1. i \in req[p].saw
        BY <1>0, <1>4 DEF Supersedes, RowsKept
    <2>2. i \in CommittedIds /\ (i \in req[p].locked \/ Over(i))
        BY <1>0, <2>1 DEF Supersedes
    <2>3. i # req[p].id /\ i \in DOMAIN rows
        BY <1>0, <2>2 DEF Supersedes, CommittedIds
    <2>4. now \in Nat /\ (Over(i) => Over(i)')
        BY <1>0, <1>4, <2>3, Frame DEF TypeOK
    <2>5. i \in req[p].locked => Over(i)'
        BY <1>4, <2>3 DEF Over
    <2> QED BY <1>4, <2>2, <2>3, <2>4, <2>5
<1> QED BY <1>0, <1>2, <1>3, <1>4, <1>5, <1>6, <1>7, <1>8, <1>9, Moving

LEMMA FailTable ==
    ASSUME IInv, NEW p \in StartRequests, FailCreate(p)
    PROVE  TableInv'
<1>0. /\ TypeOK /\ p \in Requests /\ req[p] \in Request /\ Knows(p) /\ now' = now
    BY DEF IInv, HandlersKnow, TypeOK, Requests, FailCreate
<1>1. /\ \A q \in Requests : q # p => req'[q] = req[q]
      /\ req'[p] = [req[p] EXCEPT !.pc = "failed", !.locked = {}, !.todo = {}]
    BY <1>0 DEF TypeOK, FailCreate
<1>2. req'[p].pc = "failed" /\ req'[p].at = req[p].at /\ req'[p].id = req[p].id
    BY <1>0, <1>1 DEF Request
<1>3. /\ RowsKept
      /\ DOMAIN rows' = DOMAIN rows
      /\ \A i \in DOMAIN rows : i # req[p].id => rows'[i] = rows[i]
      /\ req[p].id \in DOMAIN rows => rows'[req[p].id].state = "rolledback"
    BY <1>0, FailingCreate
<1>4. CommittedIds' \subseteq CommittedIds
    BY <1>3 DEF CommittedIds
<1>5. Knows(p)' /\ Supersedes(p)'
    BY <1>0, <1>2, <1>3 DEF Knows, Supersedes, StartPC, CancelPC
<1>6. \A q \in Requests : q # p /\ req[q].pc = "commit" => rows'[req[q].id].state = "pending"
    BY <1>3, Others
<1> QED BY <1>0, <1>1, <1>2, <1>3, <1>4, <1>5, <1>6, Moving

LEMMA CancelTable ==
    ASSUME IInv, NEW p \in CancelRequests, CancelStep(p)
    PROVE  TableInv'
<1>0. /\ TypeOK /\ p \in Requests /\ p \notin StartRequests /\ req[p] \in Request
      /\ Knows(p) /\ Supersedes(p)
    BY RequestsAssumption DEF IInv, HandlersKnow, TypeOK, Requests, TransactionsSupersede
<1>1. CASE CancelSelect(p)
    <2> DEFINE live == LiveSync(req[p].at)
               next == IF live = NoSync THEN "done" ELSE "update"
    <2>1. live = NoSync \/ live \in CommittedIds
        BY <1>0, LiveSyncIsLive DEF Request, LiveRows
    <2>2. next \in {"done", "update"} /\ (next = "update" => live # NoSync)
        OBVIOUS
    <2>3. req' = [req EXCEPT ![p] = [@ EXCEPT !.id = live, !.pc = next]]
        BY <1>1 DEF CancelSelect
    <2> HIDE DEF live, next
    <2>4. /\ \A q \in Requests : q # p => req'[q] = req[q]
          /\ req'[p] = [req[p] EXCEPT !.id = live, !.pc = next]
        BY <1>0, <2>3 DEF TypeOK
    <2>5. req'[p].pc = next /\ req'[p].at = req[p].at /\ req'[p].id = live
        BY <1>0, <2>4 DEF Request
    <2>6. UNCHANGED <<rows, now>> /\ CommittedIds' = CommittedIds
        BY <1>1, RowsUnchanged DEF CancelSelect
    <2>7. Knows(p)' /\ Supersedes(p)'
        BY <1>0, <2>1, <2>2, <2>5, <2>6 DEF Knows, Supersedes, StartPC, CancelPC, CommittedIds
    <2> QED BY <1>0, <2>4, <2>6, <2>7, MovingAlong
<1>2. CASE CancelUpdate(p)
    <2>1. /\ \A q \in Requests : q # p => req'[q] = req[q]
          /\ req'[p] = [req[p] EXCEPT !.pc = "unschedule"]
        BY <1>0, <1>2 DEF TypeOK, CancelUpdate, Goto
    <2>2. req'[p].pc = "unschedule" /\ req'[p].at = req[p].at /\ req'[p].id = req[p].id
        BY <1>0, <2>1 DEF Request
    <2>3. /\ RowsKept /\ DOMAIN rows' = DOMAIN rows /\ CommittedIds' = CommittedIds
          /\ \A i \in DOMAIN rows : rows'[i].state = rows[i].state
        BY <1>0, <1>2, Cancelling
    <2>4. now' = now /\ req[p].pc = "update"
        BY <1>2 DEF CancelUpdate
    <2>5. Knows(p)' /\ Supersedes(p)'
        BY <1>0, <2>2, <2>3, <2>4 DEF Knows, Supersedes, StartPC, CancelPC
    <2>6. \A q \in Requests : req[q].pc = "commit" => rows'[req[q].id].state = "pending"
        BY <2>3 DEF IInv, TransactionsSupersede, Supersedes
    <2> QED BY <1>0, <2>1, <2>3, <2>4, <2>5, <2>6, Moving
<1>3. CASE Unschedule(p) \/ PublishCancelled(p)
    BY <1>0, <1>3, GotoTable DEF Unschedule, PublishCancelled, Finished
<1> QED BY <1>1, <1>2, <1>3 DEF CancelStep

\* The handlers stand still.
LEMMA StandingStill ==
    ASSUME IInv, UNCHANGED <<rows, req>>, now' \in Nat, now <= now'
    PROVE  TableInv'
<1>1. RowsKept /\ CommittedIds' = CommittedIds
    BY RowsUnchanged
<1>2. \A q \in Requests : req[q].pc = "commit" => rows'[req[q].id].state = "pending"
    BY DEF IInv, TransactionsSupersede, Supersedes
<1>3. HandlersKnow' /\ TransactionsSupersede'
    BY <1>1, <1>2, Frame DEF HandlersKnow, TransactionsSupersede, Requests
<1>4. SeenIsOver'
    BY <1>1, Frame DEF SeenIsOver
<1>5. IdsAreOwn'
    BY DEF IInv, IdsAreOwn
<1> QED BY <1>3, <1>4, <1>5 DEF TableInv

LEMMA CrashTable ==
    ASSUME IInv, Crash
    PROVE  TableInv'
<1>0. TypeOK /\ now \in Nat /\ now' = now
    BY DEF IInv, TypeOK, Crash
<1>1. /\ RowsKept
      /\ CommittedIds' = CommittedIds
    BY <1>0, Crashing
<1>2. ASSUME NEW q \in Requests
      PROVE  /\ req'[q].id = req[q].id
             /\ req'[q].at = req[q].at
             /\ req'[q].pc \in Finished \cup {"idle"}
             /\ req'[q].pc = "idle" => req'[q] = req[q]
    <2>1. req[q] \in Request
        BY <1>0 DEF TypeOK
    <2>2. CASE InFlight(q)
        <3>1. req'[q] = [req[q] EXCEPT !.pc = "lost", !.locked = {}, !.todo = {}]
            BY <2>2 DEF Crash
        <3> QED BY <2>1, <3>1 DEF Request, Finished
    <2>3. CASE ~ InFlight(q)
        BY <2>3 DEF Crash, InFlight
    <2> QED BY <2>2, <2>3
<1>3. ASSUME NEW q \in Requests PROVE Knows(q)' /\ Supersedes(q)'
    <2>1. Knows(q)
        BY DEF IInv, HandlersKnow
    <2>2. req'[q].pc = "idle" => Knows(q)'
        BY <1>0, <1>1, <1>2, Frame
    <2>3. req'[q].pc \in Finished => Knows(q)'
        BY <1>0, <1>1, <1>2, <2>1 DEF Knows, Finished, StartPC, CancelPC, RowsKept
    <2>4. Supersedes(q)'
        BY <1>2 DEF Supersedes, Finished
    <2> QED BY <1>2, <2>2, <2>3, <2>4
<1>4. IdsAreOwn'
    BY <1>2 DEF IInv, IdsAreOwn, Requests
<1>5. SeenIsOver'
    BY <1>0, <1>1, Frame DEF SeenIsOver
<1> QED BY <1>3, <1>4, <1>5 DEF TableInv, HandlersKnow, TransactionsSupersede, Requests

LEMMA TableStep ==
    ASSUME IInv, [Next]_vars
    PROVE  TableInv'
<1>0. TypeOK /\ now \in Nat /\ Requests = StartRequests \cup CancelRequests
    BY DEF IInv, TypeOK, Requests
<1>1. CASE UNCHANGED vars
    BY <1>0, <1>1, StandingStill DEF vars
<1>2. ASSUME NEW p \in StartRequests, NEW d \in Durations, AcceptStart(p, d)
      PROVE  TableInv'
    <2>1. now + SyncLead < now + SyncLead + d
        BY <1>0, <1>2, BoundsAssumption, DurationsAssumption DEF AcceptStart, ValidDuration
    <2> QED BY <1>0, <1>2, <2>1, ArriveTable DEF AcceptStart
<1>3. ASSUME NEW p \in StartRequests, RejectStart(p)
      PROVE  TableInv'
    BY <1>0, <1>3, ArriveTable DEF RejectStart
<1>4. ASSUME NEW p \in CancelRequests, AcceptCancel(p)
      PROVE  TableInv'
    BY <1>0, <1>4, ArriveTable DEF AcceptCancel
<1>5. ASSUME NEW p \in StartRequests, StartStep(p)
      PROVE  TableInv'
    <2>1. CASE ScheduleEnd(p) \/ PublishStarted(p)
        BY <1>0, <2>1, GotoTable DEF ScheduleEnd, PublishStarted, Finished
    <2> QED BY <1>5, <2>1, BeginTable, SupersedeTable, InsertTable, CommitTable DEF StartStep
<1>6. ASSUME NEW p \in StartRequests, FailCreate(p) \/ CommitUnanswered(p)
      PROVE  TableInv'
    BY <1>6, FailTable, CommitTable
<1>7. ASSUME NEW p \in CancelRequests, FailCancel(p)
      PROVE  TableInv'
    BY <1>0, <1>7, GotoTable DEF FailCancel, Finished
<1>8. CASE \/ FireTimer
           \/ \E i \in firing : CheckEnd(i)
           \/ \E i \in announcing : AnnounceEnd(i)
           \/ RestoreSyncTimer
           \/ RestoreFails
    BY <1>0, <1>8, StandingStill DEF FireTimer, CheckEnd, AnnounceEnd, RestoreSyncTimer, RestoreFails
<1>9. CASE Tick
    BY <1>0, <1>9, StandingStill DEF Tick
<1> QED BY <1>1, <1>2, <1>3, <1>4, <1>5, <1>6, <1>7, <1>8, <1>9, CancelTable, CrashTable DEF Next

-----------------------------------------------------------------------------
(* The announcement of an end.                                             *)

EndInv == DownIsQuiet /\ TimersAreDue /\ OneAnnouncement /\ EndAnnouncedAtMostOnce

Awaits(p) == req[p].pc \in {"commit", "schedule"}

LEMMA Publishing ==
    ASSUME TypeOK, EndAnnouncedAtMostOnce,
           NEW type \in {"SYNC_STARTED", "SYNC_ENDED", "SYNC_CANCELLED"}, NEW i \in Nat,
           Publish(type, i), type = "SYNC_ENDED" => i \notin Ended
    PROVE  /\ EndAnnouncedAtMostOnce'
           /\ Ended' = IF type = "SYNC_ENDED" THEN Ended \cup {i} ELSE Ended
<1> DEFINE event == [type |-> type, id |-> i]
<1>1. published \in Seq(Event) /\ event \in Event /\ event.type = type /\ event.id = i
    BY DEF TypeOK, Event
<1>2. published' = Append(published, event)
    BY DEF Publish
<1> HIDE DEF event
<1>3. /\ DOMAIN published' = 1 .. Len(published) + 1
      /\ DOMAIN published = 1 .. Len(published)
      /\ Len(published) \in Nat
      /\ \A k \in 1 .. Len(published) : published'[k] = published[k]
      /\ published'[Len(published) + 1] = event
    BY <1>1, <1>2
<1>4. Ended' = IF type = "SYNC_ENDED" THEN Ended \cup {i} ELSE Ended
    BY <1>1, <1>3 DEF Ended
<1>5. \A k \in 1 .. Len(published) :
          type = "SYNC_ENDED" => ~ (published[k].type = "SYNC_ENDED" /\ published[k].id = i)
    BY <1>3 DEF Ended
<1>6. \A k \in 1 .. Len(published) :
          ~ (published'[k].type = "SYNC_ENDED" /\ published'[k] = event)
    BY <1>1, <1>3, <1>5
<1>7. ASSUME NEW k \in DOMAIN published', NEW l \in DOMAIN published',
             published'[k].type = "SYNC_ENDED", published'[l] = published'[k]
      PROVE  k = l
    <2>1. CASE k \in 1 .. Len(published) /\ l \in 1 .. Len(published)
        BY <1>3, <1>7, <2>1 DEF EndAnnouncedAtMostOnce
    <2>2. CASE k = Len(published) + 1 /\ l \in 1 .. Len(published)
        BY <1>3, <1>6, <1>7, <2>2
    <2>3. CASE l = Len(published) + 1 /\ k \in 1 .. Len(published)
        BY <1>3, <1>6, <1>7, <2>3
    <2> QED BY <1>3, <2>1, <2>2, <2>3
<1>8. EndAnnouncedAtMostOnce'
    BY <1>7 DEF EndAnnouncedAtMostOnce
<1> QED BY <1>4, <1>8

LEMMA UpWhenInFlight ==
    ASSUME IInv, NEW p \in Requests, InFlight(p)
    PROVE  up
    BY DEF IInv, DownIsQuiet, Quiet

\* Every id a timer or an announcement names is a row.
LEMMA IdsAreRows ==
    ASSUME IInv
    PROVE  /\ firing \cup announcing \cup Ended \subseteq DOMAIN rows
           /\ endTimer.id \in {NoSync} \cup DOMAIN rows
           /\ NoSync \notin DOMAIN rows
    BY RowIds DEF IInv, TimersAreDue

\* The timers are left alone, whatever else the step does.
LEMMA TimersAlone ==
    ASSUME IInv, RowsKept, now' \in Nat, now <= now', up',
           UNCHANGED <<endTimer, firing, announcing>>, Ended' = Ended, EndAnnouncedAtMostOnce',
           \A q \in StartRequests : Awaits(q)' =>
               \/ Awaits(q) /\ req'[q].id = req[q].id
               \/ req'[q].id \notin DOMAIN rows \cup {NoSync}
    PROVE  EndInv'
<1>1. DownIsQuiet'
    BY DEF DownIsQuiet
<1>2. TimersAreDue'
    <2>1. endTimer'.id # NoSync =>
              endTimer'.id \in DOMAIN rows' /\ rows'[endTimer'.id].endAt <= endTimer'.due
        BY DEF IInv, TimersAreDue, RowsKept
    <2>2. ASSUME NEW i \in firing' \cup announcing' \cup Ended'
          PROVE  i \in DOMAIN rows' /\ rows'[i].endAt <= now'
        <3>1. i \in DOMAIN rows /\ rows[i].endAt <= now /\ now \in Nat
            BY <2>2 DEF IInv, TimersAreDue, TypeOK
        <3>2. rows[i].endAt \in Nat
            BY <3>1, RowIds DEF IInv, Row
        <3> QED BY <3>1, <3>2 DEF RowsKept
    <2> QED BY <2>1, <2>2 DEF TimersAreDue
<1>3. OneAnnouncement'
    BY IdsAreRows DEF IInv, OneAnnouncement, Awaits
<1> QED BY <1>1, <1>2, <1>3 DEF EndInv

\* A step of one handler that publishes nothing and leaves the timer alone.
LEMMA HandlerOnly ==
    ASSUME IInv, RowsKept, up, UNCHANGED <<now, up, endTimer, firing, announcing, published>>,
           NEW p \in Requests, \A q \in Requests : q # p => req'[q] = req[q],
           Awaits(p)' =>
               \/ Awaits(p) /\ req'[p].id = req[p].id
               \/ req'[p].id \notin DOMAIN rows \cup {NoSync}
    PROVE  EndInv'
<1>1. now' \in Nat /\ now <= now' /\ EndAnnouncedAtMostOnce' /\ Ended' = Ended /\ up'
    BY DEF IInv, TypeOK, EndAnnouncedAtMostOnce, Ended
<1>2. \A q \in StartRequests : Awaits(q)' =>
          \/ Awaits(q) /\ req'[q].id = req[q].id
          \/ req'[q].id \notin DOMAIN rows \cup {NoSync}
    BY DEF Awaits, Requests
<1> QED BY <1>1, <1>2, TimersAlone

LEMMA ArriveEnd ==
    ASSUME IInv, NEW p \in Requests, NEW pc \in {"begin", "select", "done"}, NEW e,
           Arrive(p, pc, e)
    PROVE  EndInv'
<1>0. TypeOK /\ req[p] \in Request
    BY DEF IInv, TypeOK
<1>1. /\ \A q \in Requests : q # p => req'[q] = req[q]
      /\ req'[p] = [req[p] EXCEPT !.pc = pc, !.at = now, !.endAt = e]
    BY <1>0 DEF Arrive, TypeOK
<1>2. req'[p].pc = pc
    BY <1>0, <1>1 DEF Request
<1>3. ~ Awaits(p)' /\ RowsKept
    BY <1>2, RowsUnchanged DEF Awaits, Arrive
<1>4. up /\ UNCHANGED <<now, up, endTimer, firing, announcing, published>>
    BY DEF Arrive
<1> QED BY <1>1, <1>3, <1>4, HandlerOnly

LEMMA BeginEnd ==
    ASSUME IInv, NEW p \in Requests, BeginCreate(p) \/ SupersedeRow(p)
    PROVE  EndInv'
<1>0. TypeOK /\ req[p] \in Request /\ up
    BY UpWhenInFlight DEF IInv, TypeOK, BeginCreate, SupersedeRow, InFlight, Finished
<1>1. /\ \A q \in Requests : q # p => req'[q] = req[q]
      /\ req'[p].pc = "supersede"
    <2>1. CASE BeginCreate(p)
        <3>1. req'[p] = [req[p] EXCEPT !.pc = "supersede", !.todo = LiveRows(req[p].at),
                                       !.saw = CommittedIds]
            BY <1>0, <2>1 DEF BeginCreate, TypeOK
        <3> QED BY <1>0, <2>1, <3>1 DEF BeginCreate, TypeOK, Request
    <2>2. CASE SupersedeRow(p)
        BY <1>0, <2>2 DEF SupersedeRow, TypeOK, Request
    <2> QED BY <2>1, <2>2
<1>2. ~ Awaits(p)' /\ RowsKept
    BY <1>1, RowsUnchanged DEF Awaits, BeginCreate, SupersedeRow
<1>3. UNCHANGED <<now, up, endTimer, firing, announcing, published>>
    BY DEF BeginCreate, SupersedeRow
<1> QED BY <1>0, <1>1, <1>2, <1>3, HandlerOnly

LEMMA InsertEnd ==
    ASSUME IInv, NEW p \in Requests, InsertRow(p)
    PROVE  EndInv'
<1>0. TypeOK /\ req[p] \in Request /\ up
    BY UpWhenInFlight DEF IInv, TypeOK, InsertRow, InFlight, Finished
<1>1. /\ \A q \in Requests : q # p => req'[q] = req[q]
      /\ req'[p] = [req[p] EXCEPT !.pc = "commit", !.id = Len(rows) + 1]
    BY <1>0 DEF InsertRow, TypeOK
<1>2. req'[p].id = Len(rows) + 1
    BY <1>0, <1>1 DEF Request
<1>3. RowsKept /\ req'[p].id \notin DOMAIN rows \cup {NoSync}
    BY <1>0, <1>2, Inserting, RowIds DEF NoSync
<1>4. UNCHANGED <<now, up, endTimer, firing, announcing, published>>
    BY DEF InsertRow
<1> QED BY <1>0, <1>1, <1>3, <1>4, HandlerOnly

LEMMA CommitEnd ==
    ASSUME IInv, NEW p \in Requests, CommitCreate(p) \/ CommitUnanswered(p)
    PROVE  EndInv'
<1>0. TypeOK /\ req[p] \in Request /\ req[p].pc = "commit" /\ CommitRows(p)
    BY DEF IInv, TypeOK, CommitCreate, CommitUnanswered
<1>1. PICK pc \in {"schedule", "failed"} :
          req' = [req EXCEPT ![p] = [@ EXCEPT !.pc = pc, !.locked = {}]]
    BY DEF CommitCreate, CommitUnanswered
<1>2. /\ \A q \in Requests : q # p => req'[q] = req[q]
      /\ req'[p] = [req[p] EXCEPT !.pc = pc, !.locked = {}]
    BY <1>0, <1>1 DEF TypeOK
<1>3. req'[p].id = req[p].id /\ Awaits(p)
    BY <1>0, <1>2 DEF Request, Awaits
<1>4. RowsKept /\ up
    BY <1>0, Committing, UpWhenInFlight DEF InFlight, Finished
<1>5. UNCHANGED <<now, up, endTimer, firing, announcing, published>>
    BY DEF CommitCreate, CommitUnanswered
<1> QED BY <1>2, <1>3, <1>4, <1>5, HandlerOnly

LEMMA FailEnd ==
    ASSUME IInv, NEW p \in Requests, FailCreate(p) \/ FailCancel(p)
    PROVE  EndInv'
<1>0. TypeOK /\ req[p] \in Request /\ up
    BY UpWhenInFlight DEF IInv, TypeOK, FailCreate, FailCancel, InFlight, Finished
<1>1. \A q \in Requests : q # p => req'[q] = req[q]
    BY <1>0 DEF FailCreate, FailCancel, Goto, TypeOK
<1>2. req'[p].pc = "failed"
    <2>1. CASE FailCreate(p)
        <3>1. req'[p] = [req[p] EXCEPT !.pc = "failed", !.locked = {}, !.todo = {}]
            BY <1>0, <2>1 DEF FailCreate, TypeOK
        <3> QED BY <1>0, <3>1 DEF Request
    <2>2. CASE FailCancel(p)
        BY <1>0, <2>2 DEF FailCancel, Goto, TypeOK, Request
    <2> QED BY <2>1, <2>2
<1>3. ~ Awaits(p)'
    BY <1>2 DEF Awaits
<1>4. RowsKept
    BY FailingCreate, RowsUnchanged DEF FailCancel
<1>5. UNCHANGED <<now, up, endTimer, firing, announcing, published>>
    BY DEF FailCreate, FailCancel
<1> QED BY <1>0, <1>1, <1>3, <1>4, <1>5, HandlerOnly

LEMMA GotoEffect ==
    ASSUME IInv, NEW p \in Requests, NEW pc, Goto(p, pc), req[p].pc # "idle",
           req[p].pc \notin Finished
    PROVE  /\ up
           /\ \A q \in Requests : q # p => req'[q] = req[q]
           /\ req'[p].pc = pc
           /\ req'[p].id = req[p].id
<1>1. TypeOK /\ req[p] \in Request /\ up
    BY UpWhenInFlight DEF IInv, TypeOK, InFlight
<1>2. req'[p] = [req[p] EXCEPT !.pc = pc]
    BY <1>1 DEF Goto, TypeOK
<1>3. \A q \in Requests : q # p => req'[q] = req[q]
    BY <1>1 DEF Goto, TypeOK
<1> QED BY <1>1, <1>2, <1>3 DEF Request

LEMMA DelayIsEnough ==
    ASSUME TypeOK, NEW i \in DOMAIN rows
    PROVE  /\ now + Delay(i) \in Nat
           /\ rows[i].endAt <= now + Delay(i)
           /\ now < rows[i].endAt => now + Delay(i) = rows[i].endAt
<1>1. rows[i].endAt \in Nat /\ now \in Nat
    BY RowIds DEF TypeOK, Row
<1> QED BY <1>1 DEF Delay

LEMMA ScheduleEndStep ==
    ASSUME IInv, NEW p \in StartRequests, ScheduleEnd(p)
    PROVE  EndInv'
<1>0. TypeOK /\ p \in Requests /\ req[p].pc = "schedule" /\ Knows(p)
    BY DEF IInv, HandlersKnow, Requests, ScheduleEnd
<1>1. /\ up
      /\ \A q \in Requests : q # p => req'[q] = req[q]
      /\ req'[p].pc = "publishStarted"
    BY <1>0, GotoEffect DEF ScheduleEnd, Finished
<1>2. /\ req[p].id \in DOMAIN rows
      /\ endTimer'.id = req[p].id
      /\ endTimer'.due = now + Delay(req[p].id)
    BY <1>0 DEF Knows, CommittedIds, ScheduleEnd, ScheduleSyncEnd
<1>3. UNCHANGED <<now, up, rows, firing, announcing, published>> /\ Ended' = Ended
    BY DEF ScheduleEnd, Ended
<1>4. DownIsQuiet' /\ EndAnnouncedAtMostOnce'
    BY <1>1, <1>3 DEF IInv, DownIsQuiet, EndAnnouncedAtMostOnce
<1>5. TimersAreDue'
    BY <1>0, <1>2, <1>3, DelayIsEnough DEF IInv, TimersAreDue
<1>6. ASSUME NEW q \in StartRequests, Awaits(q)'
      PROVE  req'[q].id \notin {endTimer'.id} \cup firing \cup announcing \cup Ended
    <2>1. q # p /\ q \in Requests
        BY <1>1, <1>6 DEF Awaits, Requests
    <2>2. Awaits(q) /\ req'[q].id = req[q].id
        BY <1>1, <1>6, <2>1 DEF Awaits
    <2>3. req[q].id \notin firing \cup announcing \cup Ended
        BY <2>2 DEF IInv, OneAnnouncement, Awaits
    <2>4. req[q].id # req[p].id
        BY <1>2, <2>1, IdsAreRows DEF IInv, IdsAreOwn
    <2> QED BY <1>2, <2>2, <2>3, <2>4
<1>7. OneAnnouncement'
    <2>1. req[p].id \notin firing \cup announcing \cup Ended
        BY <1>0 DEF IInv, OneAnnouncement
    <2>2. firing \cap (announcing \cup Ended) = {} /\ announcing \cap Ended = {}
        BY DEF IInv, OneAnnouncement
    <2> QED BY <1>2, <1>3, <1>6, <2>1, <2>2 DEF OneAnnouncement, Awaits
<1> QED BY <1>4, <1>5, <1>7 DEF EndInv

LEMMA PublishEnd ==
    ASSUME IInv, NEW p \in Requests, PublishStarted(p) \/ PublishCancelled(p)
    PROVE  EndInv'
<1>0. TypeOK /\ req[p].id \in Nat /\ EndAnnouncedAtMostOnce
    BY DEF IInv, TypeOK, Request
<1>1. /\ up
      /\ \A q \in Requests : q # p => req'[q] = req[q]
      /\ req'[p].pc = "done"
    BY GotoEffect DEF PublishStarted, PublishCancelled, Finished
<1>2. EndAnnouncedAtMostOnce' /\ Ended' = Ended
    BY <1>0, Publishing DEF PublishStarted, PublishCancelled
<1>3. UNCHANGED <<now, up, rows, endTimer, firing, announcing>>
    BY DEF PublishStarted, PublishCancelled
<1>4. RowsKept /\ now' \in Nat /\ now <= now' /\ up'
    BY <1>0, <1>1, <1>3, RowsUnchanged DEF TypeOK
<1>5. \A q \in StartRequests : Awaits(q)' => Awaits(q) /\ req'[q].id = req[q].id
    BY <1>1 DEF Awaits, Requests
<1> QED BY <1>2, <1>3, <1>4, <1>5, TimersAlone

LEMMA CancelEnd ==
    ASSUME IInv, NEW p \in CancelRequests, CancelSelect(p) \/ CancelUpdate(p) \/ Unschedule(p)
    PROVE  EndInv'
<1>0. TypeOK /\ p \in Requests /\ req[p] \in Request
    BY DEF IInv, TypeOK, Requests
<1>1. CASE CancelSelect(p)
    <2> DEFINE next == IF LiveSync(req[p].at) = NoSync THEN "done" ELSE "update"
    <2>1. req' = [req EXCEPT ![p] = [@ EXCEPT !.id = LiveSync(req[p].at), !.pc = next]]
        BY <1>1 DEF CancelSelect
    <2>2. next \in {"done", "update"}
        OBVIOUS
    <2> HIDE DEF next
    <2>3. /\ \A q \in Requests : q # p => req'[q] = req[q]
          /\ req'[p] = [req[p] EXCEPT !.id = LiveSync(req[p].at), !.pc = next]
        BY <1>0, <2>1 DEF TypeOK
    <2>4. req'[p].pc = next
        BY <1>0, <2>3 DEF Request
    <2>5. ~ Awaits(p)'
        BY <2>2, <2>4 DEF Awaits
    <2>6. RowsKept /\ up /\ UNCHANGED <<now, up, endTimer, firing, announcing, published>>
        BY <1>0, <1>1, RowsUnchanged, UpWhenInFlight DEF CancelSelect, InFlight, Finished
    <2> QED BY <1>0, <2>3, <2>5, <2>6, HandlerOnly
<1>2. CASE CancelUpdate(p)
    <2>1. /\ up
          /\ \A q \in Requests : q # p => req'[q] = req[q]
          /\ req'[p].pc = "unschedule"
        BY <1>0, <1>2, GotoEffect DEF CancelUpdate, Finished
    <2>2. ~ Awaits(p)'
        BY <2>1 DEF Awaits
    <2>3. RowsKept /\ UNCHANGED <<now, up, endTimer, firing, announcing, published>>
        BY <1>0, <1>2, Cancelling DEF CancelUpdate
    <2> QED BY <1>0, <2>1, <2>2, <2>3, HandlerOnly
<1>3. CASE Unschedule(p)
    <2>1. /\ up
          /\ \A q \in Requests : q # p => req'[q] = req[q]
          /\ req'[p].pc = "publishCancelled"
        BY <1>0, <1>3, GotoEffect DEF Unschedule, Finished
    <2>2. /\ UNCHANGED <<now, up, rows, firing, announcing, published>>
          /\ Ended' = Ended
          /\ endTimer'.id = NoSync
        BY <1>3 DEF Unschedule, Ended, CancelScheduledEnd, NoTimer
    <2>3. DownIsQuiet' /\ EndAnnouncedAtMostOnce'
        BY <2>1, <2>2 DEF IInv, DownIsQuiet, EndAnnouncedAtMostOnce
    <2>4. TimersAreDue'
        BY <2>2 DEF IInv, TimersAreDue
    <2>5. ASSUME NEW q \in StartRequests, Awaits(q)'
          PROVE  req'[q].id \notin {NoSync} \cup firing \cup announcing \cup Ended
        <3>1. q # p /\ q \in Requests
            BY <2>1, <2>5 DEF Awaits, Requests
        <3>2. Awaits(q) /\ req'[q].id = req[q].id
            BY <2>1, <2>5, <3>1 DEF Awaits
        <3>3. req[q].id \in DOMAIN rows
            BY <3>1, <3>2 DEF IInv, HandlersKnow, TransactionsSupersede, Knows, Supersedes,
                              Awaits, CommittedIds
        <3> QED BY <3>2, <3>3, IdsAreRows DEF IInv, OneAnnouncement, Awaits
    <2>6. OneAnnouncement'
        BY <2>2, <2>5, IdsAreRows DEF IInv, OneAnnouncement, Awaits
    <2> QED BY <2>3, <2>4, <2>6 DEF EndInv
<1> QED BY <1>1, <1>2, <1>3

LEMMA FireEnd ==
    ASSUME IInv, FireTimer
    PROVE  EndInv'
<1>0. TypeOK /\ now \in Nat
    BY DEF IInv, TypeOK
<1>1. /\ endTimer.id # NoSync /\ endTimer'.id = NoSync /\ endTimer.due <= now
      /\ firing' = firing \cup {endTimer.id}
      /\ UNCHANGED <<now, up, rows, req, announcing, published>>
      /\ Ended' = Ended
    BY <1>0 DEF FireTimer, NoTimer, Ended, TypeOK
<1>2. DownIsQuiet' /\ EndAnnouncedAtMostOnce'
    BY <1>1 DEF IInv, DownIsQuiet, EndAnnouncedAtMostOnce, NoTimer
<1>3. endTimer.id \in DOMAIN rows /\ rows[endTimer.id].endAt <= now
    <2>1. endTimer.id \in DOMAIN rows /\ rows[endTimer.id].endAt <= endTimer.due
        BY <1>1 DEF IInv, TimersAreDue
    <2>2. rows[endTimer.id].endAt \in Nat /\ endTimer.due \in Nat
        BY <1>0, <2>1, RowIds DEF Row, TypeOK
    <2> QED BY <1>0, <1>1, <2>1, <2>2
<1>4. TimersAreDue'
    BY <1>1, <1>3 DEF IInv, TimersAreDue
<1>5. \A q \in StartRequests : Awaits(q) => req[q].id \in DOMAIN rows
    BY DEF IInv, HandlersKnow, TransactionsSupersede, Knows, Supersedes, Awaits, CommittedIds, Requests
<1>6. OneAnnouncement'
    <2>1. \A q \in StartRequests : Awaits(q) =>
              req[q].id \notin {endTimer.id} \cup firing \cup announcing \cup Ended
        BY DEF IInv, OneAnnouncement, Awaits
    <2>2. /\ endTimer.id \notin firing \cup announcing \cup Ended
          /\ firing \cap (announcing \cup Ended) = {}
          /\ announcing \cap Ended = {}
        BY DEF IInv, OneAnnouncement
    <2>3. \A q \in StartRequests : Awaits(q)' =>
              req'[q].id \notin {endTimer'.id} \cup firing' \cup announcing' \cup Ended'
        BY <1>1, <1>5, <2>1, IdsAreRows DEF Awaits
    <2> QED BY <1>1, <1>3, <2>2, <2>3, IdsAreRows DEF OneAnnouncement, Awaits
<1> QED BY <1>2, <1>4, <1>6 DEF EndInv

LEMMA CheckStep ==
    ASSUME IInv, NEW i \in firing, CheckEnd(i)
    PROVE  EndInv'
<1>1. /\ firing' = firing \ {i}
      /\ announcing' \subseteq announcing \cup {i}
      /\ UNCHANGED <<now, up, rows, req, endTimer, published>>
      /\ Ended' = Ended
    BY DEF CheckEnd, Ended
<1>2. DownIsQuiet' /\ EndAnnouncedAtMostOnce'
    BY <1>1 DEF IInv, DownIsQuiet, EndAnnouncedAtMostOnce
<1>3. TimersAreDue'
    BY <1>1 DEF IInv, TimersAreDue
<1>4. OneAnnouncement'
    BY <1>1 DEF IInv, OneAnnouncement
<1> QED BY <1>2, <1>3, <1>4 DEF EndInv

LEMMA AnnounceStep ==
    ASSUME IInv, NEW i \in announcing, AnnounceEnd(i)
    PROVE  EndInv'
<1>0. TypeOK /\ i \in Nat /\ EndAnnouncedAtMostOnce /\ i \notin Ended
    BY DEF IInv, TypeOK, OneAnnouncement
<1>1. /\ announcing' = announcing \ {i}
      /\ UNCHANGED <<now, up, rows, req, endTimer, firing>>
    BY DEF AnnounceEnd
<1>2. EndAnnouncedAtMostOnce' /\ Ended' = Ended \cup {i}
    BY <1>0, Publishing DEF AnnounceEnd
<1>3. DownIsQuiet'
    BY <1>1 DEF IInv, DownIsQuiet
<1>4. TimersAreDue'
    BY <1>1, <1>2 DEF IInv, TimersAreDue
<1>5. OneAnnouncement'
    BY <1>1, <1>2 DEF IInv, OneAnnouncement
<1> QED BY <1>2, <1>3, <1>4, <1>5 DEF EndInv

LEMMA CrashEnd ==
    ASSUME IInv, Crash
    PROVE  EndInv'
<1>0. TypeOK /\ RowsKept /\ now' = now /\ now \in Nat
    BY Crashing DEF IInv, TypeOK, Crash
<1>1. /\ endTimer' = NoTimer /\ endTimer'.id = NoSync /\ firing' = {} /\ announcing' = {}
      /\ Ended' = Ended
    BY DEF Crash, CancelScheduledEnd, Ended, NoTimer
<1>2. \A q \in Requests : ~ InFlight(q)'
    <2> TAKE q \in Requests
    <2>1. CASE InFlight(q)
        <3>1. req'[q] = [req[q] EXCEPT !.pc = "lost", !.locked = {}, !.todo = {}]
            BY <2>1 DEF Crash
        <3> QED BY <1>0, <3>1 DEF TypeOK, Request, InFlight, Finished
    <2>2. CASE ~ InFlight(q)
        <3>1. req'[q] = req[q]
            BY <2>2 DEF Crash
        <3> QED BY <2>2, <3>1 DEF InFlight
    <2> QED BY <2>1, <2>2
<1>3. DownIsQuiet'
    BY <1>1, <1>2 DEF DownIsQuiet, Quiet, NoTimer, NoSync, Requests
<1>4. TimersAreDue'
    <2>1. \A i \in Ended : i \in DOMAIN rows' /\ rows'[i].endAt <= now'
        BY <1>0 DEF IInv, TimersAreDue, RowsKept
    <2> QED BY <1>1, <2>1 DEF TimersAreDue
<1>5. OneAnnouncement'
    <2>1. \A q \in StartRequests : ~ Awaits(q)'
        BY <1>2 DEF Awaits, InFlight, Finished, Requests
    <2> QED BY <1>1, <2>1, IdsAreRows DEF OneAnnouncement, Awaits
<1>6. EndAnnouncedAtMostOnce'
    BY DEF IInv, EndAnnouncedAtMostOnce, Crash
<1> QED BY <1>3, <1>4, <1>5, <1>6 DEF EndInv

LEMMA RestoreEnd ==
    ASSUME IInv, RestoreSyncTimer \/ RestoreFails
    PROVE  EndInv'
<1>0. /\ TypeOK /\ ~ up /\ now \in Nat /\ firing = {} /\ announcing = {}
      /\ endTimer.id = NoSync /\ Quiet
    BY DEF IInv, DownIsQuiet, RestoreSyncTimer, RestoreFails, NoTimer, TypeOK
<1>1. /\ up' /\ UNCHANGED <<now, rows, req, firing, announcing, published>>
      /\ Ended' = Ended
    BY DEF RestoreSyncTimer, RestoreFails, Ended
<1>2. \A q \in StartRequests : ~ Awaits(q)'
    BY <1>0, <1>1 DEF Quiet, InFlight, Finished, Awaits, Requests
<1>3. CASE endTimer' = endTimer
    BY <1>0, <1>1, <1>2, <1>3, TimersAlone, RowsUnchanged DEF IInv, EndAnnouncedAtMostOnce
<1>4. CASE endTimer' # endTimer
    <2> DEFINE live == LiveSync(now)
    <2>1. live # NoSync /\ endTimer' = [id |-> live, due |-> now + Delay(live)]
        BY <1>4 DEF RestoreSyncTimer, RestoreFails, ScheduleSyncEnd
    <2>2. live \in LiveRows(now)
        BY <1>0, <2>1, LiveSyncIsLive
    <2>3. live \in DOMAIN rows /\ rows[live].endAt > now
        BY <2>2 DEF LiveRows, CommittedIds
    <2>4. rows[live].endAt <= now + Delay(live) /\ rows[live].endAt \in Nat
        BY <1>0, <2>3, DelayIsEnough, RowIds DEF Row
    <2>5. live \notin Ended
        BY <1>0, <2>3, <2>4 DEF IInv, TimersAreDue
    <2> HIDE DEF live
    <2>6. DownIsQuiet' /\ EndAnnouncedAtMostOnce'
        BY <1>1 DEF IInv, DownIsQuiet, EndAnnouncedAtMostOnce
    <2>7. TimersAreDue'
        BY <1>1, <2>1, <2>3, <2>4 DEF IInv, TimersAreDue
    <2>8. OneAnnouncement'
        BY <1>0, <1>1, <1>2, <2>1, <2>5 DEF OneAnnouncement, Awaits
    <2> QED BY <2>6, <2>7, <2>8 DEF EndInv
<1> QED BY <1>3, <1>4

LEMMA TickEnd ==
    ASSUME IInv, Tick
    PROVE  EndInv'
<1>1. /\ UNCHANGED <<up, rows, req, endTimer, firing, announcing, published>>
      /\ now \in Nat /\ now' = now + 1 /\ Ended' = Ended
    BY DEF IInv, TypeOK, Tick, Ended
<1>2. DownIsQuiet' /\ EndAnnouncedAtMostOnce' /\ OneAnnouncement'
    BY <1>1 DEF IInv, DownIsQuiet, Quiet, InFlight, EndAnnouncedAtMostOnce, OneAnnouncement
<1>3. \A i \in DOMAIN rows : rows[i].endAt \in Nat
    BY RowIds DEF IInv, Row
<1>4. TimersAreDue'
    BY <1>1, <1>3 DEF IInv, TimersAreDue
<1> QED BY <1>2, <1>4 DEF EndInv

LEMMA EndStep ==
    ASSUME IInv, [Next]_vars
    PROVE  EndInv'
<1>0. Requests = StartRequests \cup CancelRequests
    BY DEF Requests
<1>1. CASE UNCHANGED vars
    BY <1>1 DEF vars, IInv, EndInv, DownIsQuiet, Quiet, InFlight, TimersAreDue, OneAnnouncement,
                EndAnnouncedAtMostOnce, Ended
<1>2. ASSUME NEW p \in StartRequests, NEW d \in Durations, AcceptStart(p, d)
      PROVE  EndInv'
    BY <1>0, <1>2, ArriveEnd DEF AcceptStart
<1>3. ASSUME NEW p \in StartRequests, RejectStart(p)
      PROVE  EndInv'
    BY <1>0, <1>3, ArriveEnd DEF RejectStart
<1>4. ASSUME NEW p \in CancelRequests, AcceptCancel(p)
      PROVE  EndInv'
    BY <1>0, <1>4, ArriveEnd DEF AcceptCancel
<1>5. ASSUME NEW p \in StartRequests, StartStep(p)
      PROVE  EndInv'
    BY <1>0, <1>5, BeginEnd, InsertEnd, CommitEnd, ScheduleEndStep, PublishEnd DEF StartStep
<1>6. ASSUME NEW p \in CancelRequests, CancelStep(p)
      PROVE  EndInv'
    BY <1>0, <1>6, CancelEnd, PublishEnd DEF CancelStep
<1>7. ASSUME NEW p \in Requests, FailCreate(p) \/ CommitUnanswered(p) \/ FailCancel(p)
      PROVE  EndInv'
    BY <1>7, FailEnd, CommitEnd
<1> QED BY <1>0, <1>1, <1>2, <1>3, <1>4, <1>5, <1>6, <1>7, FireEnd, CheckStep, AnnounceStep,
           CrashEnd, RestoreEnd, TickEnd DEF Next

-----------------------------------------------------------------------------
(* The theorems that hold whatever the operators do.                       *)

LEMMA Initially == Init => IInv
<1> SUFFICES ASSUME Init PROVE IInv
    OBVIOUS
<1>1. rows = <<>> /\ DOMAIN rows = {} /\ published = <<>> /\ DOMAIN published = {}
    BY DEF Init
<1>2. \A p \in Requests : req[p] = NewRequest
    BY DEF Init
<1>3. NewRequest \in Request /\ NewRequest.pc = "idle" /\ NewRequest.at = 0 /\ NewRequest.id = NoSync
    BY DEF NewRequest, Request, NoSync
<1>4. TypeOK
    BY <1>1, <1>2, <1>3 DEF Init, TypeOK, NoTimer, NoSync
<1>5. TableInv
    BY <1>1, <1>2, <1>3 DEF Init, TableInv, HandlersKnow, Knows, IdsAreOwn, TransactionsSupersede,
          Supersedes, SeenIsOver, CommittedIds, StartPC, CancelPC, Requests
<1>6. EndInv
    BY <1>1, <1>2, <1>3 DEF Init, EndInv, DownIsQuiet, TimersAreDue, OneAnnouncement, Ended, NoTimer,
          EndAnnouncedAtMostOnce, Requests
<1> QED BY <1>4, <1>5, <1>6 DEF IInv, TableInv, EndInv

LEMMA Inductive == IInv /\ [Next]_vars => IInv'
    BY TypeStep, TableStep, EndStep DEF IInv, TableInv, EndInv

LEMMA Always == Spec => []IInv
<1> QED BY Initially, Inductive, PTL DEF Spec

\* Every variable keeps its type, and every row of sync_events passes the
\* table's check that a sync ends after it starts.
THEOREM TypesHold == Spec => []TypeOK
<1>1. IInv => TypeOK
    BY DEF IInv
<1> QED BY <1>1, Always, PTL

\* Whatever requests, crashes, restarts and database faults interleave, two
\* overrides are live together only if the transaction that created either one
\* took its snapshot before the other had committed.
THEOREM OnlyRacersLiveTogether == Spec => []LiveTogetherOnlyIfRaced
<1>1. IInv => LiveTogetherOnlyIfRaced
    <2> SUFFICES ASSUME IInv, NEW i \in LiveRows(now), NEW j \in LiveRows(now), i \in rows[j].saw
                 PROVE  FALSE
        BY DEF LiveTogetherOnlyIfRaced
    <2>1. j \in CommittedIds /\ ~ rows[i].cancelled /\ rows[i].endAt > now /\ i \in DOMAIN rows
        BY DEF LiveRows, CommittedIds
    <2>2. rows[i].endAt \in Nat /\ now \in Nat
        BY <2>1, RowIds DEF IInv, TypeOK, Row
    <2>3. Over(i)
        BY <2>1 DEF IInv, SeenIsOver
    <2> QED BY <2>1, <2>2, <2>3 DEF Over
<1> QED BY <1>1, Always, PTL

\* The end of a sync is announced at most once, whichever timers are armed,
\* replaced, fired and armed again after a restart.
THEOREM AnnouncedOnce == Spec => []EndAnnouncedAtMostOnce
<1>1. IInv => EndAnnouncedAtMostOnce
    BY DEF IInv
<1> QED BY <1>1, Always, PTL

\* The end of a sync is never announced before its end_at.
THEOREM NeverTooEarly == Spec => []NeverEndsEarly
<1>1. IInv => NeverEndsEarly
    BY DEF IInv, TimersAreDue, NeverEndsEarly, Ended
<1> QED BY <1>1, Always, PTL

-----------------------------------------------------------------------------
(* Serial operators.                                                       *)

\* With serial operators there is one live override or none.
LEMMA OneLive ==
    ASSUME IInv, SeenInOrder, NEW i \in LiveRows(now), NEW j \in LiveRows(now)
    PROVE  i = j
<1>1. /\ i \in CommittedIds /\ j \in CommittedIds
      /\ i \in Nat /\ j \in Nat
      /\ rows[i].endAt \in Nat /\ rows[j].endAt \in Nat /\ now \in Nat
      /\ ~ rows[i].cancelled /\ ~ rows[j].cancelled
      /\ rows[i].endAt > now /\ rows[j].endAt > now
    BY RowIds DEF IInv, TypeOK, LiveRows, CommittedIds, Row
<1>2. ~ Over(i) /\ ~ Over(j)
    BY <1>1 DEF Over
<1>3. ~ (i < j) /\ ~ (j < i)
    BY <1>1, <1>2 DEF IInv, SeenIsOver, SeenInOrder
<1> QED BY <1>1, <1>3

\* Nothing but a commit adds to what is live.
LEMMA LiveShrinks ==
    ASSUME IInv, RowsKept, CommittedIds' = CommittedIds, now' \in Nat, now <= now'
    PROVE  LiveRows(now)' \subseteq LiveRows(now)
<1> SUFFICES ASSUME NEW i \in LiveRows(now)' PROVE i \in LiveRows(now)
    OBVIOUS
<1>1. i \in CommittedIds /\ i \in DOMAIN rows
    BY DEF LiveRows, CommittedIds
<1>2. rows[i].endAt \in Nat /\ now \in Nat
    BY <1>1, RowIds DEF IInv, TypeOK, Row
<1>3. ~ rows'[i].cancelled /\ rows'[i].endAt > now'
    BY DEF LiveRows
<1>4. ~ rows[i].cancelled /\ rows[i].endAt > now
    BY <1>1, <1>2, <1>3 DEF RowsKept
<1> QED BY <1>1, <1>4 DEF LiveRows

\* What one handler's step must show when the timer is left alone.
LEMMA SerialMove ==
    ASSUME IInv, SerialInv, env.serial, RowsKept, CommittedIds' = CommittedIds,
           UNCHANGED <<now, env, up, endTimer, endSyncID>>,
           NEW p \in Requests,
           \A q \in Requests : q # p => req'[q] = req[q] /\ ~ InFlight(q),
           req[p].pc \notin {"failed", "schedule"},
           req'[p].pc # "schedule",
           req'[p].pc \in {"supersede", "commit"} => req'[p].saw = CommittedIds,
           req'[p].pc = "commit" => \A i \in CommittedIds : i <= req'[p].id,
           req'[p].pc = "update" => LiveRows(now) \subseteq {req'[p].id},
           req'[p].pc = "unschedule" => LiveRows(now)' = {}
    PROVE  SerialInv'
<1>0. now \in Nat /\ now' \in Nat /\ now <= now'
    BY DEF IInv, TypeOK
<1>1. OneAtATime'
    BY DEF OneAtATime, InFlight, Requests
<1>2. SeenInOrder'
    <2>1. \A i, j \in CommittedIds : i < j => i \in rows'[j].saw
        BY DEF SerialInv, SeenInOrder, RowsKept, CommittedIds
    <2>2. \A q \in Requests :
              /\ req'[q].pc \in {"supersede", "commit"} => req'[q].saw = CommittedIds
              /\ req'[q].pc \in {"commit", "schedule"} => \A i \in CommittedIds : i <= req'[q].id
        BY DEF InFlight, Finished
    <2> QED BY <2>1, <2>2 DEF SeenInOrder, Requests
<1>3. LiveRows(now)' \subseteq LiveRows(now)
    BY <1>0, LiveShrinks
<1>4. CancelsTheLiveOne'
    BY <1>3 DEF CancelsTheLiveOne, InFlight, Finished, Requests
<1>5. LiveIsArmed'
    <2> SUFFICES ASSUME up, NoneFailed', "boot" \notin env.faults, NEW i \in LiveRows(now)'
                 PROVE  Armed(i)' \/ \E q \in Requests : req'[q].pc = "schedule" /\ req'[q].id = i
        BY DEF LiveIsArmed, Requests
    <2>1. NoneFailed
        BY DEF NoneFailed, Requests
    <2>2. i \in LiveRows(now) /\ i \in DOMAIN rows
        BY <1>3 DEF LiveRows, CommittedIds
    <2>3. Armed(i) \/ \E q \in Requests : req[q].pc = "schedule" /\ req[q].id = i
        BY <2>1, <2>2 DEF SerialInv, LiveIsArmed
    <2>4. Armed(i)
        BY <2>3 DEF InFlight, Finished
    <2> QED BY <2>2, <2>4 DEF Armed, RowsKept
<1> QED BY <1>1, <1>2, <1>4, <1>5 DEF SerialInv

LEMMA Alone ==
    ASSUME IInv, SerialInv, env.serial, NEW p \in Requests, InFlight(p)
    PROVE  \A q \in Requests : q # p => ~ InFlight(q)
    BY DEF SerialInv, OneAtATime

LEMMA ArriveSerial ==
    ASSUME IInv, SerialInv, env.serial, NEW p \in Requests, NEW pc \in {"begin", "select", "done"},
           NEW e, Arrive(p, pc, e)
    PROVE  SerialInv'
<1>0. TypeOK /\ req[p] \in Request
    BY DEF IInv, TypeOK
<1>1. /\ \A q \in Requests : q # p => req'[q] = req[q] /\ ~ InFlight(q)
      /\ req'[p] = [req[p] EXCEPT !.pc = pc, !.at = now, !.endAt = e]
      /\ req[p].pc = "idle"
    BY <1>0 DEF Arrive, TypeOK, Quiet
<1>2. req'[p].pc = pc
    BY <1>0, <1>1 DEF Request
<1>3. RowsKept /\ CommittedIds' = CommittedIds /\ UNCHANGED <<now, env, up, endTimer, endSyncID>>
    BY RowsUnchanged DEF Arrive
<1> QED BY <1>1, <1>2, <1>3, SerialMove

LEMMA GotoSerial ==
    ASSUME IInv, SerialInv, env.serial, NEW p \in Requests, NEW pc \in {"done", "failed"},
           Goto(p, pc), InFlight(p), req[p].pc # "schedule",
           UNCHANGED <<rows, now, env, up, endTimer, endSyncID>>
    PROVE  SerialInv'
<1>1. /\ \A q \in Requests : q # p => req'[q] = req[q] /\ ~ InFlight(q)
      /\ req'[p].pc = pc
    BY GotoEffect, Alone DEF InFlight
<1>2. RowsKept /\ CommittedIds' = CommittedIds
    BY RowsUnchanged
<1> QED BY <1>1, <1>2, SerialMove DEF InFlight, Finished

LEMMA BeginSerial ==
    ASSUME IInv, SerialInv, env.serial, NEW p \in Requests, BeginCreate(p) \/ SupersedeRow(p)
    PROVE  SerialInv'
<1>0. TypeOK /\ req[p] \in Request /\ InFlight(p) /\ req[p].pc \in {"begin", "supersede"}
    BY DEF IInv, TypeOK, InFlight, Finished, BeginCreate, SupersedeRow
<1>1. /\ \A q \in Requests : q # p => req'[q] = req[q] /\ ~ InFlight(q)
      /\ req'[p].pc = "supersede"
      /\ req'[p].saw = CommittedIds
    <2>1. CASE BeginCreate(p)
        <3>1. req'[p] = [req[p] EXCEPT !.pc = "supersede", !.todo = LiveRows(req[p].at),
                                       !.saw = CommittedIds]
            BY <1>0, <2>1 DEF BeginCreate, TypeOK
        <3>2. \A q \in Requests : q # p => req'[q] = req[q]
            BY <1>0, <2>1 DEF BeginCreate, TypeOK
        <3> QED BY <1>0, <3>1, <3>2, Alone DEF Request
    <2>2. CASE SupersedeRow(p)
        <3>1. req[p].saw = CommittedIds /\ req[p].pc = "supersede"
            BY <2>2 DEF SerialInv, SeenInOrder, SupersedeRow
        <3>2. req'[p].pc = req[p].pc /\ req'[p].saw = req[p].saw
            BY <1>0, <2>2 DEF SupersedeRow, TypeOK, Request
        <3>3. \A q \in Requests : q # p => req'[q] = req[q]
            BY <1>0, <2>2 DEF SupersedeRow, TypeOK
        <3> QED BY <1>0, <3>1, <3>2, <3>3, Alone
    <2> QED BY <2>1, <2>2
<1>2. UNCHANGED <<rows, now, env, up, endTimer, endSyncID>>
    BY DEF BeginCreate, SupersedeRow
<1>3. RowsKept /\ CommittedIds' = CommittedIds
    BY <1>2, RowsUnchanged
<1> QED BY <1>0, <1>1, <1>2, <1>3, SerialMove

LEMMA InsertSerial ==
    ASSUME IInv, SerialInv, env.serial, NEW p \in Requests, InsertRow(p)
    PROVE  SerialInv'
<1>0. TypeOK /\ req[p] \in Request /\ InFlight(p) /\ req[p].pc = "supersede"
    BY DEF IInv, TypeOK, InFlight, Finished, InsertRow
<1> DEFINE new == Len(rows) + 1
<1>1. /\ \A q \in Requests : q # p => req'[q] = req[q]
      /\ req'[p] = [req[p] EXCEPT !.pc = "commit", !.id = new]
    BY <1>0 DEF InsertRow, TypeOK
<1>2. \A i \in CommittedIds : i <= new
    BY <1>0, RowIds DEF CommittedIds
<1>3. RowsKept /\ CommittedIds' = CommittedIds
    BY <1>0, Inserting DEF CommittedIds
<1> HIDE DEF new
<1>4. req'[p].pc = "commit" /\ req'[p].id = new /\ req'[p].saw = req[p].saw
    BY <1>0, <1>1 DEF Request
<1>5. req[p].saw = CommittedIds
    BY <1>0 DEF SerialInv, SeenInOrder
<1>6. UNCHANGED <<now, env, up, endTimer, endSyncID>>
    BY DEF InsertRow
<1>7. \A q \in Requests : q # p => ~ InFlight(q)
    BY <1>0, Alone
<1> QED BY <1>0, <1>1, <1>2, <1>3, <1>4, <1>5, <1>6, <1>7, SerialMove

LEMMA FailSerial ==
    ASSUME IInv, SerialInv, env.serial, NEW p \in StartRequests, FailCreate(p)
    PROVE  SerialInv'
<1>0. TypeOK /\ p \in Requests /\ req[p] \in Request /\ InFlight(p) /\ req[p].pc # "schedule"
    BY DEF IInv, TypeOK, InFlight, Finished, FailCreate, Requests
<1>1. /\ \A q \in Requests : q # p => req'[q] = req[q]
      /\ req'[p] = [req[p] EXCEPT !.pc = "failed", !.locked = {}, !.todo = {}]
    BY <1>0 DEF TypeOK, FailCreate
<1>2. req'[p].pc = "failed"
    BY <1>0, <1>1 DEF Request
<1>3. /\ RowsKept
      /\ DOMAIN rows' = DOMAIN rows
      /\ \A i \in DOMAIN rows : i # req[p].id => rows'[i] = rows[i]
      /\ req[p].id \in DOMAIN rows => rows'[req[p].id].state = "rolledback"
    BY <1>0, FailingCreate
<1>4. CommittedIds' = CommittedIds
    BY <1>3 DEF CommittedIds, RowsKept
<1>5. UNCHANGED <<now, env, up, endTimer, endSyncID>>
    BY DEF FailCreate
<1>6. \A q \in Requests : q # p => ~ InFlight(q)
    BY <1>0, Alone
<1> QED BY <1>0, <1>1, <1>2, <1>3, <1>4, <1>5, <1>6, SerialMove DEF InFlight, Finished

LEMMA CommitSerial ==
    ASSUME IInv, IInv', SerialInv, env.serial, NEW p \in StartRequests,
           CommitCreate(p) \/ CommitUnanswered(p)
    PROVE  SerialInv'
<1>0. /\ TypeOK /\ p \in Requests /\ req[p] \in Request /\ Knows(p) /\ Supersedes(p)
      /\ req[p].pc = "commit" /\ CommitRows(p)
      /\ UNCHANGED <<env, now, up, endTimer, endSyncID>>
    BY DEF IInv, HandlersKnow, TypeOK, Requests, TransactionsSupersede, CommitCreate, CommitUnanswered
<1>1. PICK pc \in {"schedule", "failed"} :
          req' = [req EXCEPT ![p] = [@ EXCEPT !.pc = pc, !.locked = {}]]
    BY DEF CommitCreate, CommitUnanswered
<1>2. /\ \A q \in Requests : q # p => req'[q] = req[q] /\ ~ InFlight(q)
      /\ req'[p] = [req[p] EXCEPT !.pc = pc, !.locked = {}]
    BY <1>0, <1>1, Alone DEF TypeOK, InFlight, Finished
<1>3. req'[p].pc = pc /\ req'[p].id = req[p].id
    BY <1>0, <1>2 DEF Request
<1>4. /\ RowsKept
      /\ DOMAIN rows' = DOMAIN rows
      /\ \A i \in DOMAIN rows : i # req[p].id => rows'[i].state = rows[i].state
      /\ rows'[req[p].id].state = "committed"
    BY <1>0, Committing
<1>5. CommittedIds' = CommittedIds \cup {req[p].id}
    BY <1>0, <1>4 DEF Supersedes, CommittedIds
<1>6. /\ req[p].saw = CommittedIds
      /\ rows'[req[p].id].saw = CommittedIds
      /\ \A i \in CommittedIds : i <= req[p].id
    BY <1>0, <1>4 DEF SerialInv, SeenInOrder, Supersedes, RowsKept
<1>7. OneAtATime'
    BY <1>2 DEF OneAtATime, InFlight, Requests
<1>8. SeenInOrder'
    <2>1. CommittedIds \subseteq Nat /\ req[p].id \in Nat
        BY <1>0, RowIds DEF CommittedIds, Request
    <2>2. ASSUME NEW i \in CommittedIds', NEW j \in CommittedIds', i < j
          PROVE  i \in rows'[j].saw
        <3>1. CASE i \in CommittedIds /\ j \in CommittedIds
            BY <1>4, <2>2, <3>1 DEF SerialInv, SeenInOrder, RowsKept, CommittedIds
        <3>2. CASE i \in CommittedIds /\ j = req[p].id
            BY <1>6, <3>2
        <3>3. i # req[p].id
            BY <1>5, <1>6, <2>1, <2>2
        <3> QED BY <1>5, <3>1, <3>2, <3>3
    <2>3. ASSUME NEW q \in Requests, req'[q].pc \in {"supersede", "commit", "schedule"}
          PROVE  q = p
        BY <1>2, <2>3 DEF InFlight, Finished
    <2>4. \A i \in CommittedIds' : i <= req[p].id
        BY <1>5, <1>6, <2>1
    <2> QED BY <1>3, <2>2, <2>3, <2>4 DEF SeenInOrder, Requests
<1>9. CancelsTheLiveOne'
    BY <1>2, <1>3 DEF CancelsTheLiveOne, InFlight, Finished, Requests
<1>10. LiveIsArmed'
    <2> SUFFICES ASSUME NoneFailed', NEW i \in LiveRows(now)'
                 PROVE  \E q \in Requests : req'[q].pc = "schedule" /\ req'[q].id = i
        BY DEF LiveIsArmed, Requests
    <2>1. req'[p].pc = "schedule"
        BY <1>0, <1>3 DEF NoneFailed, Requests
    <2>2. req[p].id \in CommittedIds' /\ i \in CommittedIds'
        BY <1>5 DEF LiveRows
    <2>3. ~ Over(i)'
        <3>1. i \in DOMAIN rows /\ now' \in Nat
            BY <1>0, <1>4, <2>2 DEF TypeOK, CommittedIds
        <3>2. rows'[i].endAt \in Nat
            BY <1>0, <1>4, <3>1, RowIds DEF Row, RowsKept
        <3> QED BY <3>1, <3>2 DEF Over, LiveRows
    <2>4. i \notin CommittedIds
        BY <1>6, <2>2, <2>3 DEF IInv, SeenIsOver
    <2> QED BY <1>0, <1>3, <1>5, <2>1, <2>2, <2>4
<1> QED BY <1>7, <1>8, <1>9, <1>10 DEF SerialInv

LEMMA ScheduleEndSerial ==
    ASSUME IInv, SerialInv, env.serial, NEW p \in StartRequests, ScheduleEnd(p)
    PROVE  SerialInv'
<1>0. TypeOK /\ p \in Requests /\ Knows(p) /\ InFlight(p) /\ req[p].pc = "schedule"
    BY DEF IInv, HandlersKnow, Requests, ScheduleEnd, InFlight, Finished
<1>1. /\ \A q \in Requests : q # p => req'[q] = req[q] /\ ~ InFlight(q)
      /\ req'[p].pc = "publishStarted"
    BY <1>0, GotoEffect, Alone DEF ScheduleEnd, Finished
<1>2. UNCHANGED <<env, now, up, rows>> /\ CommittedIds' = CommittedIds /\ LiveRows(now)' = LiveRows(now)
    BY DEF ScheduleEnd, CommittedIds, LiveRows
<1>3. req[p].id \in CommittedIds /\ \A i \in CommittedIds : i <= req[p].id
    BY <1>0 DEF Knows, SerialInv, SeenInOrder
<1>4. \A i \in LiveRows(now) : i = req[p].id /\ Armed(i)'
    <2> TAKE i \in LiveRows(now)
    <2>1. i \in CommittedIds /\ i \in DOMAIN rows /\ now < rows[i].endAt /\ ~ rows[i].cancelled
        BY RowIds DEF IInv, TypeOK, Row, LiveRows, CommittedIds
    <2>2. i \in Nat /\ req[p].id \in Nat /\ rows[i].endAt \in Nat /\ now \in Nat
        BY <1>0, <1>3, <2>1, RowIds DEF CommittedIds, Row, TypeOK
    <2>3. i \notin rows[req[p].id].saw
        BY <1>3, <2>1, <2>2 DEF IInv, SeenIsOver, Over
    <2>4. ~ (i < req[p].id)
        BY <1>3, <2>1, <2>3 DEF SerialInv, SeenInOrder
    <2>5. i = req[p].id
        BY <1>3, <2>1, <2>2, <2>4
    <2>6. now + Delay(i) = rows[i].endAt
        BY <1>0, <2>1, DelayIsEnough
    <2>7. endTimer' = [id |-> i, due |-> now + Delay(i)] /\ endSyncID' = i
        BY <2>5 DEF ScheduleEnd, ScheduleSyncEnd
    <2> QED BY <1>2, <2>5, <2>6, <2>7 DEF Armed
<1>5. OneAtATime'
    BY <1>1 DEF OneAtATime, InFlight, Requests
<1>6. SeenInOrder'
    BY <1>1, <1>2 DEF SerialInv, SeenInOrder, InFlight, Finished, Requests
<1>7. CancelsTheLiveOne'
    BY <1>1 DEF CancelsTheLiveOne, InFlight, Finished, Requests
<1>8. LiveIsArmed'
    BY <1>2, <1>4 DEF LiveIsArmed
<1> QED BY <1>5, <1>6, <1>7, <1>8 DEF SerialInv

LEMMA CancelSerial ==
    ASSUME IInv, SerialInv, env.serial, NEW p \in CancelRequests, CancelStep(p)
    PROVE  SerialInv'
<1>0. TypeOK /\ p \in Requests /\ req[p] \in Request /\ Knows(p) /\ SeenInOrder
    BY DEF IInv, HandlersKnow, TypeOK, Requests, SerialInv
<1>1. CASE CancelSelect(p)
    <2> DEFINE live == LiveSync(req[p].at)
               next == IF live = NoSync THEN "done" ELSE "update"
    <2>1. req[p].at \in Nat /\ now \in Nat /\ req[p].at <= now
        BY <1>0 DEF Request, TypeOK, Knows
    <2>2. ASSUME next = "update", NEW i \in LiveRows(now)
          PROVE  i = live
        <3>1. live \in LiveRows(req[p].at) /\ live \in CommittedIds
            BY <1>0, <2>1, <2>2, LiveSyncIsLive DEF LiveRows
        <3>2. i \in CommittedIds /\ i \in DOMAIN rows /\ ~ rows[i].cancelled /\ rows[i].endAt > now
            BY DEF LiveRows, CommittedIds
        <3>3. rows[i].endAt \in Nat
            BY <1>0, <3>2, RowIds DEF Row
        <3>4. i \in LiveRows(req[p].at) /\ ~ Over(i)
            BY <2>1, <3>2, <3>3 DEF LiveRows, Over
        <3>5. i <= live
            BY <1>0, <2>1, <3>4, LiveSyncIsLive
        <3>6. i \notin rows[live].saw
            BY <3>1, <3>4 DEF IInv, SeenIsOver
        <3>7. ~ (i < live)
            BY <1>0, <3>1, <3>2, <3>6 DEF SeenInOrder
        <3>8. i \in Nat /\ live \in Nat
            BY <1>0, <3>1, <3>2, RowIds DEF CommittedIds
        <3> QED BY <3>5, <3>7, <3>8
    <2>3. req' = [req EXCEPT ![p] = [@ EXCEPT !.id = live, !.pc = next]]
        BY <1>1 DEF CancelSelect
    <2>4. next \in {"done", "update"}
        OBVIOUS
    <2> HIDE DEF live, next
    <2>5. /\ \A q \in Requests : q # p => req'[q] = req[q]
          /\ req'[p] = [req[p] EXCEPT !.id = live, !.pc = next]
        BY <1>0, <2>3 DEF TypeOK
    <2>6. req'[p].pc = next /\ req'[p].id = live
        BY <1>0, <2>5 DEF Request
    <2>7. req[p].pc = "select" /\ InFlight(p) /\ UNCHANGED <<rows, now, env, up, endTimer, endSyncID>>
        BY <1>1 DEF CancelSelect, InFlight, Finished
    <2>8. RowsKept /\ CommittedIds' = CommittedIds
        BY <2>7, RowsUnchanged
    <2>9. \A q \in Requests : q # p => ~ InFlight(q)
        BY <1>0, <2>7, Alone
    <2> QED BY <1>0, <2>2, <2>4, <2>5, <2>6, <2>7, <2>8, <2>9, SerialMove
<1>2. CASE CancelUpdate(p)
    <2>1. req[p].pc = "update" /\ InFlight(p) /\ UNCHANGED <<now, env, up, endTimer, endSyncID>>
        BY <1>2 DEF CancelUpdate, InFlight, Finished
    <2>2. \A q \in Requests : q # p => req'[q] = req[q] /\ ~ InFlight(q)
        BY <1>0, <1>2, <2>1, GotoEffect, Alone DEF CancelUpdate, Finished
    <2>3. req'[p].pc = "unschedule"
        BY <1>0, <1>2, GotoEffect DEF CancelUpdate, Finished
    <2>4. /\ RowsKept /\ CommittedIds' = CommittedIds
          /\ req[p].id \in DOMAIN rows => rows'[req[p].id].cancelled
        BY <1>0, <1>2, Cancelling
    <2>5. LiveRows(now)' = {}
        <3>1. LiveRows(now) \subseteq {req[p].id}
            BY <1>0, <2>1 DEF SerialInv, CancelsTheLiveOne
        <3>2. LiveRows(now)' \subseteq LiveRows(now)
            BY <1>0, <2>1, <2>4, LiveShrinks DEF TypeOK
        <3>3. req[p].id \notin LiveRows(now)'
            BY <1>0, <2>1, <2>4 DEF LiveRows, Knows, CommittedIds
        <3> QED BY <3>1, <3>2, <3>3
    <2> QED BY <1>0, <2>1, <2>2, <2>3, <2>4, <2>5, SerialMove
<1>3. CASE Unschedule(p)
    <2>1. req[p].pc = "unschedule" /\ InFlight(p) /\ UNCHANGED <<now, env, up, rows>>
        BY <1>3 DEF Unschedule, InFlight, Finished
    <2>2. \A q \in Requests : q # p => req'[q] = req[q] /\ ~ InFlight(q)
        BY <1>0, <1>3, <2>1, GotoEffect, Alone DEF Unschedule, Finished
    <2>3. req'[p].pc = "publishCancelled"
        BY <1>0, <1>3, GotoEffect DEF Unschedule, Finished
    <2>4. CommittedIds' = CommittedIds /\ LiveRows(now)' = LiveRows(now) /\ LiveRows(now) = {}
        BY <1>0, <2>1 DEF CommittedIds, LiveRows, SerialInv, CancelsTheLiveOne
    <2>5. OneAtATime' /\ CancelsTheLiveOne' /\ LiveIsArmed'
        BY <2>2, <2>3, <2>4 DEF OneAtATime, CancelsTheLiveOne, LiveIsArmed, InFlight, Finished, Requests
    <2>6. SeenInOrder'
        BY <2>1, <2>2, <2>3, <2>4 DEF SerialInv, SeenInOrder, InFlight, Finished, Requests
    <2> QED BY <2>5, <2>6 DEF SerialInv
<1>4. CASE PublishCancelled(p)
    BY <1>0, <1>4, GotoSerial DEF PublishCancelled, InFlight, Finished
<1> QED BY <1>1, <1>2, <1>3, <1>4 DEF CancelStep

\* The handlers and the table stand still: what is left is the timer.
LEMMA SerialStill ==
    ASSUME IInv, SerialInv, env.serial, UNCHANGED <<env, rows, req>>, now' \in Nat, now <= now',
           up' /\ NoneFailed /\ "boot" \notin env.faults =>
               \A i \in LiveRows(now)' :
                   Armed(i)' \/ \E p \in Requests : req[p].pc = "schedule" /\ req[p].id = i
    PROVE  SerialInv'
<1>1. RowsKept /\ CommittedIds' = CommittedIds
    BY RowsUnchanged
<1>2. LiveRows(now)' \subseteq LiveRows(now)
    BY <1>1, LiveShrinks
<1>3. OneAtATime' /\ SeenInOrder'
    BY <1>1 DEF SerialInv, OneAtATime, SeenInOrder, InFlight
<1>4. CancelsTheLiveOne'
    BY <1>2 DEF SerialInv, CancelsTheLiveOne
<1>5. LiveIsArmed'
    BY DEF LiveIsArmed, NoneFailed, Requests
<1> QED BY <1>3, <1>4, <1>5 DEF SerialInv

LEMMA TimerSerial ==
    ASSUME IInv, SerialInv, env.serial,
           \/ FireTimer
           \/ \E i \in firing : CheckEnd(i)
           \/ \E i \in announcing : AnnounceEnd(i)
           \/ RestoreSyncTimer
           \/ RestoreFails
           \/ Tick
           \/ UNCHANGED vars
    PROVE  SerialInv'
<1>0. TypeOK /\ now \in Nat /\ SeenInOrder /\ LiveIsArmed
    BY DEF IInv, TypeOK, SerialInv
<1>1. UNCHANGED <<env, rows, req>> /\ now' \in Nat /\ now <= now'
    BY <1>0 DEF FireTimer, CheckEnd, AnnounceEnd, RestoreSyncTimer, RestoreFails, Tick, vars
<1>2. LiveRows(now)' \subseteq LiveRows(now)
    BY <1>1, RowsUnchanged, LiveShrinks
<1>3. CASE FireTimer
    <2>1. endTimer.due <= now /\ now' = now /\ up' = up
        BY <1>0, <1>3 DEF FireTimer, TypeOK
    <2>2. \A i \in LiveRows(now) : ~ Armed(i)
        <3> TAKE i \in LiveRows(now)
        <3>1. rows[i].endAt \in Nat /\ rows[i].endAt > now
            BY <1>0, RowIds DEF LiveRows, CommittedIds, Row
        <3> QED BY <1>0, <2>1, <3>1 DEF Armed
    <2> QED BY <1>0, <1>1, <1>2, <2>1, <2>2, SerialStill DEF LiveIsArmed
<1>4. CASE \/ \E i \in firing : CheckEnd(i)
           \/ \E i \in announcing : AnnounceEnd(i)
           \/ Tick
           \/ UNCHANGED vars
    <2>1. UNCHANGED <<up, endTimer, endSyncID>>
        BY <1>4 DEF CheckEnd, AnnounceEnd, Tick, vars
    <2>2. \A i : Armed(i) => Armed(i)'
        BY <1>1, <2>1 DEF Armed
    <2> QED BY <1>0, <1>1, <1>2, <2>1, <2>2, SerialStill DEF LiveIsArmed
<1>5. CASE RestoreSyncTimer
    <2>1. ASSUME NEW i \in LiveRows(now)'
          PROVE  Armed(i)'
        <3>1. i \in LiveRows(now)
            BY <1>2
        <3>2. LiveSync(now) \in LiveRows(now) /\ LiveSync(now) # NoSync
            BY <1>0, <3>1, LiveSyncIsLive
        <3>3. LiveSync(now) = i
            BY <1>0, <3>1, <3>2, OneLive
        <3>4. endTimer' = [id |-> i, due |-> now + Delay(i)] /\ endSyncID' = i
            BY <1>5, <3>2, <3>3 DEF RestoreSyncTimer, ScheduleSyncEnd
        <3>5. i \in DOMAIN rows /\ now < rows[i].endAt
            BY <1>0, <3>1, RowIds DEF LiveRows, CommittedIds, Row
        <3>6. now + Delay(i) = rows[i].endAt
            BY <1>0, <3>5, DelayIsEnough
        <3> QED BY <1>1, <3>4, <3>6 DEF Armed
    <2> QED BY <1>1, <2>1, SerialStill
<1>6. CASE RestoreFails
    BY <1>1, <1>6, SerialStill DEF RestoreFails
<1> QED BY <1>3, <1>4, <1>5, <1>6

LEMMA CrashSerial ==
    ASSUME IInv, SerialInv, env.serial, Crash
    PROVE  SerialInv'
<1>0. TypeOK /\ ~ up'
    BY DEF IInv, Crash
<1>1. RowsKept /\ CommittedIds' = CommittedIds
    BY <1>0, Crashing
<1>2. \A q \in Requests : ~ InFlight(q)'
    <2> TAKE q \in Requests
    <2>1. CASE InFlight(q)
        <3>1. req'[q] = [req[q] EXCEPT !.pc = "lost", !.locked = {}, !.todo = {}]
            BY <2>1 DEF Crash
        <3> QED BY <1>0, <3>1 DEF TypeOK, Request, InFlight, Finished
    <2>2. CASE ~ InFlight(q)
        <3>1. req'[q] = req[q]
            BY <2>2 DEF Crash
        <3> QED BY <2>2, <3>1 DEF InFlight
    <2> QED BY <2>1, <2>2
<1>3. OneAtATime' /\ CancelsTheLiveOne' /\ LiveIsArmed'
    BY <1>0, <1>2 DEF OneAtATime, CancelsTheLiveOne, LiveIsArmed, InFlight, Finished, Requests
<1>4. SeenInOrder'
    <2>1. \A i, j \in CommittedIds : i < j => i \in rows'[j].saw
        BY <1>1 DEF SerialInv, SeenInOrder, RowsKept, CommittedIds
    <2> QED BY <1>1, <1>2, <2>1 DEF SeenInOrder, InFlight, Finished, Requests
<1> QED BY <1>3, <1>4 DEF SerialInv

LEMMA EnvKept == [Next]_vars => env' = env
    BY DEF vars, Next, AcceptStart, RejectStart, Arrive, StartStep, BeginCreate, SupersedeRow,
           InsertRow, CommitCreate, ScheduleEnd, PublishStarted, FailCreate, CommitUnanswered,
           AcceptCancel, CancelStep, CancelSelect, CancelUpdate, Unschedule, PublishCancelled,
           FailCancel, FireTimer, CheckEnd, AnnounceEnd, Crash, RestoreSyncTimer, RestoreFails, Tick

LEMMA SerialStep ==
    ASSUME IInv, IInv', SerialInv, env.serial, [Next]_vars
    PROVE  SerialInv'
<1>0. Requests = StartRequests \cup CancelRequests
    BY DEF Requests
<1>1. ASSUME NEW p \in StartRequests, NEW d \in Durations, AcceptStart(p, d)
      PROVE  SerialInv'
    BY <1>0, <1>1, ArriveSerial DEF AcceptStart
<1>2. ASSUME NEW p \in StartRequests, RejectStart(p)
      PROVE  SerialInv'
    BY <1>0, <1>2, ArriveSerial DEF RejectStart
<1>3. ASSUME NEW p \in CancelRequests, AcceptCancel(p)
      PROVE  SerialInv'
    BY <1>0, <1>3, ArriveSerial DEF AcceptCancel
<1>4. ASSUME NEW p \in StartRequests, StartStep(p)
      PROVE  SerialInv'
    <2>1. CASE PublishStarted(p)
        BY <1>0, <2>1, GotoSerial DEF PublishStarted, InFlight, Finished
    <2> QED BY <1>0, <1>4, <2>1, BeginSerial, InsertSerial, CommitSerial, ScheduleEndSerial
            DEF StartStep
<1>5. ASSUME NEW p \in StartRequests, FailCreate(p) \/ CommitUnanswered(p)
      PROVE  SerialInv'
    BY <1>5, FailSerial, CommitSerial
<1>6. ASSUME NEW p \in CancelRequests, FailCancel(p)
      PROVE  SerialInv'
    BY <1>0, <1>6, GotoSerial DEF FailCancel, InFlight, Finished
<1> QED BY <1>1, <1>2, <1>3, <1>4, <1>5, <1>6, CancelSerial, CrashSerial, TimerSerial DEF Next

LEMMA SerialInitially == Init => SerialInv
    BY DEF Init, SerialInv, OneAtATime, SeenInOrder, CancelsTheLiveOne, LiveIsArmed, LiveRows,
           CommittedIds, InFlight, NewRequest

LEMMA SerialInductive == IInv /\ IInv' /\ SerialInv /\ [Next]_vars => SerialInv'
<1> SUFFICES ASSUME IInv, IInv', SerialInv, [Next]_vars PROVE SerialInv'
    OBVIOUS
<1>1. CASE env.serial
    BY <1>1, SerialStep
<1>2. CASE ~ env.serial
    BY <1>2, EnvKept DEF SerialInv
<1> QED BY <1>1, <1>2

LEMMA SerialAlways == Spec => []SerialInv
<1> QED BY Always, SerialInitially, SerialInductive, PTL DEF Spec

\* With serial operators, whenever none is being served, a live override has its
\* end announcement armed for the right instant: crashes at any point and
\* restarts included, unless a request or a boot was told of a database error.
THEOREM TimersFollowLive == Spec => []TimerFollowsLive
<1>1. IInv /\ SerialInv => TimerFollowsLive
    <2> SUFFICES ASSUME IInv, SerialInv, env.serial, "boot" \notin env.faults, up, Quiet, NoneFailed,
                        LiveSync(now) # NoSync
                 PROVE  Armed(LiveSync(now))
        BY DEF TimerFollowsLive, Armed
    <2>1. LiveSync(now) \in LiveRows(now)
        BY LiveSyncIsLive DEF IInv, TypeOK
    <2>2. \A p \in Requests : req[p].pc # "schedule"
        BY DEF Quiet, InFlight, Finished
    <2> QED BY <2>1, <2>2 DEF SerialInv, LiveIsArmed
<1> QED BY <1>1, Always, SerialAlways, PTL

-----------------------------------------------------------------------------
(* The override of the abstract specification.                             *)

Commits(p) == CommitCreate(p) \/ CommitUnanswered(p)

\* Only a commit adds to what has committed.
LEMMA NothingCommits ==
    ASSUME IInv, [Next]_vars, \A p \in StartRequests : ~ Commits(p)
    PROVE  RowsKept /\ CommittedIds' = CommittedIds /\ now' \in Nat /\ now <= now'
<1>0. TypeOK /\ now \in Nat /\ Requests = StartRequests \cup CancelRequests
    BY DEF IInv, TypeOK, Requests
<1>1. CASE UNCHANGED <<rows, now>>
    BY <1>0, <1>1, RowsUnchanged
<1>2. CASE Tick
    BY <1>0, <1>2, RowsUnchanged DEF Tick
<1>3. CASE Crash
    <2>1. now' = now
        BY <1>3 DEF Crash
    <2>2. RowsKept /\ CommittedIds' = CommittedIds
        BY <1>0, <1>3, Crashing
    <2> QED BY <1>0, <2>1, <2>2
<1>4. ASSUME NEW p \in CancelRequests, CancelUpdate(p)
      PROVE  RowsKept /\ CommittedIds' = CommittedIds /\ now' = now
    BY <1>0, <1>4, Cancelling DEF CancelUpdate
<1>5. ASSUME NEW p \in StartRequests, FailCreate(p)
      PROVE  RowsKept /\ CommittedIds' = CommittedIds /\ now' = now
    <2>1. /\ RowsKept
          /\ DOMAIN rows' = DOMAIN rows
          /\ \A i \in DOMAIN rows : i # req[p].id => rows'[i] = rows[i]
          /\ req[p].id \in DOMAIN rows => rows'[req[p].id].state = "rolledback"
        BY <1>0, <1>5, FailingCreate
    <2>2. CommittedIds' = CommittedIds
        BY <2>1 DEF CommittedIds, RowsKept
    <2> QED BY <1>5, <2>1, <2>2 DEF FailCreate
<1>6. ASSUME NEW p \in StartRequests, InsertRow(p)
      PROVE  RowsKept /\ CommittedIds' = CommittedIds /\ now' = now
    BY <1>0, <1>6, Inserting DEF InsertRow, CommittedIds
<1>7. \/ UNCHANGED <<rows, now>>
      \/ Tick
      \/ Crash
      \/ \E p \in CancelRequests : CancelUpdate(p)
      \/ \E p \in StartRequests : FailCreate(p) \/ InsertRow(p)
    BY DEF vars, Next, AcceptStart, RejectStart, Arrive, StartStep, BeginCreate, SupersedeRow,
           ScheduleEnd, PublishStarted, Commits, AcceptCancel, CancelStep, CancelSelect,
           Unschedule, PublishCancelled, FailCancel, FireTimer, CheckEnd, AnnounceEnd,
           RestoreSyncTimer, RestoreFails
<1> QED BY <1>0, <1>1, <1>2, <1>3, <1>4, <1>5, <1>6, <1>7

LEMMA OnlyCommits ==
    ASSUME IInv, SerialInv, env.serial, NEW p \in StartRequests, Commits(p)
    PROVE  /\ req[p].id \in Nat \ {NoSync}
           /\ req[p].id \notin CommittedIds
           /\ \A i \in CommittedIds : i <= req[p].id
           /\ CommittedIds' = CommittedIds \cup {req[p].id}
           /\ UNCHANGED <<env, now>>
<1>0. /\ TypeOK /\ p \in Requests /\ Supersedes(p)
      /\ req[p].pc = "commit" /\ CommitRows(p)
      /\ UNCHANGED <<env, now>>
    BY DEF IInv, Requests, TransactionsSupersede, Commits, CommitCreate, CommitUnanswered
<1>1. /\ DOMAIN rows' = DOMAIN rows
      /\ \A i \in DOMAIN rows : i # req[p].id => rows'[i].state = rows[i].state
      /\ rows'[req[p].id].state = "committed"
    BY <1>0, Committing
<1>2. req[p].id \in DOMAIN rows /\ rows[req[p].id].state = "pending"
    BY <1>0 DEF Supersedes
<1>3. CommittedIds' = CommittedIds \cup {req[p].id} /\ req[p].id \notin CommittedIds
    BY <1>1, <1>2 DEF CommittedIds
<1>4. \A i \in CommittedIds : i <= req[p].id
    BY <1>0 DEF SerialInv, SeenInOrder
<1> QED BY <1>0, <1>2, <1>3, <1>4, RowIds

LEMMA NewestIsGreatest ==
    ASSUME NEW S \in SUBSET Nat, NEW n \in S, \A m \in S : m <= n
    PROVE  Newest(S) = n
<1>1. Newest(S) \in S /\ \A m \in S : m <= Newest(S)
    BY DEF Newest
<1>2. Newest(S) \in Nat /\ n \in Nat /\ Newest(S) <= n /\ n <= Newest(S)
    BY <1>1
<1> QED BY <1>2

LEMMA OverrideStep ==
    ASSUME IInv, IInv', SerialInv, SerialInv', [Next]_vars
    PROVE  [Override!Next]_<<IF env.serial THEN LiveSync(now) ELSE NoSync,
                             IF env.serial /\ CommittedIds # {} THEN Newest(CommittedIds) ELSE NoSync>>
<1> DEFINE current == IF env.serial THEN LiveSync(now) ELSE NoSync
           newest == IF env.serial /\ CommittedIds # {} THEN Newest(CommittedIds) ELSE NoSync
<1>0. TypeOK /\ now \in Nat /\ env' = env /\ CommittedIds \in SUBSET Nat /\ NoSync \notin CommittedIds
    BY RowIds, EnvKept DEF IInv, TypeOK, CommittedIds
<1>1. CASE ~ env.serial
    BY <1>0, <1>1
<1>2. CASE env.serial /\ \E p \in StartRequests : Commits(p)
    <2>1. PICK p \in StartRequests : Commits(p)
        BY <1>2
    <2>2. /\ req[p].id \in Nat \ {NoSync}
          /\ req[p].id \notin CommittedIds
          /\ \A i \in CommittedIds : i <= req[p].id
          /\ CommittedIds' = CommittedIds \cup {req[p].id}
          /\ UNCHANGED <<env, now>>
        BY <1>2, <2>1, OnlyCommits
    <2>3. newest' = req[p].id
        <3>1. Newest(CommittedIds') = req[p].id
            BY <1>0, <2>2, NewestIsGreatest
        <3> QED BY <1>2, <2>2, <3>1
    <2>4. newest < req[p].id
        <3>1. CASE CommittedIds = {}
            BY <2>2, <3>1 DEF NoSync
        <3>2. CASE CommittedIds # {}
            <4>1. CommittedIds \in SUBSET DOMAIN rows
                BY DEF CommittedIds
            <4>2. Newest(CommittedIds) \in CommittedIds
                BY <1>0, <3>2, <4>1, NewestOf
            <4>3. Newest(CommittedIds) <= req[p].id /\ Newest(CommittedIds) # req[p].id
                  /\ Newest(CommittedIds) \in Nat
                BY <1>0, <2>2, <4>2
            <4> QED BY <1>2, <2>2, <3>2, <4>3
        <3> QED BY <3>1, <3>2
    <2>5. LiveRows(now)' \subseteq {req[p].id}
        <3> SUFFICES ASSUME NEW i \in LiveRows(now)', i # req[p].id PROVE FALSE
            OBVIOUS
        <3>1. i \in CommittedIds' /\ i < req[p].id /\ req[p].id \in CommittedIds'
            BY <1>0, <2>2 DEF LiveRows
        <3>2. i \in rows'[req[p].id].saw
            BY <1>2, <2>2, <3>1 DEF SerialInv, SeenInOrder
        <3>3. Over(i)'
            BY <3>1, <3>2 DEF IInv, SeenIsOver
        <3>4. i \in CommittedIds /\ RowsKept
            BY <1>0, <2>1, <2>2, <3>1, Committing DEF Commits, CommitCreate, CommitUnanswered, Requests
        <3>5. rows'[i].endAt \in Nat
            BY <1>0, <3>4, RowIds DEF CommittedIds, RowsKept, Row
        <3> QED BY <1>0, <2>2, <3>3, <3>5 DEF Over, LiveRows
    <2>6. current' \in {req[p].id, NoSync}
        <3>1. CASE LiveRows(now)' = {}
            BY <1>2, <2>2, <3>1 DEF LiveSync
        <3>2. CASE LiveRows(now)' # {}
            <4>1. LiveRows(now)' = {req[p].id}
                BY <2>5, <3>2
            <4>2. Newest({req[p].id}) = req[p].id
                BY <2>2, NewestIsGreatest
            <4>3. Newest(LiveRows(now)') = req[p].id
                BY <4>1, <4>2
            <4> QED BY <1>2, <2>2, <3>2, <4>3 DEF LiveSync
        <3> QED BY <3>1, <3>2
    <2> HIDE DEF current, newest
    <2>7. newest' > newest /\ current' \in {newest', NoSync}
        BY <2>3, <2>4, <2>6
    <2> QED BY <2>7 DEF Override!Next, Override!Start, Override!None, NoSync, current, newest
<1>3. CASE env.serial /\ \A p \in StartRequests : ~ Commits(p)
    <2>1. RowsKept /\ CommittedIds' = CommittedIds /\ now' \in Nat /\ now <= now'
        BY <1>3, NothingCommits
    <2>2. newest' = newest
        BY <1>0, <2>1
    <2>3. LiveRows(now)' \subseteq LiveRows(now)
        BY <2>1, LiveShrinks
    <2>4. current' \in {current, NoSync}
        <3>1. CASE LiveRows(now)' = {}
            BY <1>0, <1>3, <3>1 DEF LiveSync
        <3>2. CASE LiveRows(now)' # {}
            <4>1. PICK i \in LiveRows(now)' : TRUE
                BY <3>2
            <4>2. LiveRows(now) = {i} /\ LiveRows(now)' = {i}
                BY <1>3, <2>3, <4>1, OneLive DEF SerialInv
            <4>3. Newest(LiveRows(now)) = Newest(LiveRows(now)')
                BY <4>2
            <4> QED BY <1>0, <1>3, <4>2, <4>3 DEF LiveSync
        <3> QED BY <3>1, <3>2
    <2> HIDE DEF current, newest
    <2>5. CASE current' = current
        BY <2>2, <2>5 DEF current, newest
    <2>6. CASE current' # current
        <3>1. current # NoSync /\ current' = NoSync
            BY <2>4, <2>6
        <3> QED BY <2>2, <3>1 DEF Override!Next, Override!End, Override!None, NoSync, current, newest
    <2> QED BY <2>5, <2>6
<1> QED BY <1>1, <1>2, <1>3

\* With serial operators sync_events implements the abstract override: it
\* starts with none, a commit is a newer one taking over, a cancellation or the
\* clock ends it, and every other step, crashes and rollbacks included, is
\* invisible.
THEOREM ImplementsNewestOverride == Spec => NewestWins
<1>1. Init => Override!Init
    BY DEF Init, Override!Init, Override!None, NoSync, LiveSync, LiveRows, CommittedIds
<1>2. IInv /\ IInv' /\ SerialInv /\ SerialInv' /\ [Next]_vars
      => [Override!Next]_<<IF env.serial THEN LiveSync(now) ELSE NoSync,
                           IF env.serial /\ CommittedIds # {} THEN Newest(CommittedIds) ELSE NoSync>>
    BY OverrideStep
<1> QED BY <1>1, <1>2, Always, SerialAlways, PTL DEF Spec, NewestWins, Override!Spec

\* With serial operators no two overrides are ever live: what the comment of
\* SyncRepository.Create claims, where it holds.
THEOREM SerialOperatorsNeverOverlap == Spec => [](env.serial => AtMostOneLive)
<1>1. IInv /\ SerialInv => (env.serial => AtMostOneLive)
    BY OneLive DEF SerialInv, AtMostOneLive
<1> QED BY <1>1, Always, SerialAlways, PTL

=============================================================================
