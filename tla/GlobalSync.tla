----------------------------- MODULE GlobalSync -----------------------------
(***************************************************************************)
(* The global sync override: StartSync and CancelSync of the sequencer     *)
(* service, the sync_events table they write, and the timer that announces *)
(* the end of an override.                                                 *)
(*                                                                         *)
(* Each HTTP request is a process that takes the steps of its handler one  *)
(* at a time.  A step is one SQL statement, one commit, one critical       *)
(* section of syncMu or one call of Publish, so that everything two        *)
(* operators, a timer goroutine and the clock can interleave is here.      *)
(* PostgreSQL runs at its default isolation level, READ COMMITTED: a       *)
(* statement sees what had committed when it started, waits for the row    *)
(* locks of other transactions, and then looks again only at the row it    *)
(* waited for.                                                             *)
(***************************************************************************)
EXTENDS Integers, Sequences, FiniteSets

CONSTANTS
    StartRequests,           \* POST /api/sync requests
    CancelRequests,          \* POST /api/sync/cancel requests
    Durations,               \* the durationSeconds an operator may ask for
    MaxSyncDurationSeconds,  \* models.MaxSyncDurationSeconds
    SyncLead,                \* Sequencer.syncLead
    Environments             \* the circumstances to check, one of which holds

ASSUME RequestsAssumption == StartRequests \cap CancelRequests = {}
ASSUME DurationsAssumption == Durations \subseteq Nat
ASSUME BoundsAssumption ==
    /\ MaxSyncDurationSeconds \in Nat
    /\ SyncLead \in Nat

\* Whether operators wait for each other's answers; what may fail: the process
\* ("crash"), a request's database call ("db"), the query at boot ("boot"); and
\* a bound on the clock and on the end of a sync.
Environment == [serial : BOOLEAN, faults : SUBSET {"crash", "db", "boot"}, maxTime : Nat]

ASSUME EnvironmentsAssumption == Environments \subseteq Environment

VARIABLES
    env,         \* the circumstances; they never change
    now,         \* the wall clock, in seconds
    up,          \* whether the backend process is running
    rows,        \* sync_events; the index is the id, gaps are rolled-back ids
    req,         \* the state of every request's handler
    endTimer,    \* Sequencer.endTimer: the armed timer and when it is due
    endSyncID,   \* Sequencer.endSyncID
    firing,      \* timer callbacks that have not read endSyncID yet
    announcing,  \* timer callbacks that have, and are about to publish
    published    \* every event handed to the publisher, in order

vars == <<env, now, up, rows, req, endTimer, endSyncID, firing, announcing, published>>

Requests == StartRequests \cup CancelRequests

NoSync == 0                            \* a Go zero id: no sync at all
NoTimer == [id |-> NoSync, due |-> 0]  \* a nil, stopped or fired timer

Row == [startAt : Nat, endAt : Nat, cancelled : BOOLEAN,
        state : {"pending", "committed", "rolledback"},
        saw : SUBSET Nat]   \* history: the ids committed when Create's UPDATE ran

StartPC == {"begin", "supersede", "commit", "schedule", "publishStarted"}
CancelPC == {"select", "update", "unschedule", "publishCancelled"}
Finished == {"done", "failed", "lost"}

Request == [pc : StartPC \cup CancelPC \cup Finished \cup {"idle"},
            at : Nat,             \* what s.now() returned to this request
            endAt : Nat,
            todo : SUBSET Nat,    \* rows the UPDATE has still to visit
            locked : SUBSET Nat,  \* rows the open transaction has updated
            saw : SUBSET Nat,
            id : Nat]             \* the event it created or cancels

NewRequest == [pc |-> "idle", at |-> 0, endAt |-> 0, todo |-> {},
               locked |-> {}, saw |-> {}, id |-> NoSync]

Event == [type : {"SYNC_STARTED", "SYNC_ENDED", "SYNC_CANCELLED"}, id : Nat]

Init ==
    /\ env \in Environments
    /\ now = 0
    /\ up = TRUE
    /\ rows = <<>>
    /\ req = [p \in Requests |-> NewRequest]
    /\ endTimer = NoTimer
    /\ endSyncID = NoSync
    /\ firing = {}
    /\ announcing = {}
    /\ published = <<>>

-----------------------------------------------------------------------------
(* What the statements of SyncRepository read.                             *)

CommittedIds == {i \in DOMAIN rows : rows[i].state = "committed"}

\* Mutant: the end of a sync is forgotten.
LiveRowsOver(t) == {i \in CommittedIds : ~rows[i].cancelled}

\* WHERE cancelled_at IS NULL AND end_at > t
LiveRows(t) == {i \in CommittedIds : ~rows[i].cancelled /\ rows[i].endAt > t}

Newest(S) == CHOOSE i \in S : \A j \in S : j <= i
Oldest(S) == CHOOSE i \in S : \A j \in S : i <= j

\* SyncRepository.Live, and LiveSync, which turns "no row" into nil.
LiveSync(t) == IF LiveRows(t) = {} THEN NoSync ELSE Newest(LiveRows(t))

\* No other open transaction holds the row lock.
Unlocked(i, p) == \A q \in Requests \ {p} : i \notin req[q].locked

InFlight(p) == req[p].pc \notin Finished \cup {"idle"}
Quiet == \A p \in Requests : ~InFlight(p)

-----------------------------------------------------------------------------
(* The timer half of the Sequencer; each operator is one critical section  *)
(* of syncMu.                                                              *)

\* Mutant: the delay runs to the start of the sync.
DelayToStart(i) == IF rows[i].startAt < now THEN 0 ELSE rows[i].startAt - now

Delay(i) == IF rows[i].endAt < now THEN 0 ELSE rows[i].endAt - now

\* Mutant: the new timer does not own the announcement.
ScheduleUnowned(i) ==
    /\ endTimer' = [id |-> i, due |-> now + Delay(i)]
    /\ UNCHANGED endSyncID

ScheduleSyncEnd(i) ==
    /\ endTimer' = [id |-> i, due |-> now + Delay(i)]
    /\ endSyncID' = i

CancelScheduledEnd ==
    /\ endTimer' = NoTimer
    /\ endSyncID' = NoSync

Publish(type, i) == published' = Append(published, [type |-> type, id |-> i])

\* A request arrives at an idle backend slot and its handler reads the clock.
Arrive(p, pc, endAt) ==
    /\ up
    /\ req[p].pc = "idle"
    /\ env.serial => Quiet
    /\ req' = [req EXCEPT ![p] = [@ EXCEPT !.pc = pc, !.at = now, !.endAt = endAt]]
    /\ UNCHANGED <<env, now, up, rows, endTimer, endSyncID, firing, announcing, published>>

\* The request leaves the handler for its next step.
Goto(p, pc) == req' = [req EXCEPT ![p] = [@ EXCEPT !.pc = pc]]

-----------------------------------------------------------------------------
(* StartSync.                                                              *)

\* Mutant: zero is a duration.
DurationFromZero(d) == d >= 0 /\ d <= MaxSyncDurationSeconds

ValidDuration(d) == d >= 1 /\ d <= MaxSyncDurationSeconds

AcceptStart(p, d) ==
    /\ ValidDuration(d)
    /\ now + SyncLead + d <= env.maxTime
    /\ Arrive(p, "begin", now + SyncLead + d)

\* An invalid duration, an unknown media id, or a failing media lookup.
RejectStart(p) == Arrive(p, "done", 0)

\* Mutant: only a sync that is already on screen is superseded, not one that
\* is still in its lead-in.
BeginCreateOnScreen(p) ==
    /\ req[p].pc = "begin"
    /\ req' = [req EXCEPT ![p] =
                 [@ EXCEPT !.pc = "supersede",
                           !.todo = {i \in LiveRows(req[p].at) : rows[i].startAt <= req[p].at},
                           !.saw = CommittedIds]]
    /\ UNCHANGED <<env, now, up, rows, endTimer, endSyncID, firing, announcing, published>>

\* BEGIN, and the UPDATE takes its snapshot.
BeginCreate(p) ==
    /\ req[p].pc = "begin"
    /\ req' = [req EXCEPT ![p] = [@ EXCEPT !.pc = "supersede",
                                           !.todo = LiveRows(req[p].at),
                                           !.saw = CommittedIds]]
    /\ UNCHANGED <<env, now, up, rows, endTimer, endSyncID, firing, announcing, published>>

\* The UPDATE reaches the next row of its snapshot, waits for its lock and
\* evaluates the WHERE clause again: a row cancelled meanwhile is skipped.
SupersedeRow(p) ==
    LET i == Oldest(req[p].todo)
        own == IF rows[i].cancelled THEN {} ELSE {i}
    IN  /\ req[p].pc = "supersede"
        /\ req[p].todo # {}
        /\ Unlocked(i, p)
        /\ req' = [req EXCEPT ![p] = [@ EXCEPT !.todo = req[p].todo \ {i},
                                               !.locked = req[p].locked \cup own]]
        /\ UNCHANGED <<env, now, up, rows, endTimer, endSyncID, firing, announcing, published>>

\* INSERT ... RETURNING id, and the transaction selects its own row back.
InsertRow(p) ==
    /\ req[p].pc = "supersede"
    /\ req[p].todo = {}
    /\ rows' = Append(rows, [startAt |-> req[p].at + SyncLead,
                             endAt |-> req[p].endAt,
                             cancelled |-> FALSE,
                             state |-> "pending",
                             saw |-> req[p].saw])
    /\ req' = [req EXCEPT ![p] = [@ EXCEPT !.pc = "commit", !.id = Len(rows) + 1]]
    /\ UNCHANGED <<env, now, up, endTimer, endSyncID, firing, announcing, published>>

\* Mutant: the UPDATE is not part of the transaction that commits.
CommitRowAlone(p) ==
    rows' = [i \in DOMAIN rows |->
                IF i = req[p].id THEN [rows[i] EXCEPT !.state = "committed"] ELSE rows[i]]

\* COMMIT: the new row and every cancelled_at become visible at once.
CommitRows(p) ==
    rows' = [i \in DOMAIN rows |->
                IF i = req[p].id THEN [rows[i] EXCEPT !.state = "committed"]
                ELSE IF i \in req[p].locked THEN [rows[i] EXCEPT !.cancelled = TRUE]
                ELSE rows[i]]

CommitCreate(p) ==
    /\ req[p].pc = "commit"
    /\ CommitRows(p)
    /\ req' = [req EXCEPT ![p] = [@ EXCEPT !.pc = "schedule", !.locked = {}]]
    /\ UNCHANGED <<env, now, up, endTimer, endSyncID, firing, announcing, published>>

\* Mutant: the failing transaction is not rolled back.
FailWithoutRollback(p) ==
    /\ "db" \in env.faults
    /\ req[p].pc \in {"begin", "supersede", "commit"}
    /\ Goto(p, "failed")
    /\ UNCHANGED <<env, now, up, rows, endTimer, endSyncID, firing, announcing, published>>

\* A statement or the commit fails, or the request's context is cancelled:
\* the deferred Rollback releases the locks and burns the id.
FailCreate(p) ==
    /\ "db" \in env.faults
    /\ req[p].pc \in {"begin", "supersede", "commit"}
    /\ rows' = [i \in DOMAIN rows |->
                  IF i = req[p].id THEN [rows[i] EXCEPT !.state = "rolledback"]
                  ELSE rows[i]]
    /\ req' = [req EXCEPT ![p] = [@ EXCEPT !.pc = "failed", !.locked = {}, !.todo = {}]]
    /\ UNCHANGED <<env, now, up, endTimer, endSyncID, firing, announcing, published>>

\* The commit happens but its answer is lost: StartSync returns the error and
\* neither schedules the end nor publishes anything.
CommitUnanswered(p) ==
    /\ "db" \in env.faults
    /\ req[p].pc = "commit"
    /\ CommitRows(p)
    /\ req' = [req EXCEPT ![p] = [@ EXCEPT !.pc = "failed", !.locked = {}]]
    /\ UNCHANGED <<env, now, up, endTimer, endSyncID, firing, announcing, published>>

ScheduleEnd(p) ==
    /\ req[p].pc = "schedule"
    /\ ScheduleSyncEnd(req[p].id)
    /\ Goto(p, "publishStarted")
    /\ UNCHANGED <<env, now, up, rows, firing, announcing, published>>

PublishStarted(p) ==
    /\ req[p].pc = "publishStarted"
    /\ Publish("SYNC_STARTED", req[p].id)
    /\ Goto(p, "done")
    /\ UNCHANGED <<env, now, up, rows, endTimer, endSyncID, firing, announcing>>

-----------------------------------------------------------------------------
(* CancelSync.                                                             *)

AcceptCancel(p) == Arrive(p, "select", 0)

\* The subquery of CancelLive's UPDATE picks the newest live row once, when
\* the statement starts; with none the request answers 404 and is done.
CancelSelect(p) ==
    /\ req[p].pc = "select"
    /\ req' = [req EXCEPT ![p] =
                 [@ EXCEPT !.id = LiveSync(req[p].at),
                           !.pc = IF LiveSync(req[p].at) = NoSync THEN "done" ELSE "update"]]
    /\ UNCHANGED <<env, now, up, rows, endTimer, endSyncID, firing, announcing, published>>

\* The UPDATE waits for the row lock.  What it evaluates again is "id = the
\* subquery's answer", so a row superseded meanwhile is cancelled once more.
CancelUpdate(p) ==
    /\ req[p].pc = "update"
    /\ Unlocked(req[p].id, p)
    /\ rows' = [rows EXCEPT ![req[p].id] = [@ EXCEPT !.cancelled = TRUE]]
    /\ Goto(p, "unschedule")
    /\ UNCHANGED <<env, now, up, endTimer, endSyncID, firing, announcing, published>>

\* The statement fails, or it has committed and reading the row back fails:
\* CancelSync returns the error without touching the timer.  A row that is gone
\* when it is read back leaves the timer too; rows are deleted by a -force only.
FailCancel(p) ==
    /\ "db" \in env.faults
    /\ req[p].pc \in {"select", "update", "unschedule"}
    /\ Goto(p, "failed")
    /\ UNCHANGED <<env, now, up, rows, endTimer, endSyncID, firing, announcing, published>>

Unschedule(p) ==
    /\ req[p].pc = "unschedule"
    /\ CancelScheduledEnd
    /\ Goto(p, "publishCancelled")
    /\ UNCHANGED <<env, now, up, rows, firing, announcing, published>>

PublishCancelled(p) ==
    /\ req[p].pc = "publishCancelled"
    /\ Publish("SYNC_CANCELLED", req[p].id)
    /\ Goto(p, "done")
    /\ UNCHANGED <<env, now, up, rows, endTimer, endSyncID, firing, announcing>>

-----------------------------------------------------------------------------
(* The timer's callback, the process and the clock.                        *)

\* The runtime starts the callback's goroutine: Stop can no longer reach it.
FireTimer ==
    /\ endTimer.id # NoSync
    /\ now >= endTimer.due
    /\ endTimer' = NoTimer
    /\ firing' = firing \cup {endTimer.id}
    /\ UNCHANGED <<env, now, up, rows, req, endSyncID, announcing, published>>

\* It reads endSyncID under syncMu and gives up if another sync owns the end.
CheckEnd(i) ==
    /\ i \in firing
    /\ firing' = firing \ {i}
    /\ announcing' = IF endSyncID = i THEN announcing \cup {i} ELSE announcing
    /\ UNCHANGED <<env, now, up, rows, req, endTimer, endSyncID, published>>

\* It publishes after it has released syncMu.
AnnounceEnd(i) ==
    /\ i \in announcing
    /\ announcing' = announcing \ {i}
    /\ Publish("SYNC_ENDED", i)
    /\ UNCHANGED <<env, now, up, rows, req, endTimer, endSyncID, firing>>

\* The process is killed, at any point: open transactions roll back, handlers and
\* timers are gone.  An orderly stop is one that finds nothing in flight.
Crash ==
    /\ "crash" \in env.faults
    /\ up
    /\ up' = FALSE
    /\ rows' = [i \in DOMAIN rows |->
                  IF rows[i].state = "pending"
                  THEN [rows[i] EXCEPT !.state = "rolledback"] ELSE rows[i]]
    /\ req' = [p \in Requests |->
                 IF InFlight(p)
                 THEN [req[p] EXCEPT !.pc = "lost", !.locked = {}, !.todo = {}]
                 ELSE req[p]]
    /\ CancelScheduledEnd
    /\ firing' = {}
    /\ announcing' = {}
    /\ UNCHANGED <<env, now, published>>

\* Mutant: the timer is not armed again.
RestoreNothing ==
    /\ ~up
    /\ up' = TRUE
    /\ UNCHANGED <<env, now, rows, req, endTimer, endSyncID, firing, announcing, published>>

\* Boot: RestoreSyncTimer runs before the server accepts requests.
RestoreSyncTimer ==
    LET live == LiveSync(now) IN
    /\ ~up
    /\ up' = TRUE
    /\ IF live = NoSync THEN UNCHANGED <<endTimer, endSyncID>> ELSE ScheduleSyncEnd(live)
    /\ UNCHANGED <<env, now, rows, req, firing, announcing, published>>

\* Its query fails: the backend logs a warning and serves without the timer.
RestoreFails ==
    /\ "boot" \in env.faults
    /\ ~up
    /\ up' = TRUE
    /\ UNCHANGED <<env, now, rows, req, endTimer, endSyncID, firing, announcing, published>>

Tick ==
    /\ now < env.maxTime
    /\ now' = now + 1
    /\ UNCHANGED <<env, up, rows, req, endTimer, endSyncID, firing, announcing, published>>

-----------------------------------------------------------------------------
\* The steps a handler takes by itself once it has its request.
StartStep(p) ==
    \/ BeginCreate(p)
    \/ SupersedeRow(p)
    \/ InsertRow(p)
    \/ CommitCreate(p)
    \/ ScheduleEnd(p)
    \/ PublishStarted(p)

CancelStep(p) ==
    \/ CancelSelect(p)
    \/ CancelUpdate(p)
    \/ Unschedule(p)
    \/ PublishCancelled(p)

Next ==
    \/ \E p \in StartRequests :
        \/ \E d \in Durations : AcceptStart(p, d)
        \/ RejectStart(p)
        \/ StartStep(p)
        \/ FailCreate(p)
        \/ CommitUnanswered(p)
    \/ \E p \in CancelRequests :
        \/ AcceptCancel(p)
        \/ CancelStep(p)
        \/ FailCancel(p)
    \/ FireTimer
    \/ \E i \in firing : CheckEnd(i)
    \/ \E i \in announcing : AnnounceEnd(i)
    \/ Crash
    \/ RestoreSyncTimer
    \/ RestoreFails
    \/ Tick

Spec == Init /\ [][Next]_vars

\* Goroutines are scheduled, the database answers and the clock runs.  Nothing
\* is assumed of operators, of faults or of the process being restarted.
Fairness ==
    /\ \A p \in StartRequests : WF_vars(StartStep(p))
    /\ \A p \in CancelRequests : WF_vars(CancelStep(p))
    /\ WF_vars(FireTimer)
    /\ WF_vars(\E i \in firing : CheckEnd(i))
    /\ WF_vars(\E i \in announcing : AnnounceEnd(i))
    /\ WF_vars(Tick)

FairSpec == Spec /\ Fairness

-----------------------------------------------------------------------------
(* Properties.                                                             *)

\* Every variable has its type, and every row passes the table's check that a
\* sync ends after it starts.
TypeOK ==
    /\ env \in Environments
    /\ now \in Nat
    /\ up \in BOOLEAN
    /\ rows \in Seq(Row)
    /\ \A i \in DOMAIN rows : rows[i].startAt < rows[i].endAt
    /\ req \in [Requests -> Request]
    /\ endTimer \in [id : Nat, due : Nat]
    /\ endSyncID \in Nat
    /\ firing \subseteq Nat
    /\ announcing \subseteq Nat
    /\ published \in Seq(Event)

\* What the supersede transaction guarantees under every interleaving, crash
\* and database fault: two overrides are live together only if the transaction
\* that created either one ran its UPDATE before the other had committed.
LiveTogetherOnlyIfRaced ==
    \A i, j \in LiveRows(now) : i # j => i \notin rows[j].saw /\ j \notin rows[i].saw

\* The claim of SyncRepository.Create: no two overrides are ever live.  It
\* holds when operators wait for each other's answer, where it follows from
\* LiveTogetherOnlyIfRaced, and not otherwise.
AtMostOneLive == \A i, j \in LiveRows(now) : i = j

\* SYNC_ENDED is published at most once for a sync, although its timer is
\* armed again by RestoreSyncTimer after every restart.
EndAnnouncedAtMostOnce ==
    \A k, l \in DOMAIN published :
        published[k].type = "SYNC_ENDED" /\ published[l] = published[k] => k = l

\* SYNC_ENDED is never published before the override's end_at.
NeverEndsEarly ==
    \A k \in DOMAIN published :
        published[k].type = "SYNC_ENDED" => rows[published[k].id].endAt <= now

\* No request has been answered with a database error.
NoneFailed == \A p \in Requests : req[p].pc # "failed"

\* With serial operators, when no request is under way, none has been told of a
\* database error and no boot has served without its query, a live override has
\* its end announcement armed for the right instant and owned by it: crashes at
\* any point and restarts included.
TimerFollowsLive ==
    /\ env.serial /\ "boot" \notin env.faults
    /\ up /\ Quiet /\ NoneFailed /\ LiveSync(now) # NoSync
    =>
        /\ endTimer = [id |-> LiveSync(now), due |-> rows[LiveSync(now)].endAt]
        /\ endSyncID = LiveSync(now)

\* The event that decides what a browser connected all along displays:
\* handleEvent sets activeSync on SYNC_STARTED and clears it on the other two.
Shown ==
    IF published # <<>> /\ published[Len(published)].type = "SYNC_STARTED"
    THEN published[Len(published)].id
    ELSE NoSync

\* When every request and timer callback has finished, a browser that received
\* every event shows the live override.
BrowsersShowLive ==
    Quiet /\ firing = {} /\ announcing = {} /\ LiveSync(now) # NoSync =>
        Shown = LiveSync(now)

\* A request that has been accepted gets its answer: row locks are taken in
\* one order and every transaction ends, so no request waits for ever.
RequestsAnswered == \A p \in Requests : InFlight(p) ~> ~InFlight(p)

Started(i) == [type |-> "SYNC_STARTED", id |-> i]
PublishedEvents == {published[k] : k \in DOMAIN published}

\* With serial operators, what the browsers were told of a live sync is never
\* the last word: its own end or cancellation is published too, or news of a
\* newer one, even when a later start or cancel fails halfway and also after a
\* restart; unless the process ends, and with it every connection.
EveryStartIsClosed ==
    \A i \in 1..Cardinality(StartRequests) :
        env.serial /\ up /\ Quiet /\ Started(i) \in PublishedEvents /\ i \in LiveRows(now)
            ~> ~up \/ \E e \in PublishedEvents : e.id >= i /\ e # Started(i)

\* With serial operators the table of sync events is one override that only
\* newer ones replace: the abstract specification, LiveSync as the override.
\* (Where operators race nothing is claimed: the mapping shows no override.)
Override == INSTANCE NewestOverride WITH
    current <- IF env.serial THEN LiveSync(now) ELSE NoSync,
    newest <- IF env.serial /\ CommittedIds # {} THEN Newest(CommittedIds) ELSE NoSync

NewestWins == Override!Spec
=============================================================================
