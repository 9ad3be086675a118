# TLA+ model of the media sequencer

A Go backend keeps, in PostgreSQL, a grid of display windows, a media library,
one playlist per window and the global sync overrides; browsers render the
windows from that configuration and the server's clock, and learn of changes
over a WebSocket. These modules model the parts where two actors can get in each
other's way, check them with TLC, and prove the central guarantees with TLAPS.

## 1. Inventory

| Part | Code (under `src/`) | State | Operations |
|---|---|---|---|
| Global sync | `backend/internal/service/sync.go`, `backend/internal/repository/sync.go` | table `sync_events`; `endTimer`, `endSyncID` under `syncMu` | StartSync, CancelSync, LiveSync, timer callback, RestoreSyncTimer |
| Playlist store | `backend/internal/repository/playlist.go` | table `playlist_items`, row locks on `windows` | Append, Remove, Move, ListByWindow, ListAll |
| Hub | `backend/internal/websocket/hub.go`, `client.go` | client set, broadcast queue (64), send queue per client (32), `closed`/`done` channels | Run, Publish, Close, Handler, greet, readPump, writePump |
| Sequencer service | `backend/internal/service/sequencer.go` | none of its own | edits followed by reload and publish, Snapshot |
| Playback clock | `backend/internal/playback/playback.go`, `frontend/src/utils/playback.js` | none | NewTimeline, Resolve, indexAt, floorDiv |
| Browser state | `frontend/src/hooks/useSequencerState.js`, `useWebSocket.js`, `utils/sync.js` | windows, media, activeSync, socket status | HELLO, events, REST refresh, polling, reconnect |
| Browser clock | `frontend/src/hooks/useServerClock.js`, `frontend/src/hooks/useNow.js` | last eight samples, the last look at the browser's clock | recordSample, the tick of useNow |
| Boot | `backend/internal/database/migrate.go`, `backend/internal/seed/seed.go`, `backend/cmd/seed/main.go` | `schema_migrations`, advisory lock | Migrate, Run, `-force` |
| Window and media tables | `backend/internal/repository/window.go`, `media.go` | tables `windows`, `media` | one statement each |
| HTTP API, models | `backend/internal/handlers`, `httpx`, `models` | none | decode, validate, call the service, choose the status |
| Server process | `backend/cmd/server/main.go` | | start order, greeting closure, SIGTERM, grace period, deferred calls |
| Configuration, static assets, React components | | none | environment, files, rendering |

How they meet: an HTTP request runs a service method, which runs one or more
transactions and then calls `Publish`; `Publish` puts an event on the hub's
broadcast queue, from where `Run` copies it to the queue of every connection; a
connection's writer puts it on the wire. A new connection is registered first
and greeted with a snapshot read from the database afterwards. The end timer is
a goroutine of its own that publishes too. Several processes may use one
database: servers that boot beside each other, and the seeding command. A browser
takes the windows from greetings, events and REST snapshots, the time from pongs
and REST answers, and computes everything it shows from the two.

What is hard: request goroutines that interleave between their statements at
READ COMMITTED; the timer's callback racing starts and cancels; a process that
dies between a commit and what should follow it; a slow or silent browser; the
order in which snapshots and events of different moments reach a browser; boots
that seed beside each other, and a `-force` beside either; requests that are
still running when the server shuts down; measurements of a clock that is set
between them.
`PROJECT.json` lists these hazards line by line with the properties that watch
them.

## 2. Modules

| Module | Models |
|---|---|
| `GlobalSync` | sync service and repository, end timer, crash and restart |
| `NewestOverride` | what an operator is promised of syncs: there is one override, the newest |
| `GlobalSyncProofs` | proofs about `GlobalSync`, and that it implements `NewestOverride` |
| `PlaylistStore` | the playlist transactions, one action per statement |
| `PlaylistOrder` | what an editor is promised: plain list operations |
| `PlaylistStoreProofs` | proofs about `PlaylistStore`, and that it implements `PlaylistOrder` |
| `Hub` | the hub's goroutine, publishers, and the reader, writer and handler of every connection |
| `HubProofs` | proofs about `Hub` |
| `PlaylistFeed` | an edit's way to the browsers: re-read, publish, greeting, REST snapshots, polling, reconnection |
| `PlaylistFeedProofs` | proofs about `PlaylistFeed` |
| `PlaybackClock` | the playback computation of server and browser, one loop iteration at a time |
| `PlaybackClockProofs` | proofs about `PlaybackClock` |
| `Inputs` | what an operator may type, the validation of it, and the CHECK constraints |
| `Tables` | `windows`, `media` and `playlist_items`, with the repositories' statements on them |
| `Boot` | processes that connect, migrate, clear and seed one database |
| `Server` | the HTTP API over the tables, in processes that boot, drain and die |
| `ServerProofs` | proofs about processes that boot: migrations, tables, seedings |
| `RequestProofs` | proofs about the requests of `Server`, on top of `ServerProofs` |
| `ServerClock` | the browser's estimate of the server's clock, and the phase of a sync it decides |
| `ServerClockProofs` | proofs about `ServerClock` |
| `MC...` | finite instances |

`Server` EXTENDS `Boot`, which EXTENDS `Tables`, which EXTENDS `Inputs`: one
process goes through `Boot`'s steps and then serves `Server`'s requests.
`PlaylistFeed` stands on the other server modules: a commit of an edit is one
step there because `PlaylistStore` shows what its statements amount to, and the
hub copies an event to all connections in one step because `Hub` shows that it
neither skips nor reorders. In the same way an edit of a playlist is one step of
`Server`, and the requests about syncs, which touch no other table, are only in
`GlobalSync`.

`GlobalSync`, `Hub`, `PlaylistFeed` and `Server` have a variable `env`, chosen at
the start from the constant `Environments` and never changed: which faults may
happen, how many requests, connections or processes there are, which inputs are
tried, whether AUTO_SEED is on. One run then covers several instances, each
small in a different respect, instead of one that is large in all of them.

### GlobalSync

A request is a record with a program counter; its steps are the SQL statements,
the commit, one critical section of `syncMu` and one `Publish`. `rows` is the
table, with rows that are still uncommitted or were rolled back marked so; a
statement reads `CommittedIds` only. `SupersedeRow` is the row-by-row half of
Create's UPDATE: PostgreSQL fixes the set of rows when the statement starts
(`BeginCreate`), waits for each row's lock, and evaluates the WHERE clause again
for the row it waited for. `FireTimer`, `CheckEnd` and `AnnounceEnd` are the
runtime starting the callback, its look at `endSyncID`, and its publish after
`syncMu` is released. `Crash` may strike anywhere, and stands for an orderly stop
too when nothing is in flight; `RestoreSyncTimer` runs at
boot. `saw` in a row is a history variable (what had committed when the UPDATE
of its Create ran) and influences nothing.

### PlaylistStore

`playlist` holds committed positions, `writes` what an open transaction has
written, `lock` the row locks taken by `SELECT ... FOR UPDATE`. A statement sees
`Overlay(writes, playlist)`. The unique constraint on (window, position) is
deferred, so only `Commit` checks it. A transaction may roll back before any
statement. Media are not modelled: no statement here reads them.

### Hub

Unbuffered channels are joint steps of sender and receiver, buffered ones are
bounded sequences. Each connection has a handler (register, greet), a reader and
a writer, and the browser may stop reading, send pings or disconnect.

### PlaylistFeed

A playlist is its version: `db` counts the commits of each window, 0 being a
window that does not exist yet. An edit is a record that goes from `reload`
(committed, not yet read again) over `publish` to `answer`; the page of the
operator then fetches the state. A greeting and a GET /api/state are readers
that take two steps, the query for the windows and the one for the playlists.
`feed` holds what is queued for a connection or on the wire; the writer starts
once the greeting has been queued, so `HandleEvent` waits for that. `view` is
what a browser shows; `ApplySnapshot` replaces it and `UpsertWindow` replaces
one window. `contested`, `outdated` and `greeted` are history variables that name
the races the code leaves open, so that `ConvergedUnlessRaced` can say that there
are no others.

### Boot and Server

`inst[i]` is the process in place `i`: its program counter goes from `connect`
over `lock`, `check`/`apply` (the loop over the migrations), `unlock`, the three
DELETEs of `-force`, `count` and the loops of `seed.Run` to `serving`. A step is
a statement (a transaction for `ApplyMigration`), and any may fail before or
after it has taken effect (`BootFails`, `Writes`). `holder` is the advisory lock,
which a process gives up on every way out of `Migrate`, dying included. `applied`
records what the migrations' statements did, independently of `recorded`, the
table `schema_migrations`; `torn` and `crowded` are history variables that name
what a seeding has met.

`req[r]` is a handler: `Arrive` decodes and validates, and the following actions
are the calls of the store in the order of the service's code, ending in a status.
`Queries` is the order of the SELECTs of each read and of the re-read after an
edit. A statement that fails is answered with 500, or with 400 when its error is
`io.EOF`, which `WriteServiceError` takes for the error of an empty body
(`FailureStatuses`). `ResolveMedia` is the choice between an id and an inline item, which is
stored and announced on its own before the append. `wrote` and `told` record what
a request has stored and what it has handed to an open hub. `Sigterm`, `Drained`,
`GraceOver` and `Exit` are `http.Server.Shutdown` and the deferred calls;
`ServeFails` is a listener that fails, after which `run` returns without draining;
`Crash` is a process that is killed, anywhere. A request that a crash, a listener
that fails or the end of the grace period cuts off gets no answer.

### ServerClock

Real time counts grains, finer than the milliseconds in which both clocks are
read. An exchange is a GET or a PING: `Send` notes the browser's time, `Reply`
the server's, `Receive` is `recordSample`; several overlap, and `SetClock` may
come between any two steps. `streak` counts the latest measurements that were
made entirely with the present clock. `look` is what `useNow` holds: the browser's
time when it last ticked (`Look`), which stays on the page until the next tick, at
most `LookInterval` later. `App` adds the latest offset to it whenever it renders
(`ServerNowMillis`), so that an offset may be newer than the reading, or the
reading older than a setting of the clock (`look.astride`).

### PlaybackClock

`lang` chooses between the Go and the JavaScript arithmetic: division that
truncates and is corrected against `Math.floor`, and two ways to round the
midpoint up. `LayOut` is an iteration of NewTimeline, `Search` one of indexAt,
`Show` the rest of Resolve. Between two renders `Tick` (the browser, which keeps
its memoised timeline) or `CurrentPlayback` (the server, which builds it again)
moves the clock, forwards or back, and `Edit` brings another playlist.
`previous` remembers the last render for `PlaysOn`.

## 3. Runs

| Run | Expect | Question |
|---|---|---|
| `sync` | pass | what holds of overrides, timers and requests under any interleaving, crash and database failure; do operators who wait for each other's answers get the documented behaviour |
| `sync_race` | violation | can two concurrent starts leave two overrides live |
| `sync_stale_end` | violation | can a late end announcement take the next sync off the screens |
| `playlist` | pass | are concurrent, failing edits list operations with contiguous positions |
| `hub` | pass | does a connection get every broadcast in order, or a close; does anything block: broadcasts, publishers, shutdown, dead connections |
| `hub_hello` | violation | is every connection greeted |
| `playback` | pass | is what a window shows what the schedule prescribes, at every instant and from one to the next |
| `feed` | pass | does a browser show what is committed, races that are named aside; does one without a connection converge by polling |
| `feed_converged` | violation | does every open browser converge |
| `server` | pass | do what is stored, answered and announced fit together when processes boot, seed, clear, fail and shut down beside requests |
| `boot_race` | violation | can two servers that start together get in each other's way |
| `clock` | pass | how far off are a browser's clock and the sync it shows |

Bounds. `sync`: two starts and one cancel are the least that race in every pair
(start/start, start/cancel, timer/start). Where they race, the clock runs until the
first override ends (2). With operators in turn it runs until one has begun and
ended and another, started after that, has too (4), and everything may fail but
the query at boot, after which a live sync has no timer. `playlist`: two transactions
and two windows give same-window and cross-window interleavings; three items are
the least for a move with something between, and targets include a refused one
and one past the end. `hub`: queues of one message stand for 32 and
64, since what matters is full or not; two events distinguish order and loss;
one connection with pings and two events, or two connections and one event.
`playback`:
a cycle of 7 and items of 2 or 4 ticks, so that passes of 2, 4, 6, 8, 10 and 12
do not divide the cycle and both short and long playlists are cut by it; items
with zero and negative durations anywhere in up to three places; instants from
before the cycle ahead of the anchor to past the one after it. `feed`: one
browser that connects twice, since browsers do not influence each other except
through the hub's queue, which is kept full or empty by the edits already; and
either two windows, one of which does not exist at first, and an edit; or one
window, an edit and two overlapping requests; or two edits in a row.
`feed_converged` needs no failure and no reconnection. `server`: two processes at
a time and three starts, so that one can boot after another has failed half way;
two migrations, two media and two windows are the least in which a loop can stop
between two rounds; two requests of every kind beside each other, one beside
failures and a crash, one beside a `-force`, and one with every combination of
classes of names, types, URLs and durations (0 to 4 where 1 to 3 are allowed,
which stand for 1 to 86,400 seconds). `clock`: half milliseconds, so that the
truncation of either clock matters; two exchanges that overlap, two samples kept
of the eight; a clock that is set once, forwards or back, by a step that an
exchange may straddle and still be a measurement, or by a large one; looks at most
a millisecond apart. The syncs (`StartsOrEnds`) start or end at every grain from
eleven before the run to ten after it. That is further than the tolerance of five
to eight grains and the time between looks reach, so that at any moment each
round trip meets syncs that must be on the screen, syncs that must be off it
because it is too early or too late, and the instants at which either begins or
stops to be so. A truncation to half milliseconds loses half a millisecond at
most, so that the errors of the run stay a millisecond below the bound, which is
stated for any grain; a bound lower by a millisecond and a half does not hold.

Deadlock is checked wherever the system can always take a step; the cfgs that
turn it off are those where every request has been answered and the clock stops,
or where nobody starts another process.

## 4. Fairness

`GlobalSync` and `PlaylistStore` assume that a handler that can take its next
step takes it (goroutine scheduling, statements that get their answers), and
`GlobalSync` that the clock moves on and the timer's callback runs. In
`PlaylistStore` PostgreSQL does not let a waiter for a row lock be overtaken for
ever (its lock queue is first come, first served): strong fairness of
`LockWindow`. Nothing is assumed of operators, browsers, crashes or failures. In
`Hub`, goroutines are scheduled and write deadlines expire; weak fairness of the
hub's loop as a whole is enough, nothing is assumed of which ready case `select`
picks. In `PlaylistFeed` the polling interval fires; a poll may fail any number of
times, but the queries and the answer of a request that is tried again and again
succeed once (strong fairness), which is what a backend that is reachable at all
means. Nothing is assumed of the socket, the edits or the hub:
`PollingConverges` speaks of the behaviours in which the socket stays away. In
`PlaybackClock` a computation that has begun goes on. In `Server` a process that
can take its next step of booting takes it; nobody has to start one, and requests
may stop anywhere.

## 5. Proofs

Every safety invariant and every action property that a run checks, and both
refinements, are proved for all values of the constants. What the proofs assume
of the constants are the named assumptions of each module; TLC evaluates them on
every run. The ones about data say what the code guarantees: the seed data pass
the validation that requests have to pass, the windows of the layout have
different names and refer to media of the library (`Boot`); a request body holds
one media item at most, and a position is an integer (`Server`).

### PlaylistStoreProofs

For any set of windows, any finite set of concurrent requests, any targets and
any bound on ids: `TypeCorrectness`, `ContiguousAlways` and `CommitsSucceed` (the
invariants of the run `playlist`), `LockProtectsWindow` and `ImplementsLists` (its
action property and its refinement).

`PositionsContiguous` is not inductive: a commit installs what earlier statements
computed. `Staged` says for each program counter what the uncommitted writes
amount to over the committed rows of the window, ending with "what the
transaction sees is contiguous" at `commit`; `Locking` says a transaction past
its first statement holds its window, so another's commit cannot change the rows
`Staged` speaks of; `Fresh` says ids in use are below the identity sequence, so an
append does not hit an existing row. The lemmas `AppendKeepsContiguous`,
`RemoveKeepsContiguous` and `MoveKeepsContiguous` hold the list arithmetic; one
lemma per action follows.

For the refinement, `Stage` says of every open transaction which list its window
will show when it commits: the committed one with an item appended, removed or
moved (`Appended`, `Removed`, `Moved`). A commit is then one list operation, and
every other step leaves the lists alone. `Apart` is needed for it: the row a
transaction inserts is nobody else's.

### GlobalSyncProofs

For any requests, durations, limits and faults: `TypesHold`,
`OnlyRacersLiveTogether`, `AnnouncedOnce`, `NeverTooEarly`, `TimersFollowLive` (the
invariants of the run `sync`), `ImplementsNewestOverride` (its refinement), and
`SerialOperatorsNeverOverlap`, which says where the property that `sync_race`
refutes does hold.

`TransactionsSupersede` follows Create's UPDATE row by row: what its snapshot
contained is over in what the transaction has written so far, because a row it
waited for is looked at again; `SeenIsOver` says the same of what has committed,
and gives `LiveTogetherOnlyIfRaced`. `OneAnnouncement` says the right to announce
the end of a sync is in one place at a time: a request that will arm the timer,
the timer, a callback before or after its check, or among what has been
published; no restart makes a second one, since only a sync that is still live is
armed again, and `TimersAreDue` puts the announcement after its end. With
operators in turn, `OneAtATime` and `SeenInOrder` make every override see all the
earlier ones, so that only the newest can be live; `LiveIsArmed` adds that its
timer is armed, or a request is about to arm it.

`TimerFollowsLive` and its theorem exclude runs in which the query at boot may
fail: the code logs that failure and serves, and a live sync then has no timer.

### HubProofs

For any connections, events and buffer sizes of at least one: `TypesHold`,
`DroppedConnectionsAreTold`, `NoGapsDelivered` and `ClientsMissNoEvent`, the
invariants of the run `hub`.

`DeliveredWithoutGaps` speaks of what a browser has received; inductive is the
statement about that and what is queued together (`HasNoGaps`): it continues the
fan-out from the moment of registration, and for a client it is all of it but
for the message being fanned out. The greeting and pongs are in the same queue,
so positions are counted in events only, and the lemmas on sequences say how that
count goes on. `InPhase` says which of a connection's goroutines exist when;
`FanOutIsToClients` that the fan-out under way is to clients.

### PlaylistFeedProofs

For any windows, browsers, finite set of edits, concurrent requests and queue
sizes: `TypesHold` and `ConvergesUnlessRaced`, the invariants of the run `feed`.

`Announces` says an edit that overlaps no other is the only one about to publish
its window, and publishes the version it made. `Delivers` says where the newest
version of a window is: about to be published, or else the last one in the
hub's queue, or else the last one on its way to everyone who is registered
(`OnWay`), or else on the screen, unless a snapshot that was out of date has
replaced it. The connection between the steps is that nothing overtakes in either
queue. So the races named by `contested` and `outdated` are all there are.

### PlaybackClockProofs

For any set of durations (negative ones included), any cycle length, anchor and
instants, and playlists of any length: `TypeCorrectness`, `TimelineCorrect`,
`ScheduledAlways` and `PlaysOnAlways`, the invariants of the run `playback`.

`LaidOut` carries the timeline through its construction: after looking at
`next - 1` playlist items it holds the playable ones among them, back to back
(`TimelineIsPlaylist` says so of all of them, and only of the end). `Located` says
that while the search runs the offset is the position in the cycle less whole
passes, and so inside one pass: this is where the corrected division is needed.
`Bracketed` is the invariant of the binary search, that item `lo` starts no later
than the offset and the item after `hi`, if there is one, later; with the midpoint
strictly above `lo` it leaves the right item when the bounds meet.
`ShownIsScheduled` then follows at `Show` and is kept until the next render.

`PlaysOn` relates two renders, between which the server builds the timeline again.
`Recalls` says the timeline the last render used is the whole timeline of the
same playlist, and that the one under construction is the first part of it. An
instant has one position (`DivisionUnique`, and the items of a timeline do not
overlap: `Ordered`), so two instants less than the remaining time apart are in
one occurrence, and the next one after that is the item that follows, the first
of the next pass, or the first of the next cycle.

### ServerClockProofs

For any granularity of time, any skews, any number of overlapping exchanges and of
samples kept: `TypeCorrectness` (the estimate is always made from kept, valid
samples), `EstimateAlways` and `OverrideAlways`, the invariants of the run
`clock`; for any syncs and any interval between looks too.

While the browser's clock is not set, a measurement brackets the server's reading
between its two own: `Bracket` turns the two inequalities and the truncation of
three divisions into the bound on the offset. The invariant says so of every
sample among the latest `streak`, and of every exchange that is not `astride` a
setting of the clock that its reading lies in between. `streak` makes it
inductive: a setting makes it zero, and a measurement from before falls out of
the kept samples before `streak` reaches their number. `BestExists` is a
least-element argument over the round trips. `LookIsRecent` says that the last
look, unless it is astride a setting, read the present clock, and not long ago.
`ServerNowBound` is the error at that look; `OverrideAlways` adds the truncation of
the sync's instants, and the age of the look where it makes the page late.

### ServerProofs and RequestProofs

For any number of processes, migrations and requests, any seed data, any
failures: all invariants of the run `server`.

* `MigrationsAlways`. `Exclusive` says a process inside `Migrate` holds the
  advisory lock; `InOrder` that its loop has passed no migration that is not
  recorded, so that the one it is about to apply is the next one. Every other
  step either leaves the processes in `Migrate` alone (`Calm`) or takes one out of
  it (`Leaves`).
* `TypesHold`, in particular the constraints of the tables. `TablesInv` adds the
  serials to them: a new row's id is in no table. A row may be deleted by a
  `-force` while others hold its id; `wipes` counts these, and `Grows` says that
  between two of them no window or media item goes.
* `BootFailuresNamed`. `Alone` says what a process finds that nobody else has
  written beside: no windows, or those it has made itself under the first
  names of the layout; so no name is taken, and every media item it refers to is
  there. A process beside which others wrote is `crowded`.
* `SeedsWhole`. `Leads` picks out a process that has stored the first window of
  the layout. There is one at most: the name is unique, and whoever comes later
  is refused at its first window. `Stores` says the windows are at every step
  exactly what that process has made so far, and `Stocked` that its ids are those
  of the library; `Tidy` adds that without such a process the tables are empty of
  windows or hold the whole layout.
* `ChangesAlwaysTold`. `Handling` says of every handler that it has told the hub
  of what it has stored but for what it is about to tell; `Housed` that its
  process keeps the hub open until the grace period is over.
* `RefusalsHarmless` and `SnapshotsCoherent`. `Informed` says that what a handler
  has found in the tables is still there, unless a table was cleared since it
  arrived: the window an item is added to, its media item, the media of the items
  a snapshot has read. That is why `Snapshot` may read the windows, the items and
  the media in this order and in no other.

### Model-checked only

Liveness, which the prover cannot do: `PollingConverges`, `BroadcastNeverStalls`,
`PublishReturns`, `ShutdownDrains`, `LostConnectionsAreForgotten`,
`EveryRenderEnds`, `EveryEditEnds`, `BootsEnd`, `RequestsAnswered` and
`EveryStartIsClosed`. And the five properties of the violation runs, which the
code does not have.

## 6. Findings

* `sync_race`: at READ COMMITTED, Create's UPDATE does not see an override whose
  transaction has not committed, so two starts can both stay live.
* `sync_stale_end`: the end announcement is published after `syncMu` is
  released and browsers do not compare its `syncId`, so it can take a newer
  override off every screen until it is over.
* `hub_hello`: a connection is registered before its greeting is queued;
  broadcasts can fill the queue first, and the greeting is dropped silently.
* `feed_converged`: snapshots and events do not say of which moment they are, and
  a browser applies them as they come. A GET /api/state that was read before an
  edit and answered after its event, or a greeting read before and queued behind
  it, puts the old playlist back on a screen; with a healthy socket nothing
  repairs it until the next edit. Two edits of one window that publish in the
  opposite order of their re-reads do the same to every screen.
* `boot_race`: the advisory lock covers `Migrate` only. Two servers that start
  together on an empty database both seed it: the media library is stored twice,
  and the second is refused a window name and exits.

Three things seen while modelling have no run of their own. With operators who do not
wait for each other, two starts may commit in one order and arm the timer in the
other, and a cancel may stop the timer of a start that came after it: a live
override is then without its announcement (`TimerFollowsLive` is about operators in
turn). Browsers take it off by its `end_at`. A seeding that dies
half way is never completed, since a later boot finds windows (`SeedsAreWhole`
excludes it by `torn`). After a video has failed, MediaPlayer shows a card in
its place; when the next occurrence brings the element back, the effect that
aligns it has run already, without an element, so that this occurrence is neither
sought to its place nor corrected when it drifts (`MediaPlayer.jsx:49-98`,
against `src/README.md:704-711`).

## 7. Plan

Every module of the plan is written, and every safety property that the runs check
is proved. What may follow is
to state what `PlaylistFeed` takes from `Hub` as a refinement of its own: an ordered
queue for each connection, that ends where the connection is cut.

## 8. Not modelled

Configuration (read once from the environment; what matters of it is a constant
or part of `env`), static assets, CORS, request logging and recovery from panics
keep no state. Routing by path and the decoding of JSON appear as calls that do
not decode. Texts are classes (empty, too long, with a NUL), and so are URLs: how
`url.Parse` tells them apart is Go's. The in-memory store of the tests is not part
of the program. React's rendering is left out, and so is the video element, which
follows the computed position. `-force` is in `Server` and not in `GlobalSync`,
whose rows are never deleted: a cancel whose row is gone when it is read back is
answered with nothing, and leaves the timer as one that fails does. A tab that the
browser suspends altogether looks at no clock and is not covered by
`LookInterval`; it is not on a screen either. The media list a browser keeps only grows, and no
property depends on its order. JavaScript numbers are exact integers here:
milliseconds stay far below 2^53.
