---------------------------- MODULE PlaylistFeed ----------------------------
(***************************************************************************)
(* How a change of a window's playlist reaches the open browsers.          *)
(*                                                                         *)
(* An edit commits, re-reads the window, and publishes what it read; the   *)
(* hub copies the event to every registered connection.  A browser also    *)
(* takes whole snapshots: the HELLO of a new connection, and answers to    *)
(* GET /api/state, which it asks for when it loads, when its socket opens, *)
(* after an edit of its own, and at intervals while the socket is not      *)
(* open.  Whatever arrives replaces what the browser has; nothing that     *)
(* arrives says of which moment it is.                                     *)
(*                                                                         *)
(* A playlist is its version: every commit makes the next one, 0 is a      *)
(* window that does not exist.  The transactions are those of              *)
(* PlaylistStore, the queues those of Hub.                                 *)
(***************************************************************************)
EXTENDS Integers, Sequences, FiniteSets

CONSTANTS
    Windows, Browsers,
    Edits,            \* POST, DELETE and PATCH requests that change a window
    Elsewhere,        \* the operator of an edit that comes from no browser here
    NoWindow,         \* the window of a request that has not begun or is over
    Requests,         \* the GET /api/state requests a browser may have in flight
    BroadcastBuffer,  \* the hub's queue
    SendBuffer,       \* a connection's queue
    Environments      \* the circumstances to check, one of which holds

ASSUME WindowsAssumption == NoWindow \notin Windows
ASSUME BrowsersAssumption == Elsewhere \notin Browsers
ASSUME BoundsAssumption ==
    /\ IsFiniteSet(Edits)
    /\ BroadcastBuffer \in Nat \ {0} /\ SendBuffer \in Nat \ {0}
    /\ Requests \subseteq Nat /\ 1 \in Requests

\* The windows that are edited, those of them that exist from the start, the edits
\* and concurrent requests there are, how often a browser connects, and what may
\* fail: database calls ("db"), connections ("net").
Environment == [windows : SUBSET Windows, first : SUBSET Windows, edits : SUBSET Edits,
                requests : SUBSET Requests, maxConnects : Nat, faults : SUBSET {"db", "net"}]

ASSUME EnvironmentsAssumption ==
    /\ Environments \subseteq Environment
    /\ \A e \in Environments : /\ e.first \subseteq e.windows /\ 1 \in e.requests
                              /\ e.maxConnects > 0

VARIABLES
    env,         \* the circumstances; they never change
    db,          \* the committed version of every window
    edit,        \* the handler of every edit
    broadcast,   \* Hub.broadcast
    registered,  \* the browsers whose connection is in Hub.clients
    greeting,    \* the handler of every browser's connection
    feed,        \* messages queued for a connection, or on the wire
    socket,      \* useWebSocket's status
    connects,    \* how many connections a browser has opened
    fetch,       \* a browser's GET /api/state requests
    view,        \* the state of useSequencerState: the version of every window
    greeted,     \* history: the HELLO of this connection has been applied
    contested,   \* history: windows whose last edit overlapped another or failed
    outdated     \* history: windows whose view is of a snapshot that an edit overtook

vars == <<env, db, edit, broadcast, registered, greeting, feed, socket, connects, fetch,
          view, greeted, contested, outdated>>

Versions == 0 .. Cardinality(Edits) + 1
Snapshot == [Windows -> Versions]
Nothing == [w \in Windows |-> 0]

Reader == [pc : {"idle", "register", "windows", "playlists", "answer"},
           known : SUBSET Windows, read : Snapshot, poll : BOOLEAN]
NewReader(pc, poll) == [pc |-> pc, known |-> {}, read |-> Nothing, poll |-> poll]
IdleReader == NewReader("idle", FALSE)

IdleEdit == [pc |-> "idle", by |-> Elsewhere, window |-> NoWindow, read |-> 0]

Changed(w, v) == [type |-> "PLAYLIST_UPDATED", window |-> w, version |-> v]
Hello(s) == [type |-> "HELLO", read |-> s]

\* The page has just been loaded: it fetches, and its socket connects.
Init ==
    /\ env \in Environments
    /\ db = [w \in Windows |-> IF w \in env.first THEN 1 ELSE 0]
    /\ edit = [e \in Edits |-> IdleEdit]
    /\ broadcast = <<>>
    /\ registered = {}
    /\ greeting = [b \in Browsers |-> NewReader("register", FALSE)]
    /\ feed = [b \in Browsers |-> <<>>]
    /\ socket = [b \in Browsers |-> "connecting"]
    /\ connects = [b \in Browsers |-> 1]
    /\ fetch = [b \in Browsers |->
                  [i \in Requests |-> IF i = 1 THEN NewReader("windows", FALSE) ELSE IdleReader]]
    /\ view = [b \in Browsers |-> Nothing]
    /\ greeted = [b \in Browsers |-> FALSE]
    /\ contested = {}
    /\ outdated = [b \in Browsers |-> {}]

-----------------------------------------------------------------------------
(* The server: edits.                                                      *)

Publishing(w) == {e \in Edits : edit[e].window = w /\ edit[e].pc \in {"reload", "publish"}}

\* The window has a new version, the operator an edit that must be announced.
Changes(e, w, by, step, contestants) ==
    /\ db' = [db EXCEPT ![w] = @ + 1]
    /\ edit' = [edit EXCEPT ![e] = [pc |-> step, by |-> by, window |-> w, read |-> db[w] + 1]]
    /\ contested' = IF contestants = {} THEN contested \ {w} ELSE contested \cup {w}
    /\ UNCHANGED <<env, broadcast, registered, greeting, feed, socket, connects, fetch, view,
                   greeted, outdated>>

\* AddPlaylistItem, RemovePlaylistItem, MovePlaylistItem: the transaction commits.
CommitEdit(e, w, by) ==
    /\ edit[e].pc = "idle" /\ db[w] > 0
    /\ Changes(e, w, by, "reload", Publishing(w))

\* CreateWindow publishes the row it inserted, not what it reads.
CreateWindow(e, w, by) ==
    /\ edit[e].pc = "idle" /\ db[w] = 0
    /\ Changes(e, w, by, "publish", Publishing(w))

\* publishPlaylist: the window is read again ...
ReloadWindow(e) ==
    /\ edit[e].pc = "reload"
    /\ edit' = [edit EXCEPT ![e].pc = "publish", ![e].read = db[edit[e].window]]
    /\ UNCHANGED <<env, db, broadcast, registered, greeting, feed, socket, connects, fetch, view,
                   greeted, contested, outdated>>

\* ... which may fail; the edit has been made all the same ...
ReloadFails(e) ==
    /\ "db" \in env.faults /\ edit[e].pc = "reload"
    /\ edit' = [edit EXCEPT ![e] = [IdleEdit EXCEPT !.pc = "done"]]
    /\ contested' = contested \cup {edit[e].window}
    /\ UNCHANGED <<env, db, broadcast, registered, greeting, feed, socket, connects, fetch, view,
                   greeted, outdated>>

\* ... and what was read is published, if the hub's queue has room in time.
Publish(e) ==
    /\ edit[e].pc = "publish"
    /\ edit' = [edit EXCEPT ![e].pc = "answer"]
    /\ \/ /\ Len(broadcast) < BroadcastBuffer
          /\ broadcast' = Append(broadcast, Changed(edit[e].window, edit[e].read))
          /\ UNCHANGED contested
       \/ /\ Len(broadcast) = BroadcastBuffer
          /\ contested' = contested \cup {edit[e].window}
          /\ UNCHANGED broadcast
    /\ UNCHANGED <<env, db, registered, greeting, feed, socket, connects, fetch, view, greeted,
                   outdated>>

\* One more request, in the first place that is free.
Idle(requests) == {i \in env.requests : requests[i].pc = "idle"}
Ask(requests, poll) ==
    LET i == CHOOSE i \in Idle(requests) : \A j \in Idle(requests) : i <= j
    IN  [requests EXCEPT ![i] = NewReader("windows", poll)]

\* The answer; the page of the operator refreshes (PlaylistManager.runAction).
Answer(e) ==
    /\ edit[e].pc = "answer"
    /\ edit' = [edit EXCEPT ![e] = [IdleEdit EXCEPT !.pc = "done"]]
    /\ LET b == edit[e].by
       IN  IF b = Elsewhere THEN UNCHANGED fetch
           ELSE Idle(fetch[b]) # {} /\ fetch' = [fetch EXCEPT ![b] = Ask(@, FALSE)]
    /\ UNCHANGED <<env, db, broadcast, registered, greeting, feed, socket, connects, view, greeted,
                   contested, outdated>>

-----------------------------------------------------------------------------
(* The server: connections and snapshots.                                  *)

\* Mutant: a connection without room is kept.
FanOutUnbounded ==
    /\ broadcast # <<>>
    /\ feed' = [b \in Browsers |-> IF b \in registered
                                  THEN Append(feed[b], Head(broadcast)) ELSE feed[b]]
    /\ broadcast' = Tail(broadcast)
    /\ UNCHANGED <<env, db, edit, registered, greeting, socket, connects, fetch, view, greeted,
                   contested, outdated>>

\* Hub.Run: the oldest event goes to every connection; one without room is dropped.
FanOut ==
    /\ broadcast # <<>>
    /\ LET full == {b \in registered : Len(feed[b]) >= SendBuffer}
       IN  /\ registered' = registered \ full
           /\ feed' = [b \in Browsers |-> IF b \in registered \ full
                                         THEN Append(feed[b], Head(broadcast)) ELSE feed[b]]
    /\ broadcast' = Tail(broadcast)
    /\ UNCHANGED <<env, db, edit, greeting, socket, connects, fetch, view, greeted, contested,
                   outdated>>

\* Handler: the connection is registered first, then greeted.
Register(b) ==
    /\ greeting[b].pc = "register"
    /\ registered' = registered \cup {b}
    /\ greeting' = [greeting EXCEPT ![b].pc = "windows"]
    /\ UNCHANGED <<env, db, edit, broadcast, feed, socket, connects, fetch, view, greeted,
                   contested, outdated>>

\* Snapshot: one query for the windows, then one for all playlists.
ReadSnapshot(r) ==
    IF r.pc = "windows"
    THEN [r EXCEPT !.pc = "playlists", !.known = {w \in Windows : db[w] > 0}]
    ELSE [r EXCEPT !.pc = "answer", !.known = {},
                   !.read = [w \in Windows |-> IF w \in r.known THEN db[w] ELSE 0]]

Reading(r) == r.pc \in {"windows", "playlists"}

Greet(b) ==
    /\ Reading(greeting[b])
    /\ greeting' = [greeting EXCEPT ![b] = ReadSnapshot(@)]
    /\ UNCHANGED <<env, db, edit, broadcast, registered, feed, socket, connects, fetch, view,
                   greeted, contested, outdated>>

\* Without a snapshot the greeting carries no windows, and no browser applies it.
GreetFails(b) ==
    /\ "db" \in env.faults /\ Reading(greeting[b])
    /\ greeting' = [greeting EXCEPT ![b] = IdleReader]
    /\ UNCHANGED <<env, db, edit, broadcast, registered, feed, socket, connects, fetch, view,
                   greeted, contested, outdated>>

\* Client.queue: the HELLO goes behind what was broadcast meanwhile, or nowhere.
QueueHello(b) ==
    /\ greeting[b].pc = "answer"
    /\ feed' = [feed EXCEPT ![b] = IF b \in registered /\ Len(@) < SendBuffer
                                   THEN Append(@, Hello(greeting[b].read)) ELSE @]
    /\ greeting' = [greeting EXCEPT ![b] = IdleReader]
    /\ UNCHANGED <<env, db, edit, broadcast, registered, socket, connects, fetch, view, greeted,
                   contested, outdated>>

\* The handler of GET /api/state.
ReadFetch(b, i) ==
    /\ Reading(fetch[b][i])
    /\ fetch' = [fetch EXCEPT ![b][i] = ReadSnapshot(@)]
    /\ UNCHANGED <<env, db, edit, broadcast, registered, greeting, feed, socket, connects, view,
                   greeted, contested, outdated>>

-----------------------------------------------------------------------------
(* The browser.                                                            *)

\* applySnapshot replaces every window.
ApplySnapshot(b, s) ==
    /\ view' = [view EXCEPT ![b] = s]
    /\ outdated' = [outdated EXCEPT ![b] = {w \in Windows : s[w] # db[w]}]

\* Mutant: a window the browser does not have is ignored.
UpsertKnown(b, w, v) ==
    /\ view' = [view EXCEPT ![b][w] = IF @ = 0 THEN 0 ELSE v]
    /\ outdated' = [outdated EXCEPT ![b] = @ \ {w}]

\* upsertWindow replaces one, or adds it.
UpsertWindow(b, w, v) ==
    /\ view' = [view EXCEPT ![b][w] = v]
    /\ outdated' = [outdated EXCEPT ![b] = @ \ {w}]

\* handleEvent takes the messages of the socket in their order.  The connection's
\* writer starts when the greeting has been queued.
HandleEvent(b) ==
    /\ socket[b] = "open" /\ feed[b] # <<>> /\ greeting[b].pc = "idle"
    /\ LET message == Head(feed[b])
       IN  \/ /\ message.type = "HELLO"
              /\ ApplySnapshot(b, message.read)
              /\ greeted' = [greeted EXCEPT ![b] = TRUE]
           \/ /\ message.type = "PLAYLIST_UPDATED"
              /\ UpsertWindow(b, message.window, message.version)
              /\ UNCHANGED greeted
    /\ feed' = [feed EXCEPT ![b] = Tail(@)]
    /\ UNCHANGED <<env, db, edit, broadcast, registered, greeting, socket, connects, fetch,
                   contested>>

\* The answer to a GET /api/state, whenever it comes.
ApplyFetch(b, i) ==
    /\ fetch[b][i].pc = "answer"
    /\ ApplySnapshot(b, fetch[b][i].read)
    /\ fetch' = [fetch EXCEPT ![b][i] = IdleReader]
    /\ UNCHANGED <<env, db, edit, broadcast, registered, greeting, feed, socket, connects, greeted,
                   contested>>

\* The request fails, or its answer is lost: the browser keeps what it has.
FetchFails(b, i) ==
    /\ \/ "db" \in env.faults /\ Reading(fetch[b][i])
       \/ "net" \in env.faults /\ fetch[b][i].pc = "answer"
    /\ fetch' = [fetch EXCEPT ![b][i] = IdleReader]
    /\ UNCHANGED <<env, db, edit, broadcast, registered, greeting, feed, socket, connects, view,
                   greeted, contested, outdated>>

\* onopen: polling ends, its requests are aborted, and the state is fetched once.
OpenSocket(b) ==
    /\ socket[b] = "connecting"
    /\ socket' = [socket EXCEPT ![b] = "open"]
    /\ LET kept == [i \in Requests |-> IF fetch[b][i].poll THEN IdleReader ELSE fetch[b][i]]
       IN  Idle(kept) # {} /\ fetch' = [fetch EXCEPT ![b] = Ask(kept, FALSE)]
    /\ UNCHANGED <<env, db, edit, broadcast, registered, greeting, feed, connects, view, greeted,
                   contested, outdated>>

\* Mutant: polling rests while the socket tries to connect.
PollWhileClosed(b) ==
    /\ socket[b] = "closed"
    /\ Idle(fetch[b]) # {}
    /\ fetch' = [fetch EXCEPT ![b] = Ask(@, TRUE)]
    /\ UNCHANGED <<env, db, edit, broadcast, registered, greeting, feed, socket, connects, view,
                   greeted, contested, outdated>>

\* The polling interval of a browser without an open socket.
Poll(b) ==
    /\ socket[b] # "open"
    /\ Idle(fetch[b]) # {}
    /\ fetch' = [fetch EXCEPT ![b] = Ask(@, TRUE)]
    /\ UNCHANGED <<env, db, edit, broadcast, registered, greeting, feed, socket, connects, view,
                   greeted, contested, outdated>>

\* The connection breaks, or the hub has dropped it; what was under way is lost.
Disconnect(b) ==
    /\ socket[b] # "closed"
    /\ "net" \in env.faults \/ (greeting[b].pc # "register" /\ b \notin registered)
    /\ socket' = [socket EXCEPT ![b] = "closed"]
    /\ registered' = registered \ {b}
    /\ greeting' = [greeting EXCEPT ![b] = IdleReader]
    /\ feed' = [feed EXCEPT ![b] = <<>>]
    /\ greeted' = [greeted EXCEPT ![b] = FALSE]
    /\ UNCHANGED <<env, db, edit, broadcast, connects, fetch, view, contested, outdated>>

\* The retry timer: a new connection, and on the server its handler.
Connect(b) ==
    /\ socket[b] = "closed" /\ connects[b] < env.maxConnects
    /\ socket' = [socket EXCEPT ![b] = "connecting"]
    /\ connects' = [connects EXCEPT ![b] = @ + 1]
    /\ greeting' = [greeting EXCEPT ![b] = NewReader("register", FALSE)]
    /\ UNCHANGED <<env, db, edit, broadcast, registered, feed, fetch, view, greeted, contested,
                   outdated>>

-----------------------------------------------------------------------------
EditStep(e) ==
    \/ \E w \in env.windows, by \in Browsers \cup {Elsewhere} :
          CommitEdit(e, w, by) \/ CreateWindow(e, w, by)
    \/ ReloadWindow(e) \/ ReloadFails(e) \/ Publish(e) \/ Answer(e)

ConnectionStep(b) == Register(b) \/ Greet(b) \/ GreetFails(b) \/ QueueHello(b)

FetchStep(b, i) == ReadFetch(b, i) \/ ApplyFetch(b, i) \/ FetchFails(b, i)

BrowserStep(b) == HandleEvent(b) \/ OpenSocket(b) \/ Poll(b) \/ Disconnect(b) \/ Connect(b)

Next ==
    \/ \E e \in env.edits : EditStep(e)
    \/ FanOut
    \/ \E b \in Browsers : ConnectionStep(b) \/ BrowserStep(b)
    \/ \E b \in Browsers, i \in Requests : FetchStep(b, i)

ReadsAt(b, pc) == \E i \in Requests : fetch[b][i].pc = pc /\ ReadFetch(b, i)
Applies(b) == \E i \in Requests : ApplyFetch(b, i)

\* The polling interval goes on, and a browser that keeps asking is not refused
\* for ever.  Nothing else is assumed: not of operators, handlers or the socket.
Spec ==
    /\ Init /\ [][Next]_vars
    /\ \A b \in Browsers :
          /\ WF_vars(Poll(b))
          /\ SF_vars(ReadsAt(b, "windows")) /\ SF_vars(ReadsAt(b, "playlists"))
          /\ SF_vars(Applies(b))

-----------------------------------------------------------------------------
\* Every variable has its type, and no queue is longer than its buffer.
TypeOK ==
    /\ db \in Snapshot
    /\ edit \in [Edits -> [pc : {"idle", "reload", "publish", "answer", "done"},
                           by : Browsers \cup {Elsewhere},
                           window : Windows \cup {NoWindow}, read : Versions]]
    /\ Len(broadcast) <= BroadcastBuffer
    /\ \A b \in Browsers : Len(feed[b]) <= SendBuffer
    /\ registered \subseteq Browsers
    /\ greeting \in [Browsers -> Reader]
    /\ socket \in [Browsers -> {"closed", "connecting", "open"}]
    /\ connects \in [Browsers -> 1 .. env.maxConnects]
    /\ fetch \in [Browsers -> [Requests -> Reader]]
    /\ view \in [Browsers -> Snapshot]
    /\ greeted \in [Browsers -> BOOLEAN]
    /\ contested \subseteq Windows
    /\ outdated \in [Browsers -> SUBSET Windows]

NoEditRuns == \A e \in Edits : edit[e].pc \in {"idle", "done"}

\* Nothing is on its way to browser b, whose connection is healthy.
Settled(b) ==
    /\ NoEditRuns /\ broadcast = <<>>
    /\ socket[b] = "open" /\ b \in registered /\ greeting[b].pc = "idle" /\ feed[b] = <<>>
    /\ \A i \in Requests : fetch[b][i].pc = "idle"

\* A browser with a healthy, greeted connection and nothing on its way shows
\* the committed playlist of every window, unless the last edits of the window
\* overlapped or failed half way, or what it shows is of a snapshot that was
\* out of date when it arrived.  Connections that were lost, and events that were
\* broadcast before the registration, or between it and the greeting, or
\* while an answer was on its way, do no lasting harm by themselves.
ConvergedUnlessRaced ==
    \A b \in Browsers : Settled(b) /\ greeted[b] =>
        \A w \in Windows \ (contested \cup outdated[b]) : view[b][w] = db[w]

\* A browser whose socket does not come back shows the committed playlists in
\* the end, by polling, whatever raced before and however many polls fail.
PollingConverges ==
    \A b \in Browsers :
        <>[](socket[b] # "open" /\ NoEditRuns) => <>[](view[b] = db)

\* What the README promises of every open browser.  (Two edits of a window may
\* publish in the opposite order of their commits, and a snapshot may be
\* older than the events it overtakes, so it does not hold.)
Converged == \A b \in Browsers : Settled(b) => view[b] = db
=============================================================================
