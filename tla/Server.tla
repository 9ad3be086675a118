------------------------------- MODULE Server -------------------------------
(***************************************************************************)
(* The HTTP API over the tables: the handlers of windows, media and        *)
(* playlists with the service behind them, statement by statement, in      *)
(* servers that boot, drain at SIGTERM, and die.                           *)
(*                                                                         *)
(* The handlers of syncs are GlobalSync.  What happens to a published      *)
(* event is Hub and PlaylistFeed; here it only matters whether an open hub *)
(* was given it.  Fields of a body that may be absent are sets of at most  *)
(* one value.                                                              *)
(***************************************************************************)
EXTENDS Boot

CONSTANTS Requests   \* HTTP requests, each made once

ASSUME RequestsAssumption == \A e \in Environments : e.requests \subseteq Requests
ASSUME CallsAssumption ==
    \A e \in Environments : \A c \in e.calls :
        /\ c.decodes /\ c.op \in {"createMedia", "add"} => \A a, b \in c.input : a = b
        /\ c.decodes /\ c.op = "move" => c.position \subseteq Int

VARIABLES req        \* the handler of each request

vars == <<env, tables, bootVars, req>>

Edits == {"add", "remove", "move"}

\* The calls of store that a handler makes, and its two calls of Publish.
Statements == {"insertWindow", "insertMedia", "findWindow", "findMedia", "edit", "readWindow",
               "readItems", "listWindows", "listItems", "listMedia", "liveSync"}
Publishes == {"publishMedia", "publish"}
Active == Statements \cup Publishes

\* read: the playlists it has read, by window; listed: the media; wrote and told:
\* history, what it has stored, and what it has told an open hub; overran: it
\* was still running when the grace period of a shutdown was over.
NewRequest == [pc |-> "idle", at |-> CHOOSE i \in Instances : TRUE, call |-> [op |-> "media"],
               window |-> 0, media |-> 0, item |-> 0, read |-> <<>>, listed |-> {}, wrote |-> {},
               told |-> {}, status |-> 0, faulted |-> FALSE, overran |-> FALSE, wipes |-> 0]

Init ==
    /\ env \in Environments
    /\ windows = <<>> /\ media = <<>>
    /\ serial = [window |-> 1, media |-> 1, item |-> 1]
    /\ wipes = 0
    /\ inst = [i \in Instances |-> NoProcess]
    /\ holder = Nobody /\ recorded = {} /\ applied = <<>>
    /\ boots = 0 /\ torn = FALSE
    /\ req = [r \in Requests |-> NewRequest]

Call(r) == req[r].call
Window(r) == req[r].window
Handler(r, handler) == req' = [req EXCEPT ![r] = handler]
Goto(r, pc) == [req[r] EXCEPT !.pc = pc]
Answer(r, status) == [req[r] EXCEPT !.pc = "done", !.status = status]

\* An open pool and an open hub: run's deferred calls have not been made.
PoolOpen(i) == inst[i].pc \in {"serving", "draining"}

\* Mutant: the hub is closed as soon as the shutdown begins.
HubOpenUntilSigterm(i) == inst[i].pc = "serving"

HubOpen(i) == inst[i].pc \in {"serving", "draining"}

Runs(r, pc) == req[r].pc = pc /\ PoolOpen(req[r].at)

Looked(r, handler) == Handler(r, handler) /\ UNCHANGED <<tables, bootVars>>

\* WriteServiceError on an error that the service did not make: 500, or 400 for
\* one that is io.EOF, as of a connection that was closed, which it takes for the
\* error of an empty body.  Health answers its own status.
FailureStatuses(c) == IF c.op = "health" THEN {503} ELSE {500, 400}

Faulted(r, status) == [Answer(r, status) EXCEPT !.faulted = TRUE]

\* The statement has stored something, which the handler may not learn, and
\* which processes that are seeding do not expect.
Stored(r, what, handler) ==
    /\ \E h \in {handler} \cup IF "db" \in env.faults
                               THEN {Faulted(r, status) : status \in FailureStatuses(Call(r))} ELSE {} :
          Handler(r, [h EXCEPT !.wrote = @ \cup {what}])
    /\ inst' = [j \in Instances |-> IF j \in Beside(req[r].at)
                                    THEN [inst[j] EXCEPT !.crowded = TRUE] ELSE inst[j]]
    /\ UNCHANGED <<holder, recorded, applied, boots, torn>>

-----------------------------------------------------------------------------
(* A request arrives.                                                      *)

\* What a handler refuses before it looks at the tables.
Invalid(c) ==
    \/ c.op = "createWindow" /\ ~ValidName(TrimSpace(c.name))
    \/ c.op = "createMedia" /\ \A in \in c.input : ~Validate(Normalize(in))
    \/ c.op = "move" /\ (c.position = {} \/ \E p \in c.position : p < 0)

\* The statements of a read, or of the re-reading of an edited window.
\* Mutant: Snapshot lists the media before the windows.
QueriesMediaFirst(op) ==
    CASE op \in {"state", "health"} -> <<"listMedia", "listWindows", "listItems", "liveSync">>
      [] op = "windows" -> <<"listWindows", "listItems">>
      [] op = "media" -> <<"listMedia">>
      [] op = "playlist" -> <<"findWindow", "readItems">>
      [] op = "current" -> <<"readWindow", "readItems", "liveSync">>
      [] OTHER -> <<"readWindow", "readItems">>

Queries(op) ==
    CASE op \in {"state", "health"} -> <<"listWindows", "listItems", "listMedia", "liveSync">>
      [] op = "windows" -> <<"listWindows", "listItems">>
      [] op = "media" -> <<"listMedia">>
      [] op = "playlist" -> <<"findWindow", "readItems">>
      [] op = "current" -> <<"readWindow", "readItems", "liveSync">>
      [] OTHER -> <<"readWindow", "readItems">>

FirstStep(op) ==
    CASE op = "createWindow" -> "insertWindow" [] op = "createMedia" -> "insertMedia"
      [] op = "add" -> "findWindow" [] op \in {"remove", "move"} -> "edit"
      [] OTHER -> Head(Queries(op))

\* The statement after this one, or the answer; an edit is published first.
Onward(r) ==
    LET queries == Queries(Call(r).op)
        k == CHOOSE k \in DOMAIN queries : queries[k] = req[r].pc
    IN  IF k < Len(queries) THEN Goto(r, queries[k + 1])
        ELSE IF Call(r).op \in Edits THEN Goto(r, "publish") ELSE Answer(r, 200)

\* PathID and DecodeJSON; a call that they refuse has no fields.
BadRequest(c) == ~c.decodes

Arrive(r, i, c) ==
    /\ req[r].pc = "idle" /\ inst[i].pc = "serving"
    /\ LET h == [NewRequest EXCEPT !.at = i, !.call = c, !.wipes = wipes,
                                   !.window = IF "window" \in DOMAIN c THEN c.window ELSE 0,
                                   !.item = IF "item" \in DOMAIN c THEN c.item ELSE 0]
       IN  Handler(r, IF BadRequest(c) THEN [h EXCEPT !.pc = "done", !.status = 400]
                      ELSE IF Invalid(c) THEN [h EXCEPT !.pc = "done", !.status = 422]
                      ELSE [h EXCEPT !.pc = FirstStep(c.op)])
    /\ UNCHANGED <<tables, bootVars>>

-----------------------------------------------------------------------------
(* Changes.                                                                *)

CreateWindow(r) ==
    /\ Runs(r, "insertWindow")
    /\ LET name == TrimSpace(Call(r).name)
       IN  \/ /\ StorableName(name) /\ ~NameTaken(name)
              /\ InsertWindow(name)
              /\ Stored(r, "window", [Goto(r, "publish") EXCEPT !.window = serial.window])
           \/ /\ ~StorableName(name) \/ NameTaken(name)
              /\ Looked(r, Answer(r, 500))

\* The media of a call, inline or not.
Input(c) == Normalize(CHOOSE in \in c.input : TRUE)

CreateMedia(r) ==
    /\ Runs(r, "insertMedia")
    /\ LET in == Input(Call(r))
       IN  \/ /\ StorableMedia(in)
              /\ InsertMedia(in)
              /\ Stored(r, "media", [Goto(r, "publishMedia") EXCEPT !.media = serial.media])
           \/ ~StorableMedia(in) /\ Looked(r, Answer(r, 500))

Tell(r, what, handler) ==
    Looked(r, [handler EXCEPT !.told = IF HubOpen(req[r].at) THEN @ \cup {what} ELSE @])

PublishMedia(r) ==
    /\ req[r].pc = "publishMedia"
    /\ Tell(r, "media", IF Call(r).op = "add" THEN Goto(r, "edit") ELSE Answer(r, 201))

\* resolveMedia: what is wanted, a media item that exists or a new one.
ResolveMedia(r) ==
    LET c == Call(r)
    IN  IF (c.mediaId = {}) = (c.input = {}) THEN Answer(r, 422)
        ELSE IF c.input = {} THEN Goto(r, "findMedia")
        ELSE IF Validate(Input(c)) THEN Goto(r, "insertMedia") ELSE Answer(r, 422)

\* Mutant: the media item is made first, and the window looked for afterwards.
AppendToUnseenWindow(r) ==
    /\ Runs(r, "findWindow")
    /\ Looked(r, IF Call(r).op = "add" THEN ResolveMedia(r)
                 ELSE IF Window(r) \in Rows(windows) THEN Onward(r) ELSE Answer(r, 404))

FindWindow(r) ==
    /\ Runs(r, "findWindow")
    /\ Looked(r, IF Window(r) \notin Rows(windows) THEN Answer(r, 404)
                 ELSE IF Call(r).op = "add" THEN ResolveMedia(r) ELSE Onward(r))

FindMedia(r) ==
    /\ Runs(r, "findMedia")
    /\ LET m == CHOOSE m \in Call(r).mediaId : TRUE
       IN  Looked(r, IF m \in Rows(media) THEN [Goto(r, "edit") EXCEPT !.media = m]
                     ELSE Answer(r, 422))

\* The transaction on the playlist.
EditPlaylist(r) ==
    /\ Runs(r, "edit")
    /\ LET w == Window(r)
           op == Call(r).op
           item == req[r].item
       IN  \/ /\ w \notin Rows(windows) \/ (op # "add" /\ ~HasItem(w, item))
              /\ Looked(r, Answer(r, 404))
           \/ /\ op = "add" /\ w \in Rows(windows) /\ req[r].media \notin Rows(media)
              /\ Looked(r, Answer(r, 500))
           \/ /\ op = "add" /\ w \in Rows(windows) /\ req[r].media \in Rows(media)
              /\ AppendItem(w, req[r].media)
              /\ Stored(r, "playlist", [Goto(r, "readWindow") EXCEPT !.item = serial.item])
           \/ /\ op = "remove" /\ HasItem(w, item)
              /\ RemoveItem(w, item)
              /\ Stored(r, "playlist", Goto(r, "readWindow"))
           \/ /\ op = "move" /\ HasItem(w, item)
              /\ \E p \in Call(r).position : MoveItem(w, item, p)
              /\ Stored(r, "playlist", Goto(r, "readWindow"))

\* publishPlaylist, and CreateWindow's own event.
Publish(r) ==
    /\ req[r].pc = "publish"
    /\ LET op == Call(r).op
       IN  Tell(r, IF op = "createWindow" THEN "window" ELSE "playlist",
                   Answer(r, IF op \in {"createWindow", "add"} THEN 201 ELSE 200))

-----------------------------------------------------------------------------
(* Reads.                                                                  *)

ReadWindow(r) ==
    /\ Runs(r, "readWindow")
    /\ Looked(r, IF Window(r) \in Rows(windows) THEN Onward(r) ELSE Answer(r, 404))

ReadItems(r) ==
    /\ Runs(r, "readItems")
    /\ Looked(r, [Onward(r) EXCEPT !.read = [w \in {Window(r)} |-> Items(w)]])

\* WindowsWithPlaylists: the windows, then all items; those of a window that was
\* not listed are left out.
ListWindows(r) ==
    /\ Runs(r, "listWindows")
    /\ Looked(r, [Onward(r) EXCEPT !.read = [w \in Rows(windows) |-> <<>>]])

ListItems(r) ==
    /\ Runs(r, "listItems")
    /\ Looked(r, [Onward(r) EXCEPT !.read = [w \in DOMAIN @ |-> Items(w)]])

ListMedia(r) ==
    /\ Runs(r, "listMedia")
    /\ Looked(r, [Onward(r) EXCEPT !.listed = Rows(media)])

\* LiveSync; a sync that is not there is no error.
LiveSync(r) == Runs(r, "liveSync") /\ Looked(r, Onward(r))

\* A statement fails: the database, a client that has gone, a closed pool.
StatementFails(r) ==
    /\ req[r].pc \in Statements
    /\ "db" \in env.faults \/ ~PoolOpen(req[r].at)
    /\ \E status \in FailureStatuses(Call(r)) : Looked(r, Faulted(r, status))

-----------------------------------------------------------------------------
(* The end of a process.                                                   *)

In(i) == {r \in Requests : req[r].at = i /\ req[r].pc \in Active}
Lose(i) == req' = [r \in Requests |-> IF r \in In(i) THEN Goto(r, "lost") ELSE req[r]]

Sigterm(i) ==
    /\ "sigterm" \in env.faults /\ At(i, "serving")
    /\ Proceed(i, [inst[i] EXCEPT !.pc = "draining"])
    /\ UNCHANGED <<tables, holder, recorded, applied, boots, torn, req>>

\* Shutdown waits for the requests under way; then the timer, the hub and the pool
\* are stopped.
Drained(i) ==
    /\ At(i, "draining") /\ In(i) = {}
    /\ Proceed(i, [NoProcess EXCEPT !.pc = "done"])
    /\ UNCHANGED <<tables, holder, recorded, applied, boots, torn, req>>

\* ... unless they take longer than shutdownGrace: all is closed around them.
Overrun(i) ==
    /\ Proceed(i, [inst[i] EXCEPT !.pc = "overrun"])
    /\ req' = [r \in Requests |-> IF r \in In(i) THEN [req[r] EXCEPT !.overran = TRUE] ELSE req[r]]
    /\ UNCHANGED <<tables, holder, recorded, applied, boots, torn>>

GraceOver(i) == At(i, "draining") /\ In(i) # {} /\ Overrun(i)

\* The listener fails, and run returns its error without a Shutdown.
ServeFails(i) == "crash" \in env.faults /\ At(i, "serving") /\ Overrun(i)

Exit(i) ==
    /\ At(i, "overrun")
    /\ Proceed(i, [NoProcess EXCEPT !.pc = "done"])
    /\ Lose(i)
    /\ UNCHANGED <<tables, holder, recorded, applied, boots, torn>>

\* The process is killed, at any instant: nothing deferred is run.
Crash(i) ==
    /\ "crash" \in env.faults /\ inst[i].pc \notin {"off", "failed", "done"}
    /\ Fail(i, TRUE)
    /\ Lose(i)
    /\ UNCHANGED <<tables, recorded, applied, boots>>

-----------------------------------------------------------------------------
Booting(i) == BootStep(i) /\ UNCHANGED <<env, req>>

Process(i) ==
    \/ Booting(i)
    \/ (\E kind \in env.kinds : Start(i, kind)) /\ UNCHANGED <<env, req>>
    \/ BootFails(i) /\ UNCHANGED <<env, req>>
    \/ (Sigterm(i) \/ Drained(i) \/ GraceOver(i) \/ ServeFails(i) \/ Exit(i) \/ Crash(i))
       /\ UNCHANGED env

Serving(r) ==
    \/ CreateWindow(r) \/ CreateMedia(r) \/ PublishMedia(r) \/ FindWindow(r) \/ FindMedia(r)
    \/ EditPlaylist(r) \/ Publish(r)
    \/ ReadWindow(r) \/ ReadItems(r) \/ ListWindows(r) \/ ListItems(r) \/ ListMedia(r)
    \/ LiveSync(r) \/ StatementFails(r)

Next ==
    \/ \E i \in Instances : Process(i)
    \/ \E r \in env.requests, i \in Instances, c \in env.calls : Arrive(r, i, c) /\ UNCHANGED env
    \/ \E r \in Requests : Serving(r) /\ UNCHANGED env

\* A process that can go on goes on.  Nobody has to start one or ask anything.
Spec == Init /\ [][Next]_vars /\ \A i \in Instances : WF_vars(Booting(i))

-----------------------------------------------------------------------------
\* The tables keep their constraints, and every process and request is in one of
\* its states.
TypeOK ==
    /\ TablesOK
    /\ \A i \in Instances :
          /\ inst[i].pc \in {"off", "done", "failed", "connect", "lock", "check", "apply", "unlock",
                             "count", "restore", "serving", "draining", "overrun"}
                               \cup Wiping \cup Seeding
          /\ inst[i].step \in 0 .. Migrations + Len(Library) + Len(Layout)
    /\ holder \in Instances \cup {Nobody}
    /\ \A r \in Requests : /\ req[r].pc \in Active \cup {"idle", "done", "lost"}
                           /\ req[r].status \in {0, 200, 201, 400, 404, 422, 500, 503}

\* Every migration's statements have been committed once, in order, and are
\* recorded, whatever boots have raced, failed or died.
MigrationsAppliedOnce ==
    /\ applied = [k \in 1 .. Len(applied) |-> k]
    /\ recorded = 1 .. Len(applied)

\* A process fails to boot only if a call failed, or if another process or an
\* operator wrote to the tables while it was seeding them.
BootFailuresAreNamed ==
    \A i \in Instances : At(i, "failed") => inst[i].faulted \/ inst[i].crowded

\* Where only processes that seed write to the tables, and none of them was cut
\* short or ran beside a -force, the windows are those of the layout with
\* their items, however many processes seeded at once.
SeedsAreWhole ==
    LET Shows(w, n) == /\ windows[w].name = Layout[n].name
                       /\ Len(Items(w)) = Len(Layout[n].items)
                       /\ \A k \in DOMAIN Items(w) :
                             media[Items(w)[k].media] = Normalize(Library[Layout[n].items[k]])
    IN  env.calls = {} /\ ~torn /\ windows # <<>>
          /\ (\A i \in Instances : inst[i].pc \notin Wiping \cup Seeding) =>
              /\ Cardinality(Rows(windows)) = Len(Layout)
              /\ \A n \in DOMAIN Layout : \E w \in Rows(windows) : Shows(w, n)

\* No process waits for ever for the advisory lock, however the others end.
BootsEnd == \A i \in Instances : At(i, "lock") ~> ~At(i, "lock")

\* A wipe has been under way since the request arrived.
Wiped(r) == wipes # req[r].wipes

\* Unless a call failed or the tables were cleared meanwhile, a request that is
\* refused has stored nothing, not even the media item of an inline body, and
\* the server reports an error of its own only for a name that is taken or a
\* text that PostgreSQL cannot hold.
RefusalsAreHarmless ==
    \A r \in Requests : req[r].status >= 400 /\ ~req[r].faulted /\ ~Wiped(r) =>
        /\ req[r].wrote = {}
        /\ req[r].status >= 500 =>
              \/ /\ Call(r).op = "createWindow"
                 /\ LET name == TrimSpace(Call(r).name)
                    IN  NameTaken(name) \/ name \in Nul
              \/ /\ Call(r).op \in {"createMedia", "add"} /\ Call(r).input # {}
                 /\ LET in == Input(Call(r)) IN in.name \in Nul \/ in.url = "nul"

\* A change that an operator was told of has been given to an open hub, event by
\* event, even while the server was shutting down, unless it outlasted the grace.
ChangesAreTold ==
    \A r \in Requests : req[r].status \in {200, 201} /\ ~req[r].overran => req[r].told = req[r].wrote

\* The media of every item in a snapshot are in the snapshot, whatever was added
\* while its queries ran.
SnapshotsCohere ==
    \A r \in Requests : Call(r).op \in {"state", "health"} /\ req[r].status = 200 /\ ~Wiped(r) =>
        \A w \in DOMAIN req[r].read : \A k \in DOMAIN req[r].read[w] :
            req[r].read[w][k].media \in req[r].listed

\* "Two Render instances starting together cannot race": without failures, every
\* process boots.  (Seeding is under no lock, so it does not hold.)
BootsDoNotRace == \A i \in Instances : ~At(i, "failed")
=============================================================================
