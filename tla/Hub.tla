-------------------------------- MODULE Hub --------------------------------
(***************************************************************************)
(* The WebSocket hub and its clients: the goroutine that owns the client   *)
(* set, the handler that registers and greets a connection, the two pumps  *)
(* of each connection, and the callers of Publish.                         *)
(*                                                                         *)
(* register and unregister are unbuffered channels: a send and the hub's   *)
(* receive are one step, possible only while the hub is in its select.     *)
(* A broadcast is one step per client, so pumps run between them.          *)
(***************************************************************************)
EXTENDS Integers, Sequences, FiniteSets

CONSTANTS
    Conns,            \* names of connections
    Events,           \* names of calls of Publish
    SendBuffer,       \* clientSendBuffer
    BroadcastBuffer,  \* capacity of Hub.broadcast
    Environments      \* the circumstances to check, one of which holds

ASSUME BuffersAssumption == SendBuffer \in Nat \ {0} /\ BroadcastBuffer \in Nat \ {0}
ASSUME MessagesAssumption == Events \cap {"HELLO", "PONG"} = {}

\* The connections and the calls of Publish that may be made, and a bound on the
\* PINGs one browser sends.
ASSUME EnvironmentsAssumption ==
    Environments \subseteq [conns : SUBSET Conns, events : SUBSET Events, maxPings : Nat]

VARIABLES
    env,        \* the circumstances; they never change
    hub,        \* the Run goroutine: where it is, and the fan-out under way
    clients,    \* Hub.clients
    broadcast,  \* Hub.broadcast
    done,       \* whether Hub.done is closed
    publisher,  \* where each Publish call is
    handler,    \* where each connection's HTTP handler is
    reader,     \* where each connection's readPump is
    writer,     \* where each connection's writePump is
    open,       \* whether the connection's socket is open on this side
    send,       \* Client.send
    closed,     \* whether Client.closed is closed
    pings,      \* PINGs received from the connection
    delivered,  \* messages written to the socket, in order
    fanned,     \* history: the events the hub has taken from broadcast
    joined      \* history: how many of them preceded the registration

hubVars == <<env, hub, clients, broadcast, done, fanned, joined>>
connVars == <<handler, reader, writer, open, send, closed, pings, delivered>>
vars == <<hubVars, publisher, connVars>>

InSelect == [pc |-> "select", todo |-> {}]
Stopped == [pc |-> "stopped", todo |-> {}]

Init ==
    /\ env \in Environments
    /\ hub = InSelect
    /\ clients = {}
    /\ broadcast = <<>>
    /\ done = FALSE
    /\ publisher = [e \in Events |-> "new"]
    /\ handler = [c \in Conns |-> "none"]
    /\ reader = [c \in Conns |-> "none"]
    /\ writer = [c \in Conns |-> "none"]
    /\ open = [c \in Conns |-> FALSE]
    /\ send = [c \in Conns |-> <<>>]
    /\ closed = [c \in Conns |-> FALSE]
    /\ pings = [c \in Conns |-> 0]
    /\ delivered = [c \in Conns |-> <<>>]
    /\ fanned = <<>>
    /\ joined = [c \in Conns |-> 0]

-----------------------------------------------------------------------------
(* Publish, and Close.                                                     *)

\* A caller marshals its event and enters the select of Publish.
CallPublish(e) ==
    /\ e \in env.events
    /\ publisher[e] = "new"
    /\ publisher' = [publisher EXCEPT ![e] = "sending"]
    /\ UNCHANGED <<hubVars, connVars>>

Enqueue(e) ==
    /\ publisher[e] = "sending"
    /\ Len(broadcast) < BroadcastBuffer
    /\ broadcast' = Append(broadcast, e)
    /\ publisher' = [publisher EXCEPT ![e] = "queued"]
    /\ UNCHANGED <<env, hub, clients, done, fanned, joined, connVars>>

\* Mutant: the send on broadcast has no way out.
NeverGiveUp(e) ==
    /\ publisher[e] = "sending"
    /\ Len(broadcast) > BroadcastBuffer
    /\ UNCHANGED vars

\* The hub is done, or the queue stayed full for a second: the event is lost.
GiveUp(e) ==
    /\ publisher[e] = "sending"
    /\ done \/ Len(broadcast) = BroadcastBuffer
    /\ publisher' = [publisher EXCEPT ![e] = "dropped"]
    /\ UNCHANGED <<hubVars, connVars>>

Close ==
    /\ ~done
    /\ done' = TRUE
    /\ UNCHANGED <<env, hub, clients, broadcast, fanned, joined, publisher, connVars>>

-----------------------------------------------------------------------------
(* Run.                                                                    *)

\* case message := <-h.broadcast
TakeBroadcast ==
    /\ hub.pc = "select"
    /\ broadcast # <<>>
    /\ fanned' = Append(fanned, Head(broadcast))
    /\ broadcast' = Tail(broadcast)
    /\ hub' = [pc |-> "fanout", todo |-> clients]
    /\ UNCHANGED <<env, clients, done, joined, publisher, connVars>>

\* Mutant: the send buffer has no bound.
FanOutUnbounded(c) ==
    /\ hub.pc = "fanout"
    /\ c \in hub.todo
    /\ hub' = [hub EXCEPT !.todo = @ \ {c}]
    /\ send' = [send EXCEPT ![c] = Append(@, fanned[Len(fanned)])]
    /\ UNCHANGED <<env, clients, broadcast, done, fanned, joined, publisher,
                   handler, reader, writer, open, closed, pings, delivered>>

\* Mutant: a client with a full queue misses the message and stays.
FanOutSkipping(c) ==
    /\ hub.pc = "fanout"
    /\ c \in hub.todo
    /\ hub' = [hub EXCEPT !.todo = @ \ {c}]
    /\ send' = [send EXCEPT ![c] =
                  IF Len(@) < SendBuffer THEN Append(@, fanned[Len(fanned)]) ELSE @]
    /\ UNCHANGED <<env, clients, broadcast, done, fanned, joined, publisher,
                   handler, reader, writer, open, closed, pings, delivered>>

\* Mutant: the hub waits for room in the client's queue.
FanOutWaiting(c) ==
    /\ Len(send[c]) < SendBuffer
    /\ FanOutUnbounded(c)

\* The message is queued for the next client of the map, or the client, whose
\* queue is full, is dropped.
FanOut(c) ==
    /\ hub.pc = "fanout"
    /\ c \in hub.todo
    /\ hub' = [hub EXCEPT !.todo = @ \ {c}]
    /\ IF Len(send[c]) < SendBuffer
       THEN /\ send' = [send EXCEPT ![c] = Append(@, fanned[Len(fanned)])]
            /\ UNCHANGED <<clients, closed>>
       ELSE /\ clients' = clients \ {c}
            /\ closed' = [closed EXCEPT ![c] = TRUE]
            /\ UNCHANGED send
    /\ UNCHANGED <<env, broadcast, done, fanned, joined, publisher,
                   handler, reader, writer, open, pings, delivered>>

FanOutEnds ==
    /\ hub.pc = "fanout"
    /\ hub.todo = {}
    /\ hub' = InSelect
    /\ UNCHANGED <<env, clients, broadcast, done, fanned, joined, publisher, connVars>>

\* case <-h.done
Stop ==
    /\ hub.pc = "select"
    /\ done
    /\ hub' = Stopped
    /\ clients' = {}
    /\ closed' = [c \in Conns |-> closed[c] \/ c \in clients]
    /\ UNCHANGED <<env, broadcast, done, fanned, joined, publisher,
                   handler, reader, writer, open, send, pings, delivered>>

-----------------------------------------------------------------------------
(* Handler.                                                                *)

Upgrade(c) ==
    /\ c \in env.conns
    /\ handler[c] = "none"
    /\ handler' = [handler EXCEPT ![c] = "registering"]
    /\ open' = [open EXCEPT ![c] = TRUE]
    /\ UNCHANGED <<hubVars, publisher, reader, writer, send, closed, pings, delivered>>

\* The handler's h.register <- client meets the hub's case <-h.register.
Register(c) ==
    /\ handler[c] = "registering"
    /\ hub.pc = "select"
    /\ clients' = clients \cup {c}
    /\ joined' = [joined EXCEPT ![c] = Len(fanned)]
    /\ handler' = [handler EXCEPT ![c] = "greeting"]
    /\ UNCHANGED <<env, hub, broadcast, done, fanned, publisher,
                   reader, writer, open, send, closed, pings, delivered>>

RefuseStopped(c) ==
    /\ handler[c] = "registering"
    /\ done
    /\ handler' = [handler EXCEPT ![c] = "returned"]
    /\ open' = [open EXCEPT ![c] = FALSE]
    /\ UNCHANGED <<hubVars, publisher, reader, writer, send, closed, pings, delivered>>

\* Mutant: the oldest message makes room.
QueueEvicting(c, message) ==
    send' = [send EXCEPT ![c] =
               Append(IF Len(@) < SendBuffer THEN @ ELSE Tail(@), message)]

\* Client.queue: never blocks; a message that finds no room is lost.
Queue(c, message) ==
    \/ Len(send[c]) < SendBuffer /\ send' = [send EXCEPT ![c] = Append(@, message)]
    \/ (Len(send[c]) = SendBuffer \/ closed[c]) /\ UNCHANGED send

\* greet, then the two go statements.
Greet(c) ==
    /\ handler[c] = "greeting"
    /\ Queue(c, "HELLO")
    /\ handler' = [handler EXCEPT ![c] = "returned"]
    /\ reader' = [reader EXCEPT ![c] = "reading"]
    /\ writer' = [writer EXCEPT ![c] = "writing"]
    /\ UNCHANGED <<hubVars, publisher, open, closed, pings, delivered>>

-----------------------------------------------------------------------------
(* readPump.                                                               *)

ReadPing(c) ==
    /\ reader[c] = "reading" /\ open[c]
    /\ pings[c] < env.maxPings
    /\ pings' = [pings EXCEPT ![c] = @ + 1]
    /\ Queue(c, "PONG")
    /\ UNCHANGED <<hubVars, publisher, handler, reader, writer, open, closed, delivered>>

\* ReadMessage fails: this side closed the socket, or the browser left or has
\* been silent for pongWait.
ReadFails(c) ==
    /\ reader[c] = "reading"
    /\ reader' = [reader EXCEPT ![c] = "leaving"]
    /\ UNCHANGED <<hubVars, publisher, handler, writer, open, send, closed, pings, delivered>>

\* Mutant: the client leaves the map and is not told.
UnregisterSilently(c) ==
    /\ reader[c] = "leaving"
    /\ hub.pc = "select"
    /\ clients' = clients \ {c}
    /\ reader' = [reader EXCEPT ![c] = "closing"]
    /\ UNCHANGED <<env, hub, broadcast, done, fanned, joined, publisher,
                   handler, writer, open, send, closed, pings, delivered>>

\* The deferred h.unregister <- c meets the hub's case <-h.unregister.
Unregister(c) ==
    /\ reader[c] = "leaving"
    /\ hub.pc = "select"
    /\ clients' = clients \ {c}
    /\ closed' = [closed EXCEPT ![c] = @ \/ c \in clients]
    /\ reader' = [reader EXCEPT ![c] = "closing"]
    /\ UNCHANGED <<env, hub, broadcast, done, fanned, joined, publisher,
                   handler, writer, open, send, pings, delivered>>

\* Mutant: the send on unregister does not watch done.
NeverLeaveStopped(c) ==
    /\ reader[c] = "leaving"
    /\ hub.pc = "none"
    /\ UNCHANGED vars

LeaveStopped(c) ==
    /\ reader[c] = "leaving"
    /\ done
    /\ reader' = [reader EXCEPT ![c] = "closing"]
    /\ UNCHANGED <<hubVars, publisher, handler, writer, open, send, closed, pings, delivered>>

ReaderExits(c) ==
    /\ reader[c] = "closing"
    /\ reader' = [reader EXCEPT ![c] = "exited"]
    /\ open' = [open EXCEPT ![c] = FALSE]
    /\ UNCHANGED <<hubVars, publisher, handler, writer, send, closed, pings, delivered>>

-----------------------------------------------------------------------------
(* writePump: a select over send, closed and the ping ticker.              *)

\* Mutant: the writer leaves the socket open.
WriterExitsQuietly(c) ==
    /\ writer' = [writer EXCEPT ![c] = "exited"]
    /\ UNCHANGED <<hubVars, publisher, handler, reader, open, closed, pings>>

WriterExits(c) ==
    /\ writer' = [writer EXCEPT ![c] = "exited"]
    /\ open' = [open EXCEPT ![c] = FALSE]
    /\ UNCHANGED <<hubVars, publisher, handler, reader, closed, pings>>

WriteMessage(c) ==
    /\ writer[c] = "writing" /\ open[c]
    /\ send[c] # <<>>
    /\ delivered' = [delivered EXCEPT ![c] = Append(@, Head(send[c]))]
    /\ send' = [send EXCEPT ![c] = Tail(@)]
    /\ UNCHANGED <<hubVars, publisher, handler, reader, writer, open, closed, pings>>

\* The write fails or runs into writeWait; its message is lost.
WriteFails(c) ==
    /\ writer[c] = "writing"
    /\ send[c] # <<>>
    /\ send' = [send EXCEPT ![c] = Tail(@)]
    /\ WriterExits(c)
    /\ UNCHANGED delivered

SayGoodbye(c) ==
    /\ writer[c] = "writing"
    /\ closed[c]
    /\ WriterExits(c)
    /\ UNCHANGED <<send, delivered>>

\* A ping that can be written changes nothing.
PingFails(c) ==
    /\ writer[c] = "writing"
    /\ WriterExits(c)
    /\ UNCHANGED <<send, delivered>>

-----------------------------------------------------------------------------
HubStep == TakeBroadcast \/ (\E c \in Conns : FanOut(c)) \/ FanOutEnds \/ Stop

HandlerStep(c) == Register(c) \/ RefuseStopped(c) \/ Greet(c)

LeaveStep(c) == Unregister(c) \/ LeaveStopped(c) \/ ReaderExits(c)

Next ==
    \/ \E e \in Events : CallPublish(e) \/ Enqueue(e) \/ GiveUp(e)
    \/ Close
    \/ HubStep
    \/ \E c \in Conns :
        \/ Upgrade(c) \/ HandlerStep(c)
        \/ ReadPing(c) \/ ReadFails(c) \/ LeaveStep(c)
        \/ WriteMessage(c) \/ WriteFails(c) \/ SayGoodbye(c) \/ PingFails(c)

Spec == Init /\ [][Next]_vars

\* The hub's goroutine runs: select takes what is ready and FanOut never waits.
HubFairness == WF_vars(HubStep) /\ \A e \in Events : WF_vars(Enqueue(e) \/ GiveUp(e))

\* The goroutines of a connection run.  Nothing makes a browser talk, stay or
\* leave, and nothing makes its network take a message.
ConnFairness ==
    \A c \in Conns :
        /\ WF_vars(HandlerStep(c))
        /\ WF_vars(LeaveStep(c))
        /\ WF_vars(~open[c] /\ ReadFails(c))
        /\ WF_vars(SayGoodbye(c))
        /\ WF_vars(~open[c] /\ PingFails(c))

FairSpec == Spec /\ HubFairness /\ ConnFairness

-----------------------------------------------------------------------------
(* Properties.                                                             *)

Messages == Events \cup {"HELLO", "PONG"}

\* Every variable has its type, and no channel holds more than its capacity.
TypeOK ==
    /\ env \in Environments
    /\ hub \in [pc : {"select", "fanout", "stopped"}, todo : SUBSET Conns]
    /\ clients \subseteq Conns
    /\ broadcast \in Seq(Events) /\ Len(broadcast) <= BroadcastBuffer
    /\ done \in BOOLEAN
    /\ publisher \in [Events -> {"new", "sending", "queued", "dropped"}]
    /\ handler \in [Conns -> {"none", "registering", "greeting", "returned"}]
    /\ reader \in [Conns -> {"none", "reading", "leaving", "closing", "exited"}]
    /\ writer \in [Conns -> {"none", "writing", "exited"}]
    /\ open \in [Conns -> BOOLEAN]
    /\ send \in [Conns -> Seq(Messages)]
    /\ \A c \in Conns : Len(send[c]) <= SendBuffer
    /\ closed \in [Conns -> BOOLEAN]
    /\ pings \in [Conns -> 0..env.maxPings]
    /\ delivered \in [Conns -> Seq(Messages)]
    /\ fanned \in Seq(Events)
    /\ joined \in [Conns -> Nat]

\* How many of the first k messages of s are events.
EventsUpTo(s, k) == Cardinality({j \in 1 .. k : s[j] \in Events})

\* The events in s are, in the hub's order and without a gap, the first the hub
\* has fanned out since the connection registered.
Gapless(s, c) ==
    \A k \in DOMAIN s : s[k] \in Events =>
        LET n == joined[c] + EventsUpTo(s, k)
        IN  n \in DOMAIN fanned /\ s[k] = fanned[n]

\* A browser receives the beginning of what the hub has fanned out since it
\* registered: a connection that falls behind is cut, it never skips an event.
DeliveredWithoutGaps == \A c \in Conns : Gapless(delivered[c], c)

\* A connection the hub still counts as a client, and whose writer is alive,
\* has every event since it registered, delivered or queued.
ClientsMissNothing ==
    \A c \in clients \ hub.todo :
        writer[c] # "exited" =>
            LET all == delivered[c] \o send[c]
            IN  /\ Gapless(all, c)
                /\ joined[c] + EventsUpTo(all, Len(all)) = Len(fanned)

\* A registered connection is out of the client set exactly when it has been
\* told so: otherwise its writer would wait for ever, or a live client would
\* be cut off.
DroppedAreTold ==
    \A c \in Conns :
        handler[c] = "greeting" \/ reader[c] # "none" => (c \in clients <=> ~closed[c])

\* HELLO is sent once per connection: what event.go says of it.
HelloSent ==
    \A c \in clients :
        handler[c] = "returned" =>
            "HELLO" \in {(delivered[c] \o send[c])[k] : k \in DOMAIN (delivered[c] \o send[c])}

\* A queued event is fanned out however long browsers stall: one dead
\* connection does not hold up the others.  Writes to a socket are not fair.
BroadcastNeverStalls ==
    \A e \in Events :
        publisher[e] = "queued" ~> done \/ e \in {fanned[k] : k \in DOMAIN fanned}

\* Publish returns, even when the queue is full and the hub is gone.
PublishReturns == \A e \in Events : publisher[e] = "sending" ~> publisher[e] # "sending"

Gone(c) ==
    /\ handler[c] \in {"none", "returned"}
    /\ reader[c] \in {"none", "exited"}
    /\ writer[c] \in {"none", "exited"}

\* After Close every goroutine of the hub and of every connection exits.
ShutdownDrains == done ~> hub.pc = "stopped" /\ \A c \in Conns : Gone(c)

\* A connection whose socket is lost is forgotten and its goroutines exit.
LostConnectionsAreForgotten ==
    \A c \in Conns : reader[c] = "leaving" \/ closed[c] ~> Gone(c) /\ c \notin clients
=============================================================================
