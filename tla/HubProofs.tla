----------------------------- MODULE HubProofs -----------------------------
(***************************************************************************)
(* Proofs about Hub, for any connections, events and buffer sizes.         *)
(***************************************************************************)
EXTENDS Hub, TLAPS, FiniteSetTheorems

-----------------------------------------------------------------------------
(* The inductive invariant.                                                *)

\* The fan-out under way goes to clients, and is of an event.
FanOutIsToClients ==
    /\ hub.todo \subseteq clients
    /\ hub.pc = "fanout" => fanned # <<>>
    /\ hub.pc # "fanout" => hub.todo = {}

\* What Gapless says, of values: s continues f from j on.
Follows(s, j, f) ==
    \A k \in DOMAIN s : s[k] \in Events =>
        j + EventsUpTo(s, k) \in DOMAIN f /\ s[k] = f[j + EventsUpTo(s, k)]

\* Nothing is queued for a connection before it registers, its pumps start when
\* the handler has greeted it, and only such a connection is a client, until it
\* is told that it is none.
InPhase(c) ==
    /\ joined[c] <= Len(fanned)
    /\ handler[c] \in {"none", "registering"} =>
           /\ c \notin clients /\ ~ closed[c]
           /\ send[c] = <<>> /\ delivered[c] = <<>>
           /\ reader[c] = "none"
    /\ handler[c] # "returned" => writer[c] = "none"
    /\ c \in clients => handler[c] = "greeting" \/ reader[c] # "none"
    /\ handler[c] = "greeting" \/ reader[c] # "none" => (c \in clients <=> ~ closed[c])

\* The events a connection has been given: those the socket took, those queued.
All(c) == delivered[c] \o send[c]

\* Until its writer gives up, a connection has been given the beginning of what
\* was fanned out since it registered, and a client all of it, but for what is
\* being fanned out.
HasNoGaps(c) ==
    /\ Follows(delivered[c], joined[c], fanned)
    /\ writer[c] # "exited" =>
           /\ Follows(All(c), joined[c], fanned)
           /\ c \in clients =>
                  joined[c] + EventsUpTo(All(c), Len(All(c)))
                      = Len(fanned) - (IF c \in hub.todo THEN 1 ELSE 0)

IInv ==
    /\ TypeOK
    /\ FanOutIsToClients
    /\ \A c \in Conns : InPhase(c) /\ HasNoGaps(c)

-----------------------------------------------------------------------------
(* Sequences of messages.                                                  *)

LEMMA MessageKinds ==
    /\ Events \subseteq Messages
    /\ "HELLO" \in Messages \ Events
    /\ "PONG" \in Messages \ Events
    BY MessagesAssumption DEF Messages

LEMMA Appending ==
    ASSUME NEW S, NEW s \in Seq(S), NEW m \in S
    PROVE  /\ Append(s, m) \in Seq(S)
           /\ Len(Append(s, m)) = Len(s) + 1
           /\ DOMAIN Append(s, m) = 1 .. Len(s) + 1
           /\ DOMAIN s = 1 .. Len(s)
           /\ Len(s) \in Nat
           /\ \A k \in 1 .. Len(s) : Append(s, m)[k] = s[k]
           /\ Append(s, m)[Len(s) + 1] = m
    OBVIOUS

LEMMA Joining ==
    ASSUME NEW S, NEW s \in Seq(S), NEW t \in Seq(S)
    PROVE  /\ s \o t \in Seq(S)
           /\ Len(s \o t) = Len(s) + Len(t)
           /\ \A k \in 1 .. Len(s) : (s \o t)[k] = s[k]
           /\ \A k \in 1 .. Len(t) : (s \o t)[Len(s) + k] = t[k]
    OBVIOUS

\* To queue a message is to append it to all that the connection has been given.
LEMMA JoinAppend ==
    ASSUME NEW S, NEW s \in Seq(S), NEW t \in Seq(S), NEW m \in S
    PROVE  s \o Append(t, m) = Append(s \o t, m)
    OBVIOUS

\* To write the head of the queue leaves it as it is.
LEMMA MoveHead ==
    ASSUME NEW S, NEW s \in Seq(S), NEW t \in Seq(S), t # <<>>
    PROVE  /\ Head(t) \in S /\ Tail(t) \in Seq(S) /\ Len(Tail(t)) = Len(t) - 1
           /\ Append(s, Head(t)) \o Tail(t) = s \o t
<1>1. /\ Len(t) \in Nat \ {0} /\ Len(s) \in Nat
      /\ Head(t) \in S /\ Tail(t) \in Seq(S) /\ Len(Tail(t)) = Len(t) - 1
      /\ \A k \in 1 .. Len(Tail(t)) : Tail(t)[k] = t[k + 1]
      /\ Head(t) = t[1]
    OBVIOUS
<1> DEFINE a == Append(s, Head(t))
<1>2. /\ a \in Seq(S) /\ Len(a) = Len(s) + 1
      /\ \A k \in 1 .. Len(s) : a[k] = s[k]
      /\ a[Len(s) + 1] = t[1]
    BY <1>1, Appending
<1> DEFINE u == Tail(t)
<1>3. u \in Seq(S) /\ Len(u) = Len(t) - 1 /\ \A k \in 1 .. Len(u) : u[k] = t[k + 1]
    BY <1>1
<1> HIDE DEF a, u
<1>4. /\ a \o u \in Seq(S) /\ Len(a \o u) = Len(s) + Len(t)
      /\ \A k \in 1 .. Len(s) + 1 : (a \o u)[k] = a[k]
      /\ \A k \in 1 .. Len(u) : (a \o u)[Len(s) + 1 + k] = u[k]
    <2>0. a \in Seq(S) /\ u \in Seq(S)
        BY <1>2, <1>3
    <2>1. /\ a \o u \in Seq(S) /\ Len(a \o u) = Len(a) + Len(u)
          /\ \A k \in 1 .. Len(a) : (a \o u)[k] = a[k]
          /\ \A k \in 1 .. Len(u) : (a \o u)[Len(a) + k] = u[k]
        BY <2>0
    <2>2. Len(a) + Len(u) = Len(s) + Len(t)
        BY <1>1, <1>2, <1>3
    <2> QED BY <1>2, <2>1, <2>2
<1>5. /\ s \o t \in Seq(S) /\ Len(s \o t) = Len(s) + Len(t)
      /\ \A k \in 1 .. Len(s) : (s \o t)[k] = s[k]
      /\ \A k \in 1 .. Len(t) : (s \o t)[Len(s) + k] = t[k]
    BY Joining
<1>6. ASSUME NEW k \in 1 .. Len(s) + Len(t)
      PROVE  (a \o u)[k] = (s \o t)[k]
    <2>0. k \in Nat /\ Len(s) \in Nat /\ k >= 1
        BY <1>1
    <2>1. CASE k <= Len(s)
        BY <1>1, <1>2, <1>4, <1>5, <2>0, <2>1
    <2>2. CASE k = Len(s) + 1
        <3>1. (a \o u)[k] = t[1]
            BY <1>1, <1>2, <1>4, <2>2
        <3>2. (s \o t)[Len(s) + 1] = t[1]
            BY <1>1, <1>5
        <3> QED BY <2>2, <3>1, <3>2
    <2>3. CASE k > Len(s) + 1
        <3> DEFINE i == k - (Len(s) + 1)
        <3>1. i \in 1 .. Len(u) /\ i + 1 \in 1 .. Len(t) /\ k = Len(s) + 1 + i /\ k = Len(s) + (i + 1)
            BY <1>1, <1>3, <2>3
        <3> HIDE DEF i
        <3>2. (a \o u)[Len(s) + 1 + i] = u[i] /\ u[i] = t[i + 1]
            BY <1>3, <1>4, <3>1
        <3>3. (s \o t)[Len(s) + (i + 1)] = t[i + 1]
            BY <1>5, <3>1
        <3> QED BY <3>1, <3>2, <3>3
    <2>4. k <= Len(s) \/ k = Len(s) + 1 \/ k > Len(s) + 1
        BY <2>0
    <2> QED BY <2>1, <2>2, <2>3, <2>4
<1>7. a \o u = s \o t
    BY <1>4, <1>5, <1>6
<1> QED BY <1>1, <1>7 DEF a, u

-----------------------------------------------------------------------------
(* Counting the events.                                                    *)

LEMMA CountIsNat ==
    ASSUME NEW s, NEW k \in Nat
    PROVE  /\ IsFiniteSet({j \in 1 .. k : s[j] \in Events})
           /\ EventsUpTo(s, k) \in Nat
<1>1. IsFiniteSet(1 .. k)
    BY FS_Interval
<1>2. {j \in 1 .. k : s[j] \in Events} \subseteq 1 .. k
    OBVIOUS
<1>3. IsFiniteSet({j \in 1 .. k : s[j] \in Events})
    BY <1>1, <1>2, FS_Subset
<1> QED BY <1>3, FS_CardinalityType DEF EventsUpTo

\* Only the first k messages count.
LEMMA CountOfPrefix ==
    ASSUME NEW s, NEW t, NEW k \in Nat, \A j \in 1 .. k : s[j] = t[j]
    PROVE  EventsUpTo(s, k) = EventsUpTo(t, k)
<1>1. {j \in 1 .. k : s[j] \in Events} = {j \in 1 .. k : t[j] \in Events}
    OBVIOUS
<1> QED BY <1>1 DEF EventsUpTo

\* One message more is one event more, or none.
LEMMA CountOneMore ==
    ASSUME NEW s, NEW k \in Nat
    PROVE  EventsUpTo(s, k + 1) = EventsUpTo(s, k) + (IF s[k + 1] \in Events THEN 1 ELSE 0)
<1> DEFINE some == {j \in 1 .. k : s[j] \in Events}
           more == {j \in 1 .. k + 1 : s[j] \in Events}
<1>0. IsFiniteSet(some)
    BY CountIsNat
<1>1. IsFiniteSet(some) /\ k + 1 \notin some /\ Cardinality(some) \in Nat
    <2>1. k + 1 \notin some
        OBVIOUS
    <2> HIDE DEF some
    <2> QED BY <1>0, <2>1, FS_CardinalityType
<1>2. CASE s[k + 1] \in Events
    <2>1. more = some \cup {k + 1}
        BY <1>2
    <2> HIDE DEF some, more
    <2>2. Cardinality(more) = Cardinality(some) + 1
        BY <1>1, <2>1, FS_AddElement
    <2> QED BY <1>2, <2>2 DEF EventsUpTo, some, more
<1>3. CASE s[k + 1] \notin Events
    <2>1. more = some
        BY <1>3
    <2> QED BY <1>1, <1>3, <2>1 DEF EventsUpTo
<1> QED BY <1>2, <1>3

LEMMA FollowsPrefix ==
    ASSUME NEW S, NEW s \in Seq(S), NEW t \in Seq(S), NEW j \in Nat, NEW f, Follows(s \o t, j, f)
    PROVE  Follows(s, j, f)
<1> SUFFICES ASSUME NEW k \in DOMAIN s, s[k] \in Events
             PROVE  j + EventsUpTo(s, k) \in DOMAIN f /\ s[k] = f[j + EventsUpTo(s, k)]
    BY DEF Follows
<1> DEFINE u == s \o t
<1>1. /\ k \in 1 .. Len(s) /\ k \in Nat
      /\ u \in Seq(S) /\ Len(u) = Len(s) + Len(t) /\ Len(t) \in Nat
      /\ \A i \in 1 .. k : s[i] = u[i]
    BY Joining
<1> HIDE DEF u
<1>2. k \in DOMAIN u /\ u[k] = s[k]
    BY <1>1
<1>3. EventsUpTo(u, k) = EventsUpTo(s, k)
    BY <1>1, CountOfPrefix
<1>4. Follows(u, j, f)
    BY DEF u
<1> QED BY <1>2, <1>3, <1>4 DEF Follows

\* A greeting or an answer changes nothing.
LEMMA FollowsOther ==
    ASSUME NEW s \in Seq(Messages), NEW m \in Messages \ Events, NEW j \in Nat, NEW f, Follows(s, j, f)
    PROVE  /\ Follows(Append(s, m), j, f)
           /\ EventsUpTo(Append(s, m), Len(Append(s, m))) = EventsUpTo(s, Len(s))
<1> DEFINE a == Append(s, m)
<1>1. /\ Len(a) = Len(s) + 1 /\ DOMAIN a = 1 .. Len(s) + 1 /\ DOMAIN s = 1 .. Len(s) /\ Len(s) \in Nat
      /\ \A k \in 1 .. Len(s) : a[k] = s[k]
      /\ a[Len(s) + 1] = m
    BY Appending
<1> HIDE DEF a
<1>2. \A k \in 1 .. Len(s) : EventsUpTo(a, k) = EventsUpTo(s, k)
    BY <1>1, CountOfPrefix
<1>3. EventsUpTo(a, Len(s)) = EventsUpTo(s, Len(s))
    BY <1>1, CountOfPrefix
<1>4. EventsUpTo(a, Len(s) + 1) = EventsUpTo(s, Len(s))
    <2>1. EventsUpTo(a, Len(s) + 1) = EventsUpTo(a, Len(s)) + 0
        BY <1>1, CountOneMore
    <2>2. EventsUpTo(a, Len(s)) \in Nat
        BY <1>1, CountIsNat
    <2> QED BY <1>3, <2>1, <2>2
<1>5. Follows(a, j, f)
    BY <1>1, <1>2 DEF Follows
<1> QED BY <1>1, <1>4, <1>5 DEF a

\* The next event is the next event.
LEMMA FollowsEvent ==
    ASSUME NEW s \in Seq(Messages), NEW j \in Nat, NEW f \in Seq(Events), f # <<>>,
           Follows(s, j, f), j + EventsUpTo(s, Len(s)) = Len(f) - 1
    PROVE  /\ Follows(Append(s, f[Len(f)]), j, f)
           /\ j + EventsUpTo(Append(s, f[Len(f)]), Len(Append(s, f[Len(f)]))) = Len(f)
<1> DEFINE m == f[Len(f)]
           a == Append(s, m)
<1>0. Len(f) \in DOMAIN f /\ m \in Events /\ m \in Messages /\ Len(f) \in Nat
    BY MessageKinds
<1>1. /\ Len(a) = Len(s) + 1 /\ DOMAIN a = 1 .. Len(s) + 1 /\ DOMAIN s = 1 .. Len(s) /\ Len(s) \in Nat
      /\ \A k \in 1 .. Len(s) : a[k] = s[k]
      /\ a[Len(s) + 1] = m
    BY <1>0, Appending
<1> HIDE DEF a, m
<1>2. \A k \in 1 .. Len(s) : EventsUpTo(a, k) = EventsUpTo(s, k)
    BY <1>1, CountOfPrefix
<1>3. EventsUpTo(a, Len(s)) = EventsUpTo(s, Len(s)) /\ EventsUpTo(s, Len(s)) \in Nat
    BY <1>1, CountOfPrefix, CountIsNat
<1>4. EventsUpTo(a, Len(s) + 1) = EventsUpTo(s, Len(s)) + 1
    BY <1>0, <1>1, <1>3, CountOneMore
<1>5. j + EventsUpTo(a, Len(s) + 1) = Len(f)
    BY <1>0, <1>3, <1>4
<1>6. \A k \in 1 .. Len(s) : a[k] \in Events =>
          j + EventsUpTo(a, k) \in DOMAIN f /\ a[k] = f[j + EventsUpTo(a, k)]
    BY <1>1, <1>2 DEF Follows
<1>7. a[Len(s) + 1] = f[Len(f)]
    BY <1>1 DEF m
<1>8. Follows(a, j, f)
    BY <1>0, <1>1, <1>5, <1>6, <1>7 DEF Follows
<1> QED BY <1>1, <1>5, <1>8 DEF a, m

\* What has been fanned out stays the beginning of what is.
LEMMA FollowsLonger ==
    ASSUME NEW s, NEW j \in Nat, NEW f \in Seq(Events), NEW e \in Events, Follows(s, j, f)
    PROVE  Follows(s, j, Append(f, e))
    BY Appending DEF Follows

-----------------------------------------------------------------------------
(* Types.                                                                  *)

LEMMA Capacities ==
    ASSUME TypeOK
    PROVE  /\ env.maxPings \in Nat
           /\ SendBuffer \in Nat \ {0} /\ BroadcastBuffer \in Nat \ {0}
           /\ \A c \in Conns : send[c] \in Seq(Messages) /\ Len(send[c]) \in Nat
                                                        /\ delivered[c] \in Seq(Messages)
<1>1. env \in [conns : SUBSET Conns, events : SUBSET Events, maxPings : Nat]
    BY EnvironmentsAssumption DEF TypeOK
<1> QED BY <1>1, BuffersAssumption DEF TypeOK

LEMMA PublisherType ==
    ASSUME TypeOK, NEW e \in Events, CallPublish(e) \/ Enqueue(e) \/ GiveUp(e)
    PROVE  TypeOK'
<1>1. CASE CallPublish(e) \/ GiveUp(e)
    BY <1>1 DEF CallPublish, GiveUp, TypeOK, hubVars, connVars
<1>2. CASE Enqueue(e)
    <2>1. broadcast' \in Seq(Events) /\ Len(broadcast') = Len(broadcast) + 1
        BY <1>2, Appending DEF Enqueue, TypeOK
    <2>2. Len(broadcast') <= BroadcastBuffer
        BY <1>2, <2>1, BuffersAssumption DEF Enqueue, TypeOK
    <2> QED BY <1>2, <2>1, <2>2 DEF Enqueue, TypeOK, connVars
<1> QED BY <1>1, <1>2

LEMMA HubType ==
    ASSUME IInv, Close \/ HubStep
    PROVE  TypeOK'
<1>0. TypeOK /\ FanOutIsToClients
    BY DEF IInv
<1>1. CASE Close
    BY <1>0, <1>1 DEF Close, TypeOK, connVars
<1>2. CASE TakeBroadcast
    <2>1. /\ broadcast \in Seq(Events) /\ broadcast # <<>> /\ Len(broadcast) \in Nat
          /\ Head(broadcast) \in Events /\ Tail(broadcast) \in Seq(Events)
          /\ Len(Tail(broadcast)) = Len(broadcast) - 1
        BY <1>0, <1>2 DEF TypeOK, TakeBroadcast
    <2>2. fanned' \in Seq(Events)
        BY <1>0, <1>2, <2>1, Appending DEF TypeOK, TakeBroadcast
    <2>3. broadcast' \in Seq(Events) /\ Len(broadcast') <= BroadcastBuffer
        BY <1>0, <1>2, <2>1, BuffersAssumption DEF TypeOK, TakeBroadcast
    <2> QED BY <1>0, <1>2, <2>2, <2>3 DEF TypeOK, TakeBroadcast, connVars
<1>3. ASSUME NEW c \in Conns, FanOut(c)
      PROVE  TypeOK'
    <2>1. hub' \in [pc : {"select", "fanout", "stopped"}, todo : SUBSET Conns]
        BY <1>0, <1>3 DEF TypeOK, FanOut
    <2>2. CASE Len(send[c]) < SendBuffer
        <3>1. fanned[Len(fanned)] \in Messages
            BY <1>0, <1>3, MessageKinds DEF TypeOK, FanOut, FanOutIsToClients
        <3>2. /\ Append(send[c], fanned[Len(fanned)]) \in Seq(Messages)
              /\ Len(Append(send[c], fanned[Len(fanned)])) <= SendBuffer
            BY <1>0, <2>2, <3>1, Appending, Capacities
        <3>3. send' \in [Conns -> Seq(Messages)] /\ \A d \in Conns : Len(send'[d]) <= SendBuffer
            BY <1>0, <1>3, <2>2, <3>2 DEF TypeOK, FanOut
        <3> QED BY <1>0, <1>3, <2>1, <2>2, <3>3 DEF TypeOK, FanOut
    <2>3. CASE ~ (Len(send[c]) < SendBuffer)
        BY <1>0, <1>3, <2>1, <2>3 DEF TypeOK, FanOut
    <2> QED BY <2>2, <2>3
<1>4. CASE FanOutEnds
    BY <1>0, <1>4 DEF TypeOK, FanOutEnds, InSelect, connVars
<1>5. CASE Stop
    BY <1>0, <1>5 DEF TypeOK, Stop, Stopped
<1> QED BY <1>1, <1>2, <1>3, <1>4, <1>5 DEF HubStep

LEMMA QueueType ==
    ASSUME TypeOK, NEW c \in Conns, NEW m \in Messages, Queue(c, m)
    PROVE  send' \in [Conns -> Seq(Messages)] /\ \A d \in Conns : Len(send'[d]) <= SendBuffer
<1>1. CASE Len(send[c]) < SendBuffer /\ send' = [send EXCEPT ![c] = Append(@, m)]
    <2>1. Append(send[c], m) \in Seq(Messages) /\ Len(Append(send[c], m)) <= SendBuffer
        BY <1>1, Appending, Capacities
    <2> QED BY <1>1, <2>1 DEF TypeOK
<1>2. CASE UNCHANGED send
    BY <1>2 DEF TypeOK
<1> QED BY <1>1, <1>2 DEF Queue

LEMMA HandlerType ==
    ASSUME TypeOK, NEW c \in Conns, Upgrade(c) \/ HandlerStep(c)
    PROVE  TypeOK'
<1>1. CASE Upgrade(c) \/ RefuseStopped(c)
    BY <1>1 DEF Upgrade, RefuseStopped, TypeOK, hubVars
<1>2. CASE Register(c)
    <2>1. Len(fanned) \in Nat
        BY DEF TypeOK
    <2> QED BY <1>2, <2>1 DEF Register, TypeOK
<1>3. CASE Greet(c)
    <2>1. send' \in [Conns -> Seq(Messages)] /\ \A d \in Conns : Len(send'[d]) <= SendBuffer
        BY <1>3, QueueType, MessageKinds DEF Greet
    <2> QED BY <1>3, <2>1 DEF Greet, TypeOK, hubVars
<1> QED BY <1>1, <1>2, <1>3 DEF HandlerStep

LEMMA ReaderType ==
    ASSUME TypeOK, NEW c \in Conns, ReadPing(c) \/ ReadFails(c) \/ LeaveStep(c)
    PROVE  TypeOK'
<1>1. CASE ReadPing(c)
    <2>1. send' \in [Conns -> Seq(Messages)] /\ \A d \in Conns : Len(send'[d]) <= SendBuffer
        BY <1>1, QueueType, MessageKinds DEF ReadPing
    <2>2. pings[c] + 1 \in 0 .. env.maxPings
        <3>1. pings[c] \in 0 .. env.maxPings /\ pings[c] < env.maxPings
            BY <1>1 DEF ReadPing, TypeOK
        <3> QED BY <3>1, Capacities
    <2>3. pings' \in [Conns -> 0 .. env.maxPings]
        BY <1>1, <2>2 DEF ReadPing, TypeOK
    <2> QED BY <1>1, <2>1, <2>3 DEF ReadPing, TypeOK, hubVars
<1>2. CASE ReadFails(c) \/ LeaveStopped(c) \/ ReaderExits(c)
    BY <1>2 DEF ReadFails, LeaveStopped, ReaderExits, TypeOK, hubVars
<1>3. CASE Unregister(c)
    <2>1. closed' \in [Conns -> BOOLEAN]
        BY <1>3, Zenon DEF Unregister, TypeOK
    <2> QED BY <1>3, <2>1 DEF Unregister, TypeOK
<1> QED BY <1>1, <1>2, <1>3 DEF LeaveStep

LEMMA WriterType ==
    ASSUME TypeOK, NEW c \in Conns,
           WriteMessage(c) \/ WriteFails(c) \/ SayGoodbye(c) \/ PingFails(c)
    PROVE  TypeOK'
<1>1. CASE WriteMessage(c) \/ WriteFails(c)
    <2>0. send[c] \in Seq(Messages) /\ send[c] # <<>> /\ Len(send[c]) \in Nat
          /\ delivered[c] \in Seq(Messages) /\ Len(send[c]) <= SendBuffer
        BY <1>1, Capacities DEF WriteMessage, WriteFails, TypeOK
    <2>1. /\ Head(send[c]) \in Messages /\ Tail(send[c]) \in Seq(Messages)
          /\ Len(Tail(send[c])) <= SendBuffer
        BY <2>0, BuffersAssumption, MoveHead
    <2>2. Append(delivered[c], Head(send[c])) \in Seq(Messages)
        BY <2>0, <2>1, Appending
    <2>3. send' = [send EXCEPT ![c] = Tail(@)]
        BY <1>1 DEF WriteMessage, WriteFails
    <2>4. send' \in [Conns -> Seq(Messages)] /\ \A d \in Conns : Len(send'[d]) <= SendBuffer
        BY <2>1, <2>3 DEF TypeOK
    <2>5. delivered' \in [Conns -> Seq(Messages)]
        BY <1>1, <2>2 DEF WriteMessage, WriteFails, TypeOK
    <2> QED BY <1>1, <2>4, <2>5 DEF WriteMessage, WriteFails, WriterExits, TypeOK, hubVars
<1>2. CASE SayGoodbye(c) \/ PingFails(c)
    BY <1>2 DEF SayGoodbye, PingFails, WriterExits, TypeOK, hubVars
<1> QED BY <1>1, <1>2

LEMMA TypeStep ==
    ASSUME IInv, [Next]_vars
    PROVE  TypeOK'
<1>0. TypeOK
    BY DEF IInv
<1>1. CASE UNCHANGED vars
    BY <1>0, <1>1 DEF vars, hubVars, connVars, TypeOK
<1> QED BY <1>0, <1>1, PublisherType, HubType, HandlerType, ReaderType, WriterType DEF Next

-----------------------------------------------------------------------------
(* The invariant.                                                          *)

\* Another connection's step, or one that concerns no connection.
LEMMA Undisturbed ==
    ASSUME NEW d \in Conns, InPhase(d), HasNoGaps(d), UNCHANGED fanned,
           handler'[d] = handler[d], reader'[d] = reader[d], writer'[d] = writer[d],
           send'[d] = send[d], closed'[d] = closed[d], delivered'[d] = delivered[d],
           joined'[d] = joined[d], d \in clients' <=> d \in clients,
           d \in hub'.todo <=> d \in hub.todo
    PROVE  InPhase(d)' /\ HasNoGaps(d)'
<1>1. InPhase(d)'
    BY DEF InPhase
<1>2. HasNoGaps(d)'
    BY DEF HasNoGaps, All
<1> QED BY <1>1, <1>2

LEMMA AllTyped ==
    ASSUME TypeOK, NEW c \in Conns
    PROVE  /\ delivered[c] \in Seq(Messages) /\ send[c] \in Seq(Messages)
           /\ All(c) \in Seq(Messages) /\ Len(All(c)) \in Nat
           /\ EventsUpTo(All(c), Len(All(c))) \in Nat
           /\ joined[c] \in Nat /\ Len(fanned) \in Nat /\ fanned \in Seq(Events)
<1>1. /\ delivered[c] \in Seq(Messages) /\ send[c] \in Seq(Messages)
      /\ joined[c] \in Nat /\ fanned \in Seq(Events)
    BY DEF TypeOK
<1>2. All(c) \in Seq(Messages)
    BY <1>1 DEF All
<1>3. Len(All(c)) \in Nat /\ Len(fanned) \in Nat
    BY <1>1, <1>2
<1> QED BY <1>1, <1>2, <1>3, CountIsNat

LEMMA NoEvents ==
    ASSUME NEW j \in Nat, NEW f
    PROVE  Follows(<<>>, j, f) /\ EventsUpTo(<<>>, 0) = 0
<1>1. {k \in 1 .. 0 : <<>>[k] \in Events} = {}
    OBVIOUS
<1>2. EventsUpTo(<<>>, 0) = 0
    BY <1>1, FS_EmptySet DEF EventsUpTo
<1> QED BY <1>2 DEF Follows

LEMMA HubSteps ==
    ASSUME IInv, Close \/ HubStep
    PROVE  FanOutIsToClients' /\ \A d \in Conns : InPhase(d)' /\ HasNoGaps(d)'
<1>0. TypeOK /\ FanOutIsToClients /\ \A d \in Conns : InPhase(d) /\ HasNoGaps(d)
    BY DEF IInv
<1>1. CASE Close
    BY <1>0, <1>1, Undisturbed DEF Close, connVars, FanOutIsToClients
<1>2. CASE TakeBroadcast
    <2> DEFINE e == Head(broadcast)
    <2>1. /\ e \in Events /\ fanned' = Append(fanned, e) /\ fanned \in Seq(Events)
          /\ Len(fanned') = Len(fanned) + 1 /\ Len(fanned) \in Nat /\ fanned' # <<>>
        <3>1. e \in Events /\ fanned \in Seq(Events)
            BY <1>0, <1>2 DEF TypeOK, TakeBroadcast
        <3>2. fanned' = Append(fanned, e)
            BY <1>2 DEF TakeBroadcast
        <3> HIDE DEF e
        <3>3. Len(fanned') = Len(fanned) + 1 /\ Len(fanned) \in Nat
            BY <3>1, <3>2, Appending
        <3> QED BY <3>1, <3>2, <3>3
    <2>2. /\ hub'.todo = clients /\ hub'.pc = "fanout" /\ hub.todo = {}
          /\ UNCHANGED <<clients, joined, connVars>>
        BY <1>0, <1>2 DEF TakeBroadcast, FanOutIsToClients
    <2> HIDE DEF e
    <2>3. FanOutIsToClients'
        BY <2>1, <2>2 DEF FanOutIsToClients
    <2>4. ASSUME NEW d \in Conns PROVE InPhase(d)' /\ HasNoGaps(d)'
        <3>1. joined[d] \in Nat /\ EventsUpTo(All(d), Len(All(d))) \in Nat /\ All(d)' = All(d)
            BY <1>0, <2>2, AllTyped DEF connVars, All
        <3>2. InPhase(d)'
            BY <1>0, <2>1, <2>2, <3>1 DEF InPhase, connVars
        <3>3. Follows(delivered[d], joined[d], fanned')
            BY <1>0, <2>1, <3>1, FollowsLonger DEF HasNoGaps
        <3>4. writer[d] # "exited" =>
                  /\ Follows(All(d), joined[d], fanned')
                  /\ d \in clients => joined[d] + EventsUpTo(All(d), Len(All(d))) = Len(fanned') - 1
            BY <1>0, <2>1, <2>2, <3>1, FollowsLonger DEF HasNoGaps
        <3> QED BY <2>2, <3>1, <3>2, <3>3, <3>4 DEF HasNoGaps, connVars
    <2> QED BY <2>3, <2>4
<1>3. ASSUME NEW c \in Conns, FanOut(c)
      PROVE  FanOutIsToClients' /\ \A d \in Conns : InPhase(d)' /\ HasNoGaps(d)'
    <2>1. /\ hub.pc = "fanout" /\ c \in hub.todo /\ c \in clients
          /\ hub' = [hub EXCEPT !.todo = @ \ {c}]
          /\ hub'.todo = hub.todo \ {c} /\ hub'.pc = "fanout"
          /\ UNCHANGED <<fanned, joined, handler, reader, writer, delivered>>
        BY <1>0, <1>3 DEF FanOut, FanOutIsToClients, TypeOK
    <2>2. CASE Len(send[c]) < SendBuffer
        <3>1. send' = [send EXCEPT ![c] = Append(@, fanned[Len(fanned)])] /\ UNCHANGED <<clients, closed>>
            BY <1>3, <2>2 DEF FanOut
        <3>2. FanOutIsToClients'
            BY <1>0, <2>1, <3>1 DEF FanOutIsToClients
        <3>3. \A d \in Conns : d # c => InPhase(d)' /\ HasNoGaps(d)'
            BY <1>0, <2>1, <3>1, Undisturbed DEF TypeOK
        <3>4. InPhase(c)'
            BY <1>0, <2>1, <3>1 DEF InPhase
        <3>5. fanned[Len(fanned)] \in Messages /\ fanned # <<>>
            BY <1>0, <2>1, MessageKinds DEF TypeOK, FanOutIsToClients
        <3>6. All(c)' = Append(All(c), fanned[Len(fanned)])
            BY <1>0, <2>1, <3>1, <3>5, AllTyped, JoinAppend DEF All, TypeOK
        <3>7. writer[c] # "exited" =>
                  /\ Follows(All(c)', joined[c], fanned)
                  /\ joined[c] + EventsUpTo(All(c)', Len(All(c)')) = Len(fanned)
            <4> SUFFICES ASSUME writer[c] # "exited"
                         PROVE  /\ Follows(All(c)', joined[c], fanned)
                                /\ joined[c] + EventsUpTo(All(c)', Len(All(c)')) = Len(fanned)
                OBVIOUS
            <4>1. /\ Follows(All(c), joined[c], fanned)
                  /\ joined[c] + EventsUpTo(All(c), Len(All(c))) = Len(fanned) - 1
                BY <1>0, <2>1 DEF HasNoGaps
            <4> QED BY <1>0, <3>5, <3>6, <4>1, AllTyped, FollowsEvent
        <3>8. HasNoGaps(c)'
            <4>1. Len(fanned) - 0 = Len(fanned)
                BY <1>0, AllTyped
            <4>2. Follows(delivered[c], joined[c], fanned)
                BY <1>0 DEF HasNoGaps
            <4> QED BY <2>1, <3>7, <4>1, <4>2 DEF HasNoGaps
        <3> QED BY <3>2, <3>3, <3>4, <3>8
    <2>3. CASE ~ (Len(send[c]) < SendBuffer)
        <3>1. /\ clients' = clients \ {c}
              /\ closed' = [closed EXCEPT ![c] = TRUE]
              /\ UNCHANGED send
            BY <1>3, <2>3 DEF FanOut
        <3>2. FanOutIsToClients'
            BY <1>0, <2>1, <3>1 DEF FanOutIsToClients
        <3>3. \A d \in Conns : d # c => InPhase(d)' /\ HasNoGaps(d)'
            BY <1>0, <2>1, <3>1, Undisturbed DEF TypeOK
        <3>4. InPhase(c)'
            BY <1>0, <2>1, <3>1 DEF InPhase, TypeOK
        <3>5. HasNoGaps(c)'
            BY <1>0, <2>1, <3>1 DEF HasNoGaps, All
        <3> QED BY <3>2, <3>3, <3>4, <3>5
    <2> QED BY <2>2, <2>3
<1>4. CASE FanOutEnds
    <2>1. hub.todo = {} /\ hub'.todo = {} /\ hub'.pc = "select"
        BY <1>4 DEF FanOutEnds, InSelect
    <2> QED BY <1>0, <1>4, <2>1, Undisturbed DEF FanOutEnds, connVars, FanOutIsToClients
<1>5. CASE Stop
    <2>1. /\ hub.todo = {} /\ hub'.todo = {} /\ hub'.pc = "stopped" /\ clients' = {}
          /\ UNCHANGED <<fanned, joined, handler, reader, writer, send, delivered>>
        BY <1>0, <1>5 DEF Stop, Stopped, FanOutIsToClients
    <2>2. ASSUME NEW d \in Conns PROVE InPhase(d)' /\ HasNoGaps(d)'
        <3>1. closed'[d] <=> closed[d] \/ d \in clients
            BY <1>5 DEF Stop
        <3>2. InPhase(d)'
            BY <1>0, <2>1, <3>1 DEF InPhase
        <3>3. HasNoGaps(d)'
            BY <1>0, <2>1 DEF HasNoGaps, All
        <3> QED BY <3>2, <3>3
    <2> QED BY <2>1, <2>2 DEF FanOutIsToClients
<1> QED BY <1>1, <1>2, <1>3, <1>4, <1>5 DEF HubStep

\* One connection takes a step: for the others nothing changes.
LEMMA OneConnection ==
    ASSUME IInv, NEW c \in Conns, UNCHANGED <<hub, fanned>>,
           \A d \in Conns : d # c =>
               /\ handler'[d] = handler[d] /\ reader'[d] = reader[d] /\ writer'[d] = writer[d]
               /\ send'[d] = send[d] /\ closed'[d] = closed[d] /\ delivered'[d] = delivered[d]
               /\ joined'[d] = joined[d] /\ (d \in clients' <=> d \in clients),
           hub.todo \subseteq clients',
           InPhase(c)', HasNoGaps(c)'
    PROVE  FanOutIsToClients' /\ \A d \in Conns : InPhase(d)' /\ HasNoGaps(d)'
<1>1. FanOutIsToClients'
    BY DEF IInv, FanOutIsToClients
<1>2. \A d \in Conns : d # c => InPhase(d)' /\ HasNoGaps(d)'
    BY Undisturbed DEF IInv
<1> QED BY <1>1, <1>2

\* Client.queue is never given an event: those are the hub's.
LEMMA Queueing ==
    ASSUME IInv, NEW c \in Conns, NEW m \in Messages \ Events, Queue(c, m),
           UNCHANGED <<hub, clients, fanned, joined, delivered>>,
           writer'[c] # "exited" => writer[c] # "exited"
    PROVE  /\ \A d \in Conns : d # c => send'[d] = send[d]
           /\ HasNoGaps(c)'
<1>0. TypeOK /\ HasNoGaps(c)
    BY DEF IInv
<1>1. \A d \in Conns : d # c => send'[d] = send[d]
    BY <1>0 DEF Queue, TypeOK
<1>2. Follows(All(c), joined[c], fanned) =>
          /\ Follows(All(c)', joined[c], fanned)
          /\ EventsUpTo(All(c)', Len(All(c)')) = EventsUpTo(All(c), Len(All(c)))
    <2>1. CASE send' = [send EXCEPT ![c] = Append(@, m)]
        <3>1. All(c)' = Append(All(c), m)
            BY <1>0, <2>1, AllTyped, JoinAppend DEF All, TypeOK
        <3> QED BY <1>0, <3>1, AllTyped, FollowsOther
    <2>2. CASE UNCHANGED send
        <3>1. All(c)' = All(c)
            BY <2>2 DEF All
        <3> QED BY <3>1
    <2> QED BY <2>1, <2>2 DEF Queue
<1>3. HasNoGaps(c)'
    <2>1. Follows(delivered[c], joined[c], fanned)
        BY <1>0 DEF HasNoGaps
    <2>2. writer'[c] # "exited" =>
              /\ Follows(All(c)', joined[c], fanned)
              /\ c \in clients =>
                     joined[c] + EventsUpTo(All(c)', Len(All(c)'))
                         = Len(fanned) - (IF c \in hub.todo THEN 1 ELSE 0)
        BY <1>0, <1>2 DEF HasNoGaps
    <2> QED BY <2>1, <2>2 DEF HasNoGaps
<1> QED BY <1>1, <1>3

LEMMA HandlerSteps ==
    ASSUME IInv, NEW c \in Conns, Upgrade(c) \/ HandlerStep(c)
    PROVE  FanOutIsToClients' /\ \A d \in Conns : InPhase(d)' /\ HasNoGaps(d)'
<1>0. TypeOK /\ FanOutIsToClients /\ InPhase(c) /\ HasNoGaps(c)
    BY DEF IInv
<1>1. CASE Upgrade(c)
    <2>1. /\ handler[c] = "none" /\ handler' = [handler EXCEPT ![c] = "registering"]
          /\ UNCHANGED <<hubVars, reader, writer, send, closed, delivered>>
        BY <1>1 DEF Upgrade
    <2>2. InPhase(c)' /\ HasNoGaps(c)'
        BY <1>0, <2>1 DEF InPhase, HasNoGaps, All, hubVars, TypeOK
    <2> QED BY <1>0, <2>1, <2>2, OneConnection DEF hubVars, TypeOK, FanOutIsToClients
<1>2. CASE RefuseStopped(c)
    <2>1. /\ handler[c] = "registering" /\ handler' = [handler EXCEPT ![c] = "returned"]
          /\ UNCHANGED <<hubVars, reader, writer, send, closed, delivered>>
        BY <1>2 DEF RefuseStopped
    <2>2. InPhase(c)' /\ HasNoGaps(c)'
        BY <1>0, <2>1 DEF InPhase, HasNoGaps, All, hubVars, TypeOK
    <2> QED BY <1>0, <2>1, <2>2, OneConnection DEF hubVars, TypeOK, FanOutIsToClients
<1>3. CASE Register(c)
    <2>1. /\ handler[c] = "registering" /\ handler' = [handler EXCEPT ![c] = "greeting"]
          /\ clients' = clients \cup {c} /\ joined' = [joined EXCEPT ![c] = Len(fanned)]
          /\ UNCHANGED <<hub, fanned, reader, writer, send, closed, delivered>>
          /\ hub.todo = {}
        BY <1>0, <1>3 DEF Register, FanOutIsToClients
    <2>2. send[c] = <<>> /\ delivered[c] = <<>> /\ ~ closed[c]
        BY <1>0, <2>1 DEF InPhase
    <2>3. joined'[c] = Len(fanned) /\ Len(fanned) \in Nat /\ handler'[c] = "greeting" /\ c \in clients'
        BY <1>0, <2>1, AllTyped DEF TypeOK
    <2>4. InPhase(c)'
        BY <1>0, <2>1, <2>2, <2>3 DEF InPhase
    <2>5. All(c)' = <<>> /\ Len(<<>>) = 0
        BY <2>1, <2>2 DEF All
    <2>6. HasNoGaps(c)'
        BY <2>1, <2>2, <2>3, <2>5, NoEvents DEF HasNoGaps
    <2> QED BY <1>0, <2>1, <2>4, <2>6, OneConnection DEF TypeOK
<1>4. CASE Greet(c)
    <2>1. /\ handler[c] = "greeting" /\ handler' = [handler EXCEPT ![c] = "returned"]
          /\ reader' = [reader EXCEPT ![c] = "reading"]
          /\ writer' = [writer EXCEPT ![c] = "writing"]
          /\ Queue(c, "HELLO")
          /\ UNCHANGED <<hub, clients, fanned, joined, closed, delivered>>
        BY <1>4 DEF Greet, hubVars
    <2>2. writer'[c] # "exited" => writer[c] # "exited"
        BY <1>0, <2>1 DEF InPhase
    <2>3. (\A d \in Conns : d # c => send'[d] = send[d]) /\ HasNoGaps(c)'
        BY <2>1, <2>2, MessageKinds, Queueing
    <2>4. InPhase(c)'
        BY <1>0, <2>1 DEF InPhase, TypeOK
    <2>5. \A d \in Conns : d # c =>
              handler'[d] = handler[d] /\ reader'[d] = reader[d] /\ writer'[d] = writer[d]
        BY <1>0, <2>1 DEF TypeOK
    <2> QED BY <1>0, <2>1, <2>3, <2>4, <2>5, OneConnection DEF FanOutIsToClients
<1> QED BY <1>1, <1>2, <1>3, <1>4 DEF HandlerStep

LEMMA ReaderSteps ==
    ASSUME IInv, NEW c \in Conns, ReadPing(c) \/ ReadFails(c) \/ LeaveStep(c)
    PROVE  FanOutIsToClients' /\ \A d \in Conns : InPhase(d)' /\ HasNoGaps(d)'
<1>0. TypeOK /\ FanOutIsToClients /\ InPhase(c) /\ HasNoGaps(c)
    BY DEF IInv
<1>1. CASE ReadPing(c)
    <2>1. /\ reader[c] = "reading" /\ Queue(c, "PONG")
          /\ UNCHANGED <<hub, clients, fanned, joined, handler, reader, writer, closed, delivered>>
        BY <1>1 DEF ReadPing, hubVars
    <2>2. (\A d \in Conns : d # c => send'[d] = send[d]) /\ HasNoGaps(c)'
        BY <2>1, MessageKinds, Queueing
    <2>3. InPhase(c)'
        BY <1>0, <2>1 DEF InPhase, TypeOK
    <2> QED BY <1>0, <2>1, <2>2, <2>3, OneConnection DEF FanOutIsToClients
<1>2. CASE ReadFails(c) \/ LeaveStopped(c) \/ ReaderExits(c)
    <2>1. /\ reader[c] # "none" /\ reader'[c] # "none"
          /\ \A d \in Conns : d # c => reader'[d] = reader[d]
          /\ UNCHANGED <<hub, clients, fanned, joined, handler, writer, send, closed, delivered>>
        BY <1>0, <1>2 DEF ReadFails, LeaveStopped, ReaderExits, hubVars, TypeOK
    <2>2. InPhase(c)'
        BY <1>0, <2>1 DEF InPhase
    <2>3. HasNoGaps(c)'
        BY <1>0, <2>1 DEF HasNoGaps, All
    <2> QED BY <1>0, <2>1, <2>2, <2>3, OneConnection DEF FanOutIsToClients
<1>3. CASE Unregister(c)
    <2>1. /\ reader[c] # "none" /\ reader'[c] # "none" /\ hub.todo = {}
          /\ \A d \in Conns : d # c => reader'[d] = reader[d]
          /\ clients' = clients \ {c}
          /\ UNCHANGED <<hub, fanned, joined, handler, writer, send, delivered>>
        BY <1>0, <1>3 DEF Unregister, TypeOK, FanOutIsToClients
    <2>2. /\ closed'[c] <=> closed[c] \/ c \in clients
          /\ \A d \in Conns : d # c => closed'[d] = closed[d]
        BY <1>0, <1>3, Zenon DEF Unregister, TypeOK
    <2>3. InPhase(c)'
        BY <1>0, <2>1, <2>2 DEF InPhase
    <2>4. HasNoGaps(c)'
        BY <1>0, <2>1 DEF HasNoGaps, All
    <2> QED BY <1>0, <2>1, <2>2, <2>3, <2>4, OneConnection
<1> QED BY <1>1, <1>2, <1>3 DEF LeaveStep

LEMMA WriterSteps ==
    ASSUME IInv, NEW c \in Conns,
           WriteMessage(c) \/ WriteFails(c) \/ SayGoodbye(c) \/ PingFails(c)
    PROVE  FanOutIsToClients' /\ \A d \in Conns : InPhase(d)' /\ HasNoGaps(d)'
<1>0. TypeOK /\ FanOutIsToClients /\ InPhase(c) /\ HasNoGaps(c)
    BY DEF IInv
<1>1. /\ writer[c] = "writing"
      /\ UNCHANGED <<hub, clients, fanned, joined, handler, reader, closed>>
      /\ \A d \in Conns : d # c => /\ writer'[d] = writer[d]
                                   /\ send'[d] = send[d] /\ delivered'[d] = delivered[d]
    BY <1>0 DEF WriteMessage, WriteFails, SayGoodbye, PingFails, WriterExits, hubVars, TypeOK
<1>2. InPhase(c)'
    <2>1. handler[c] = "returned"
        BY <1>0, <1>1 DEF InPhase
    <2> QED BY <1>0, <1>1, <2>1 DEF InPhase
<1>3. CASE WriteMessage(c)
    <2>1. /\ send[c] \in Seq(Messages) /\ send[c] # <<>> /\ delivered[c] \in Seq(Messages)
          /\ UNCHANGED writer
          /\ delivered'[c] = Append(delivered[c], Head(send[c])) /\ send'[c] = Tail(send[c])
        BY <1>0, <1>3 DEF WriteMessage, TypeOK
    <2>2. All(c)' = All(c)
        BY <2>1, MoveHead DEF All
    <2>3. Follows(All(c)', joined[c], fanned)
        BY <1>0, <1>1, <2>2 DEF HasNoGaps
    <2>4. delivered'[c] \in Seq(Messages) /\ send'[c] \in Seq(Messages) /\ joined[c] \in Nat
        BY <1>0, <2>1, MoveHead, Appending DEF TypeOK
    <2>5. Follows(delivered'[c], joined[c], fanned)
        BY <2>3, <2>4, FollowsPrefix DEF All
    <2>6. HasNoGaps(c)'
        BY <1>0, <1>1, <2>1, <2>2, <2>3, <2>5 DEF HasNoGaps
    <2> QED BY <1>0, <1>1, <1>2, <2>6, OneConnection DEF FanOutIsToClients
<1>4. CASE WriteFails(c) \/ SayGoodbye(c) \/ PingFails(c)
    <2>1. writer'[c] = "exited" /\ UNCHANGED delivered
        BY <1>0, <1>4 DEF WriteFails, SayGoodbye, PingFails, WriterExits, TypeOK
    <2>2. HasNoGaps(c)'
        BY <1>0, <1>1, <2>1 DEF HasNoGaps
    <2> QED BY <1>0, <1>1, <1>2, <2>2, OneConnection DEF FanOutIsToClients
<1> QED BY <1>3, <1>4

LEMMA Initially ==
    ASSUME Init
    PROVE  IInv
<1>1. TypeOK
    <2>1. \A c \in Conns : send[c] = <<>> /\ Len(send[c]) <= SendBuffer
        BY BuffersAssumption DEF Init
    <2>2. Len(broadcast) <= BroadcastBuffer
        BY BuffersAssumption DEF Init
    <2>3. env.maxPings \in Nat
        BY EnvironmentsAssumption DEF Init
    <2>4. pings \in [Conns -> 0 .. env.maxPings]
        BY <2>3 DEF Init
    <2>5. /\ send \in [Conns -> Seq(Messages)] /\ delivered \in [Conns -> Seq(Messages)]
          /\ fanned \in Seq(Events) /\ broadcast \in Seq(Events)
        BY DEF Init
    <2> QED BY <2>1, <2>2, <2>4, <2>5 DEF Init, TypeOK, InSelect
<1>2. FanOutIsToClients
    BY DEF Init, InSelect, FanOutIsToClients
<1>3. ASSUME NEW c \in Conns PROVE InPhase(c) /\ HasNoGaps(c)
    <2>1. InPhase(c)
        BY DEF Init, InPhase
    <2>2. All(c) = <<>> /\ delivered[c] = <<>> /\ joined[c] = 0 /\ clients = {}
        BY DEF Init, All
    <2> QED BY <2>1, <2>2, NoEvents DEF HasNoGaps
<1> QED BY <1>1, <1>2, <1>3 DEF IInv

LEMMA Inductive ==
    ASSUME IInv, [Next]_vars
    PROVE  IInv'
<1>1. TypeOK'
    BY TypeStep
<1>2. FanOutIsToClients' /\ \A d \in Conns : InPhase(d)' /\ HasNoGaps(d)'
    <2>1. CASE UNCHANGED <<hubVars, connVars>>
        BY <2>1, Undisturbed DEF IInv, hubVars, connVars, FanOutIsToClients
    <2>2. ASSUME NEW e \in Events, CallPublish(e) \/ Enqueue(e) \/ GiveUp(e)
          PROVE  FanOutIsToClients' /\ \A d \in Conns : InPhase(d)' /\ HasNoGaps(d)'
        <3>1. UNCHANGED <<hub, clients, fanned, joined, connVars>>
            BY <2>2 DEF CallPublish, Enqueue, GiveUp, hubVars
        <3> QED BY <3>1, Undisturbed DEF IInv, connVars, FanOutIsToClients
    <2> QED BY <2>1, <2>2, HubSteps, HandlerSteps, ReaderSteps, WriterSteps DEF Next, vars
<1> QED BY <1>1, <1>2 DEF IInv

THEOREM InvariantHolds == Spec => []IInv
<1>1. Init => IInv
    BY Initially
<1>2. IInv /\ [Next]_vars => IInv'
    BY Inductive
<1> QED BY <1>1, <1>2, PTL DEF Spec

-----------------------------------------------------------------------------
(* The theorems.                                                           *)

\* Every variable has its type, and no channel holds more than its capacity:
\* Run never sends to a full queue, nor does Client.queue.
THEOREM TypesHold == Spec => []TypeOK
<1>1. IInv => TypeOK
    BY DEF IInv
<1> QED BY <1>1, InvariantHolds, PTL

\* Whoever is out of the hub's client set has been told so, whether it was
\* dropped by FanOut, left by unregister, or the hub stopped.
THEOREM DroppedConnectionsAreTold == Spec => []DroppedAreTold
<1>1. IInv => DroppedAreTold
    BY DEF IInv, InPhase, DroppedAreTold
<1> QED BY <1>1, InvariantHolds, PTL

\* What the socket of a connection took is, event by event, the beginning of
\* what Run has fanned out since the connection registered, however the queues
\* filled up and whoever was dropped.
THEOREM NoGapsDelivered == Spec => []DeliveredWithoutGaps
<1>1. IInv => DeliveredWithoutGaps
    BY DEF IInv, HasNoGaps, Follows, Gapless, DeliveredWithoutGaps
<1> QED BY <1>1, InvariantHolds, PTL

\* A client the fan-out has reached, and whose writePump runs, has been given
\* every event since it registered.
THEOREM ClientsMissNoEvent == Spec => []ClientsMissNothing
<1>1. ASSUME IInv
      PROVE  ClientsMissNothing
    <2> SUFFICES ASSUME NEW c \in clients \ hub.todo, writer[c] # "exited"
                 PROVE  /\ Gapless(All(c), c)
                        /\ joined[c] + EventsUpTo(All(c), Len(All(c))) = Len(fanned)
        BY DEF ClientsMissNothing, All
    <2>0. TypeOK /\ clients \subseteq Conns
        BY <1>1 DEF IInv, TypeOK
    <2>1. c \in Conns /\ HasNoGaps(c)
        BY <1>1, <2>0 DEF IInv
    <2>2. Follows(All(c), joined[c], fanned)
        BY <2>1 DEF HasNoGaps
    <2>3. joined[c] + EventsUpTo(All(c), Len(All(c))) = Len(fanned)
        BY <2>0, <2>1, AllTyped DEF HasNoGaps
    <2> QED BY <2>2, <2>3 DEF Follows, Gapless
<1> QED BY <1>1, InvariantHolds, PTL
=============================================================================
