---------------------------- MODULE RequestProofs ----------------------------
(***************************************************************************)
(* Proofs about the requests of Server: what they store, tell and answer,  *)
(* in any number of processes that boot, drain and die meanwhile; and what *)
(* follows for the processes themselves.                                   *)
(***************************************************************************)
EXTENDS ServerProofs

-----------------------------------------------------------------------------
(* A request and the process that handles it.                              *)

RequestFields == {"pc", "at", "call", "window", "media", "item", "read", "listed", "wrote", "told",
                  "status", "faulted", "overran", "wipes"}

Reads == {"readWindow", "readItems", "listWindows", "listItems", "listMedia", "liveSync"}

Asks(op, pc) == \E k \in DOMAIN Queries(op) : Queries(op)[k] = pc

\* The operations that reach a statement.
Reaches(h) ==
    /\ h.pc = "insertWindow" => h.call.op = "createWindow"
    /\ h.pc \in {"insertMedia", "publishMedia"} => h.call.op \in {"createMedia", "add"}
    /\ h.pc = "findMedia" => h.call.op = "add"
    /\ h.pc = "edit" => h.call.op \in Edits
    /\ h.pc = "publish" => h.call.op \in Edits \cup {"createWindow"}
    /\ h.pc = "findWindow" => h.call.op \in {"add", "playlist"}
    /\ h.pc \in Reads => Asks(h.call.op, h.pc)

\* What a request has stored and will publish.
Owes(h) ==
    IF h.pc = "publishMedia" THEN {"media"}
    ELSE IF h.pc = "publish"
    THEN IF h.call.op = "createWindow" THEN {"window"} ELSE {"playlist"}
    ELSE IF h.pc \in {"readWindow", "readItems"} /\ h.call.op \in Edits THEN {"playlist"} ELSE {}

\* A handler under way is in some process and on the way of its operation; only
\* an answer has a status; and the hub has been told of what was stored, but for
\* what it is about to be told.
Handling(h) ==
    /\ DOMAIN h = RequestFields
    /\ h.status # 0 => h.pc = "done"
    /\ h.pc \in Active => h.at \in Instances /\ Reaches(h)
    /\ (h.pc \in Active \/ h.status \in {200, 201}) /\ ~ h.overran => h.wrote = h.told \cup Owes(h)

\* The process of a handler under way has an open pool and hub, until the grace
\* is over.
Housed(r) == req[r].pc \in Active /\ ~ req[r].overran => HubOpen(req[r].at)

HInv ==
    /\ DOMAIN req = Requests
    /\ \A r \in Requests : Handling(req[r]) /\ Housed(r)

-----------------------------------------------------------------------------
(* The processes under the requests.                                       *)

\* An open hub stays open in a step of another process.
Open(i) == HubOpen(i) => HubOpen(i)'

LEMMA WritesKeepOthers ==
    ASSUME IInv, NEW i \in Instances, NEW process, Writes(i, process)
    PROVE  \A j \in Instances \ {i} : inst'[j].pc = inst[j].pc
  <1> DEFINE Next1(j, lost) == IF j # i THEN inst[j] ELSE IF lost THEN Failed(i, TRUE) ELSE process
             Noted(j) == j \in Beside(i) \/ (j = i /\ Beside(i) # {})
  <1>1. PICK lost : inst' = [j \in Instances |-> IF Noted(j) THEN [Next1(j, lost) EXCEPT !.crowded = TRUE]
                                                ELSE Next1(j, lost)]
    BY DEF Writes
  <1>2. \A j \in Instances \ {i} : Next1(j, lost) = inst[j] /\ DOMAIN inst[j] = Fields
    BY DEF IInv, Shape
  <1> HIDE DEF Next1, Noted
  <1> QED BY <1>1, <1>2 DEF Fields

LEMMA ProceedKeepsOthers ==
    ASSUME IInv, NEW i \in Instances, NEW process, inst' = [inst EXCEPT ![i] = process]
    PROVE  \A j \in Instances \ {i} : inst'[j] = inst[j]
  BY DEF IInv, Shape

LEMMA BootKeepsOthers ==
    ASSUME IInv, NEW i \in Instances, BootStep(i)
    PROVE  ~ HubOpen(i) /\ \A j \in Instances \ {i} : inst'[j].pc = inst[j].pc
  <1>1. CASE \E process : inst' = [inst EXCEPT ![i] = process]
    <2>1. \A j \in Instances \ {i} : inst'[j].pc = inst[j].pc
      BY <1>1, ProceedKeepsOthers
    <2>2. ~ HubOpen(i)
      BY DEF BootStep, Connect, AcquireLock, CheckMigration, ApplyMigration, Unlock, Wipe,
             CountWindows, SeedMedia, SeedWindow, SeedItem, Serve, At, HubOpen
    <2> QED BY <2>1, <2>2
  <1>2. CASE \E process : Writes(i, process)
    <2>1. \A j \in Instances \ {i} : inst'[j].pc = inst[j].pc
      BY <1>2, WritesKeepOthers
    <2>2. ~ HubOpen(i)
      BY DEF BootStep, Connect, AcquireLock, CheckMigration, ApplyMigration, Unlock, Wipe,
             CountWindows, SeedMedia, SeedWindow, SeedItem, Serve, At, HubOpen
    <2> QED BY <2>1, <2>2
  <1>3. CASE Connect(i) \/ AcquireLock(i)
    <2>1. \A j \in Instances \ {i} : inst'[j] = inst[j]
      BY <1>3 DEF Connect, AcquireLock, IInv, Shape
    <2> QED BY <1>3, <2>1 DEF Connect, AcquireLock, At, HubOpen
  <1>4. CASE CheckMigration(i) \/ Unlock(i) \/ CountWindows(i) \/ Serve(i)
    BY <1>1, <1>4 DEF CheckMigration, Unlock, CountWindows, Serve, Proceed
  <1>5. CASE ApplyMigration(i)
    <2>1. CASE inst' = [inst EXCEPT ![i].pc = "check", ![i].step = @ + 1]
      <3>1. \A j \in Instances \ {i} : inst'[j] = inst[j]
        BY <2>1 DEF IInv, Shape
      <3> QED BY <1>5, <3>1 DEF ApplyMigration, At, HubOpen
    <2>2. CASE \E faulted : Fail(i, faulted)
      BY <1>1, <2>2 DEF Fail, Proceed
    <2> QED BY <1>5, <2>1, <2>2 DEF ApplyMigration
  <1>6. CASE Wipe(i) \/ SeedMedia(i) \/ SeedWindow(i) \/ SeedItem(i)
    <2>1. (\E process : Writes(i, process)) \/ (\E faulted : Fail(i, faulted))
      BY <1>6 DEF Wipe, SeedMedia, SeedWindow, SeedItem
    <2>2. CASE \E faulted : Fail(i, faulted)
      BY <1>1, <2>2 DEF Fail, Proceed
    <2> QED BY <1>2, <2>1, <2>2
  <1> QED BY <1>3, <1>4, <1>5, <1>6 DEF BootStep

LEMMA StoredKeepsProcesses ==
    ASSUME IInv, NEW r, NEW what, NEW handler, Stored(r, what, handler)
    PROVE  \A j \in Instances : inst'[j].pc = inst[j].pc
  <1>1. inst' = [j \in Instances |-> IF j \in Beside(req[r].at) THEN [inst[j] EXCEPT !.crowded = TRUE]
                                     ELSE inst[j]]
    BY DEF Stored
  <1> QED BY <1>1 DEF IInv, Shape, Fields

\* No request has moved, and the processes of those under way are still open.
LEMMA StillHoused ==
    ASSUME HInv, UNCHANGED req, \A i \in Instances : Open(i)
    PROVE  HInv'
  BY DEF HInv, Handling, Housed, Open

\* Process i ends, and with it its requests.
LEMMA Losing ==
    ASSUME HInv, NEW i \in Instances, Lose(i), \A j \in Instances \ {i} : inst'[j] = inst[j]
    PROVE  HInv'
  <1>1. ASSUME NEW r \in Requests PROVE Handling(req'[r]) /\ Housed(r)'
    <2>1. CASE r \in In(i)
      <3>1. req'[r] = [req[r] EXCEPT !.pc = "lost"]
        BY <2>1 DEF Lose, Goto
      <3>2. req'[r].pc = "lost" /\ DOMAIN req'[r] = RequestFields /\ req'[r].status = req[r].status
        BY <3>1 DEF HInv, Handling, RequestFields
      <3>3. req[r].status = 0
        BY <2>1 DEF HInv, Handling, In, Active, Statements, Publishes
      <3> QED BY <3>2, <3>3 DEF Handling, Housed, Active, Statements, Publishes
    <2>2. CASE r \notin In(i)
      <3>1. req'[r] = req[r]
        BY <2>2 DEF Lose
      <3> QED BY <2>2, <3>1 DEF HInv, Handling, Housed, HubOpen, In
    <2> QED BY <2>1, <2>2
  <1> QED BY <1>1 DEF HInv, Lose

LEMMA ProcessKeepsRequests == ASSUME IInv, HInv, NEW i \in Instances, Process(i) PROVE HInv'
  <1>1. CASE Booting(i)
    <2>1. \A j \in Instances : Open(j)
      BY <1>1, BootKeepsOthers DEF Booting, Open, HubOpen
    <2> QED BY <1>1, <2>1, StillHoused DEF Booting
  <1>2. CASE (\E kind \in env.kinds : Start(i, kind)) /\ UNCHANGED <<env, req>>
    <2>1. PICK process : inst' = [inst EXCEPT ![i] = process]
      BY <1>2 DEF Start
    <2>2. \A j \in Instances : Open(j)
      BY <1>2, <2>1, ProceedKeepsOthers DEF Start, Open, HubOpen
    <2> QED BY <1>2, <2>2, StillHoused
  <1>3. CASE BootFails(i) /\ UNCHANGED <<env, req>>
    <2>1. inst' = [inst EXCEPT ![i] = Failed(i, TRUE)] /\ ~ HubOpen(i)
      BY <1>3 DEF BootFails, Fail, Proceed, HubOpen, Wiping, Seeding
    <2>2. \A j \in Instances : Open(j)
      BY <2>1, ProceedKeepsOthers DEF Open, HubOpen
    <2> QED BY <1>3, <2>2, StillHoused
  <1>4. CASE Sigterm(i)
    <2>1. inst' = [inst EXCEPT ![i] = [inst[i] EXCEPT !.pc = "draining"]] /\ UNCHANGED req
      BY <1>4 DEF Sigterm, Proceed
    <2>2. inst'[i].pc = "draining" /\ \A j \in Instances \ {i} : inst'[j] = inst[j]
      BY <2>1 DEF IInv, Shape, Fields
    <2> QED BY <2>1, <2>2, StillHoused DEF Open, HubOpen
  <1>5. CASE Drained(i)
    <2>1. In(i) = {} /\ UNCHANGED req /\ \A j \in Instances \ {i} : inst'[j] = inst[j]
      BY <1>5, ProceedKeepsOthers DEF Drained, Proceed
    <2>2. \A r \in Requests : req[r].pc \in Active => req[r].at \in Instances \ {i}
      BY <2>1 DEF In, HInv, Handling
    <2> QED BY <2>1, <2>2 DEF HInv, Handling, Housed, HubOpen
  <1>6. CASE GraceOver(i) \/ ServeFails(i)
    <2>1. /\ \A j \in Instances \ {i} : inst'[j] = inst[j]
          /\ req' = [r \in Requests |-> IF r \in In(i) THEN [req[r] EXCEPT !.overran = TRUE] ELSE req[r]]
      BY <1>6, ProceedKeepsOthers DEF GraceOver, ServeFails, Overrun, Proceed
    <2>2. ASSUME NEW r \in Requests PROVE Handling(req'[r]) /\ Housed(r)'
      <3>1. CASE r \in In(i)
        <4>1. req'[r] = [req[r] EXCEPT !.overran = TRUE] /\ DOMAIN req[r] = RequestFields
          BY <2>1, <3>1 DEF HInv, Handling
        <4>2. /\ req'[r].overran /\ DOMAIN req'[r] = RequestFields /\ req'[r].status = req[r].status
              /\ req'[r].pc = req[r].pc /\ req'[r].at = req[r].at /\ req'[r].call = req[r].call
          BY <4>1 DEF RequestFields
        <4> QED BY <4>2 DEF HInv, Handling, Housed, Reaches
      <3>2. CASE r \notin In(i)
        <4>1. req'[r] = req[r]
          BY <2>1, <3>2
        <4> QED BY <2>1, <3>2, <4>1 DEF HInv, Handling, Housed, HubOpen, In
      <3> QED BY <3>1, <3>2
    <2> QED BY <2>1, <2>2 DEF HInv
  <1>7. CASE Exit(i)
    BY <1>7, ProceedKeepsOthers, Losing DEF Exit, Proceed
  <1>8. CASE Crash(i)
    BY <1>8, ProceedKeepsOthers, Losing DEF Crash, Fail, Proceed
  <1> QED BY <1>1, <1>2, <1>3, <1>4, <1>5, <1>6, <1>7, <1>8 DEF Process

-----------------------------------------------------------------------------
(* The queries of a read.                                                  *)

\* Those of an edit are of its window, and publishing comes after them.
LEMMA QueriesType ==
    ASSUME NEW op
    PROVE  /\ Queries(op) \in Seq(Reads \cup {"findWindow"})
           /\ Len(Queries(op)) \in 1 .. 4
           /\ op \in Edits => /\ Len(Queries(op)) = 2
                              /\ Queries(op)[1] = "readWindow" /\ Queries(op)[2] = "readItems"
           /\ op = "playlist" => /\ Len(Queries(op)) = 2
                                 /\ Queries(op)[1] = "findWindow" /\ Queries(op)[2] = "readItems"
           /\ \A k \in DOMAIN Queries(op) : Queries(op)[k] = "findWindow" => op = "playlist"
  <1>1. CASE op \in {"state", "health"}
    <2>1. Queries(op) = <<"listWindows", "listItems", "listMedia", "liveSync">>
      BY <1>1, Zenon DEF Queries
    <2>2. /\ Queries(op) \in Seq(Reads \cup {"findWindow"})
          /\ Len(Queries(op)) = 4 /\ DOMAIN Queries(op) = 1 .. 4
      BY <2>1 DEF Reads
    <2>3. Queries(op)[1] = "listWindows" /\ Queries(op)[2] = "listItems" /\ Queries(op)[3] = "listMedia" /\ Queries(op)[4] = "liveSync"
      BY <2>1
    <2>4. \A k \in DOMAIN Queries(op) : Queries(op)[k] # "findWindow"
      BY <2>2, <2>3
    <2> QED BY <1>1, <2>2, <2>4 DEF Edits
  <1>2. CASE op = "windows"
    <2>1. Queries(op) = <<"listWindows", "listItems">>
      BY <1>2, Zenon DEF Queries
    <2>2. /\ Queries(op) \in Seq(Reads \cup {"findWindow"})
          /\ Len(Queries(op)) = 2 /\ DOMAIN Queries(op) = 1 .. 2
      BY <2>1 DEF Reads
    <2>3. Queries(op)[1] = "listWindows" /\ Queries(op)[2] = "listItems"
      BY <2>1
    <2>4. \A k \in DOMAIN Queries(op) : Queries(op)[k] # "findWindow"
      BY <2>2, <2>3
    <2> QED BY <1>2, <2>2, <2>4 DEF Edits
  <1>3. CASE op = "media"
    <2>1. Queries(op) = <<"listMedia">>
      BY <1>3, Zenon DEF Queries
    <2>2. /\ Queries(op) \in Seq(Reads \cup {"findWindow"})
          /\ Len(Queries(op)) = 1 /\ DOMAIN Queries(op) = 1 .. 1
      BY <2>1 DEF Reads
    <2>3. Queries(op)[1] = "listMedia"
      BY <2>1
    <2>4. \A k \in DOMAIN Queries(op) : Queries(op)[k] # "findWindow"
      BY <2>2, <2>3
    <2> QED BY <1>3, <2>2, <2>4 DEF Edits
  <1>4. CASE op = "playlist"
    <2>1. Queries(op) = <<"findWindow", "readItems">>
      BY <1>4, Zenon DEF Queries
    <2>2. /\ Queries(op) \in Seq(Reads \cup {"findWindow"})
          /\ Len(Queries(op)) = 2 /\ DOMAIN Queries(op) = 1 .. 2
      BY <2>1 DEF Reads
    <2>3. Queries(op)[1] = "findWindow" /\ Queries(op)[2] = "readItems"
      BY <2>1
    <2> QED BY <1>4, <2>2, <2>3 DEF Edits
  <1>5. CASE op = "current"
    <2>1. Queries(op) = <<"readWindow", "readItems", "liveSync">>
      BY <1>5, Zenon DEF Queries
    <2>2. /\ Queries(op) \in Seq(Reads \cup {"findWindow"})
          /\ Len(Queries(op)) = 3 /\ DOMAIN Queries(op) = 1 .. 3
      BY <2>1 DEF Reads
    <2>3. Queries(op)[1] = "readWindow" /\ Queries(op)[2] = "readItems" /\ Queries(op)[3] = "liveSync"
      BY <2>1
    <2>4. \A k \in DOMAIN Queries(op) : Queries(op)[k] # "findWindow"
      BY <2>2, <2>3
    <2> QED BY <1>5, <2>2, <2>4 DEF Edits
  <1>6. CASE op \notin {"state", "health", "windows", "media", "playlist", "current"}
    <2>1. Queries(op) = <<"readWindow", "readItems">>
      BY <1>6, Zenon DEF Queries
    <2>2. /\ Queries(op) \in Seq(Reads \cup {"findWindow"})
          /\ Len(Queries(op)) = 2 /\ DOMAIN Queries(op) = 1 .. 2
      BY <2>1 DEF Reads
    <2>3. Queries(op)[1] = "readWindow" /\ Queries(op)[2] = "readItems"
      BY <2>1
    <2> QED BY <1>6, <2>2, <2>3 DEF Edits
  <1> QED BY <1>1, <1>2, <1>3, <1>4, <1>5, <1>6

LEMMA FirstStepType ==
    ASSUME NEW op
    PROVE  /\ FirstStep(op) \in Statements
           /\ FirstStep(op) = "insertWindow" => op = "createWindow"
           /\ FirstStep(op) = "insertMedia" => op = "createMedia"
           /\ FirstStep(op) = "findWindow" => op \in {"add", "playlist"}
           /\ FirstStep(op) = "edit" => op \in Edits
           /\ FirstStep(op) # "findMedia"
           /\ FirstStep(op) \in Reads => Asks(op, FirstStep(op)) /\ op \notin Edits
  <1>1. CASE op = "createWindow"
    <2>1. FirstStep(op) = "insertWindow"
      BY <1>1, Zenon DEF FirstStep
    <2> QED BY <1>1, <2>1 DEF Statements, Reads
  <1>2. CASE op = "createMedia"
    <2>1. FirstStep(op) = "insertMedia"
      BY <1>2, Zenon DEF FirstStep
    <2> QED BY <1>2, <2>1 DEF Statements, Reads
  <1>3. CASE op = "add"
    <2>1. FirstStep(op) = "findWindow"
      BY <1>3, Zenon DEF FirstStep
    <2> QED BY <1>3, <2>1 DEF Statements, Reads
  <1>4. CASE op \in {"remove", "move"}
    <2>1. FirstStep(op) = "edit"
      BY <1>4, Zenon DEF FirstStep
    <2> QED BY <1>4, <2>1 DEF Statements, Reads, Edits
  <1>5. CASE op \notin {"createWindow", "createMedia", "add", "remove", "move"}
    <2>1. FirstStep(op) = Head(Queries(op))
      BY <1>5, Zenon DEF FirstStep
    <2>2. Head(Queries(op)) = Queries(op)[1] /\ 1 \in DOMAIN Queries(op)
      BY QueriesType
    <2>3. Queries(op)[1] \in Reads \cup {"findWindow"}
      BY <2>2, QueriesType
    <2> QED BY <1>5, <2>1, <2>2, <2>3, QueriesType DEF Statements, Asks, Reads, Edits
  <1> QED BY <1>1, <1>2, <1>3, <1>4, <1>5

-----------------------------------------------------------------------------
(* The steps of a handler.                                                 *)

\* Everything about two stages of a request but where it is, what it has stored,
\* and whether a call has failed.
SameRequest(h, g) ==
    /\ DOMAIN h = DOMAIN g
    /\ h.at = g.at /\ h.call = g.call /\ h.told = g.told /\ h.overran = g.overran /\ h.wipes = g.wipes

LEMMA GotoFields ==
    ASSUME NEW r, NEW pc, DOMAIN req[r] = RequestFields
    PROVE  LET h == Goto(r, pc)
           IN  /\ SameRequest(h, req[r])
               /\ h.pc = pc /\ h.wrote = req[r].wrote /\ h.status = req[r].status
               /\ h.faulted = req[r].faulted
               /\ h.window = req[r].window /\ h.media = req[r].media /\ h.item = req[r].item
               /\ h.read = req[r].read /\ h.listed = req[r].listed
  BY DEF Goto, SameRequest, RequestFields

LEMMA AnswerFields ==
    ASSUME NEW r, NEW status, DOMAIN req[r] = RequestFields
    PROVE  LET h == Answer(r, status)
           IN  /\ SameRequest(h, req[r])
               /\ h.pc = "done" /\ h.wrote = req[r].wrote /\ h.status = status
               /\ h.faulted = req[r].faulted
               /\ h.window = req[r].window /\ h.media = req[r].media /\ h.item = req[r].item
               /\ h.read = req[r].read /\ h.listed = req[r].listed
  BY DEF Answer, SameRequest, RequestFields

\* What a handler has found out does not matter here.
LEMMA Noted ==
    ASSUME NEW h, NEW g, SameRequest(h, g), Handling(h), NEW v
    PROVE  /\ SameRequest([h EXCEPT !.window = v], g) /\ Handling([h EXCEPT !.window = v])
           /\ SameRequest([h EXCEPT !.media = v], g) /\ Handling([h EXCEPT !.media = v])
           /\ SameRequest([h EXCEPT !.item = v], g) /\ Handling([h EXCEPT !.item = v])
           /\ SameRequest([h EXCEPT !.read = v], g) /\ Handling([h EXCEPT !.read = v])
           /\ SameRequest([h EXCEPT !.listed = v], g) /\ Handling([h EXCEPT !.listed = v])
           /\ SameRequest([h EXCEPT !.faulted = v], g) /\ Handling([h EXCEPT !.faulted = v])
  BY DEF Handling, SameRequest, RequestFields, Reaches, Owes

\* One request takes a step and no process closes its hub.
LEMMA OneRequest ==
    ASSUME HInv, NEW r \in Requests, NEW h, Handler(r, h), Handling(h),
           h.at = req[r].at, h.overran = req[r].overran, req[r].pc \in Active,
           \A i \in Instances : Open(i)
    PROVE  HInv'
  <1>1. req' = [req EXCEPT ![r] = h] /\ DOMAIN req = Requests
    BY DEF Handler, HInv
  <1>2. req'[r] = h /\ \A q \in Requests \ {r} : req'[q] = req[q]
    BY <1>1
  <1>3. \A q \in Requests : Handling(req'[q])
    BY <1>2 DEF HInv
  <1>4. \A q \in Requests : Housed(q) /\ (req[q].pc \in Active => req[q].at \in Instances)
    BY DEF HInv, Handling
  <1>5. \A q \in Requests : Housed(q)'
    BY <1>2, <1>4 DEF Housed, Open
  <1> QED BY <1>1, <1>3, <1>5 DEF HInv

LEMMA LookedPreserves ==
    ASSUME HInv, NEW r \in Requests, NEW h, Looked(r, h), Handling(h), SameRequest(h, req[r]),
           req[r].pc \in Active
    PROVE  HInv'
  BY OneRequest DEF Looked, SameRequest, bootVars, Open, HubOpen

\* Something is stored by a handler that owed nothing.
LEMMA StoringPreserves ==
    ASSUME IInv, HInv, NEW r \in Requests, NEW what, NEW h, Stored(r, what, h),
           SameRequest(h, req[r]), h.wrote = req[r].wrote, h.status = 0, h.pc \in Active, Reaches(h),
           Owes(req[r]) = {}, Owes(h) = {what}, req[r].pc \in Active
    PROVE  HInv'
  <1>1. /\ DOMAIN req[r] = RequestFields /\ req[r].at \in Instances
        /\ ~ req[r].overran => req[r].wrote = req[r].told
    BY DEF HInv, Handling
  <1>2. \A i \in Instances : Open(i)
    BY StoredKeepsProcesses DEF Open, HubOpen
  <1>3. CASE Handler(r, [h EXCEPT !.wrote = @ \cup {what}])
    <2> DEFINE g == [h EXCEPT !.wrote = @ \cup {what}]
    <2>1. /\ DOMAIN g = RequestFields /\ g.wrote = h.wrote \cup {what}
          /\ g.pc = h.pc /\ g.at = h.at /\ g.call = h.call /\ g.told = h.told /\ g.overran = h.overran
          /\ g.status = 0
      BY <1>1 DEF SameRequest, RequestFields
    <2> HIDE DEF g
    <2>2. Handling(g)
      BY <1>1, <2>1 DEF Handling, SameRequest, Reaches, Owes
    <2>3. Handler(r, g) /\ g.at = req[r].at /\ g.overran = req[r].overran
      BY <1>3, <2>1 DEF g, SameRequest
    <2> QED BY <1>2, <2>2, <2>3, OneRequest
  <1>4. ASSUME NEW status \in FailureStatuses(Call(r)),
               Handler(r, [Faulted(r, status) EXCEPT !.wrote = @ \cup {what}])
        PROVE  HInv'
    <2> DEFINE a == Answer(r, status)
               g == [[a EXCEPT !.faulted = TRUE] EXCEPT !.wrote = @ \cup {what}]
    <2>1. SameRequest(a, req[r]) /\ a.pc = "done" /\ a.status = status /\ status \in {400, 500, 503}
      BY <1>1, AnswerFields DEF FailureStatuses
    <2>2. Handler(r, g)
      BY <1>4 DEF Faulted
    <2> HIDE DEF a
    <2>3. /\ DOMAIN g = RequestFields /\ g.pc = "done" /\ g.status \in {400, 500, 503}
          /\ g.at = req[r].at /\ g.overran = req[r].overran
      BY <1>1, <2>1 DEF SameRequest, RequestFields
    <2> HIDE DEF g
    <2>4. Handling(g)
      BY <2>3 DEF Handling, Active, Statements, Publishes
    <2> QED BY <1>2, <2>2, <2>3, <2>4, OneRequest
  <1> QED BY <1>3, <1>4 DEF Stored

\* An answer that owes nothing, or an error.
LEMMA Answers ==
    ASSUME HInv, NEW r \in Requests, NEW status,
           status \in {400, 404, 422, 500, 503} \/ (status \in {200, 201} /\ Owes(req[r]) = {}),
           req[r].pc \in Active
    PROVE  Handling(Answer(r, status)) /\ SameRequest(Answer(r, status), req[r])
  <1>1. /\ DOMAIN req[r] = RequestFields
        /\ ~ req[r].overran => req[r].wrote = req[r].told \cup Owes(req[r])
    BY DEF HInv, Handling
  <1> DEFINE h == Answer(r, status)
  <1>2. /\ SameRequest(h, req[r]) /\ h.pc = "done" /\ h.status = status /\ h.wrote = req[r].wrote
    BY <1>1, AnswerFields
  <1> HIDE DEF h
  <1>3. Owes(h) = {} /\ h.pc \notin Active
    BY <1>2 DEF Owes, Active, Statements, Publishes
  <1>4. Handling(h)
    BY <1>1, <1>2, <1>3 DEF Handling, SameRequest
  <1> QED BY <1>2, <1>4 DEF h

\* A step to another statement that owes as much.
LEMMA Moves ==
    ASSUME HInv, NEW r \in Requests, NEW pc \in Active, req[r].pc \in Active,
           Reaches(Goto(r, pc)), Owes(Goto(r, pc)) = Owes(req[r])
    PROVE  Handling(Goto(r, pc)) /\ SameRequest(Goto(r, pc), req[r])
  <1>1. /\ DOMAIN req[r] = RequestFields /\ req[r].at \in Instances /\ req[r].status = 0
        /\ ~ req[r].overran => req[r].wrote = req[r].told \cup Owes(req[r])
    BY DEF HInv, Handling, Active, Statements, Publishes
  <1> DEFINE h == Goto(r, pc)
  <1>2. SameRequest(h, req[r]) /\ h.pc = pc /\ h.status = 0 /\ h.wrote = req[r].wrote
    BY <1>1, GotoFields
  <1> HIDE DEF h
  <1>3. Reaches(h) /\ Owes(h) = Owes(req[r])
    BY DEF h
  <1>4. Handling(h)
    BY <1>1, <1>2, <1>3 DEF Handling, SameRequest
  <1> QED BY <1>2, <1>4 DEF h

\* The next query of a read, or its answer; or the publishing of an edit.
LEMMA OnwardMoves ==
    ASSUME HInv, NEW r \in Requests, req[r].pc \in Active, Asks(Call(r).op, req[r].pc)
    PROVE  Handling(Onward(r)) /\ SameRequest(Onward(r), req[r])
  <1> DEFINE op == Call(r).op
             queries == Queries(op)
             k == CHOOSE j \in DOMAIN queries : queries[j] = req[r].pc
  <1>1. k \in DOMAIN queries /\ queries[k] = req[r].pc
    BY DEF Asks
  <1>2. /\ queries \in Seq(Reads \cup {"findWindow"}) /\ Len(queries) \in 1 .. 4
        /\ op \in Edits => Len(queries) = 2 /\ queries[1] = "readWindow" /\ queries[2] = "readItems"
        /\ \A j \in DOMAIN queries : queries[j] = "findWindow" => op = "playlist"
    BY QueriesType
  <1>3. Onward(r) = IF k < Len(queries) THEN Goto(r, queries[k + 1])
                    ELSE IF op \in Edits THEN Goto(r, "publish") ELSE Answer(r, 200)
    BY DEF Onward
  <1>4. /\ DOMAIN req[r] = RequestFields /\ req[r].call.op = op
        /\ req[r].pc \in Reads \cup {"findWindow"} /\ k \in 1 .. Len(queries)
    BY <1>1, <1>2 DEF HInv, Handling, Call
  <1> HIDE DEF queries, k, op
  <1>4a. (op \in Edits => Len(queries) = 2) /\ Len(queries) \in Nat /\ k \in Nat /\ 1 <= k /\ k <= Len(queries)
    BY <1>2, <1>4
  <1>5. op \notin Edits => Owes(req[r]) = {}
    BY <1>4 DEF Owes, Reads
  <1>6. CASE k < Len(queries)
    <2> DEFINE next == queries[k + 1]
               h == Goto(r, next)
    <2>1. k + 1 \in DOMAIN queries /\ next \in Reads \cup {"findWindow"}
      BY <1>2, <1>4, <1>6
    <2>2. h.pc = next /\ h.call.op = op
      BY <1>4, GotoFields DEF SameRequest
    <2>3. Asks(op, next) /\ (next = "findWindow" => op = "playlist")
      BY <1>2, <2>1 DEF Asks, queries
    <2> HIDE DEF next
    <2>4. Reaches(h)
      BY <2>1, <2>2, <2>3 DEF Reaches, Reads
    <2>5. Owes(h) = Owes(req[r])
      <3>1. CASE op \in Edits
        <4>0. k = 1
          <5>1. Len(queries) = 2
            BY <1>4a, <3>1
          <5>2. k < 2 /\ k \in Nat /\ 1 <= k
            BY <1>4a, <1>6, <5>1
          <5> QED BY <5>2
        <4>1. req[r].pc = "readWindow" /\ next = "readItems"
          BY <1>1, <1>2, <3>1, <4>0 DEF next
        <4> QED BY <1>4, <2>2, <3>1, <4>1 DEF Owes
      <3>2. CASE op \notin Edits
        BY <1>5, <2>1, <2>2, <3>2 DEF Owes, Reads
      <3> QED BY <3>1, <3>2
    <2>6. next \in Active
      BY <2>1 DEF Reads, Active, Statements, Publishes
    <2> QED BY <1>3, <1>6, <2>4, <2>5, <2>6, Moves DEF next
  <1>7. CASE ~ (k < Len(queries)) /\ op \in Edits
    <2>0. k = 2
      <3>1. Len(queries) = 2
        BY <1>4a, <1>7
      <3>2. ~ (k < 2) /\ k \in Nat /\ k <= 2
        BY <1>4a, <1>7, <3>1
      <3> QED BY <3>2
    <2>1. req[r].pc = "readItems"
      BY <1>1, <1>2, <1>7, <2>0
    <2>2. Goto(r, "publish").pc = "publish" /\ Goto(r, "publish").call.op = op
      BY <1>4, GotoFields DEF SameRequest
    <2>3. Reaches(Goto(r, "publish")) /\ Owes(Goto(r, "publish")) = Owes(req[r])
      BY <1>4, <1>7, <2>1, <2>2 DEF Reaches, Owes, Reads, Edits
    <2>4. "publish" \in Active
      BY DEF Active, Publishes
    <2> QED BY <1>3, <1>7, <2>3, <2>4, Moves
  <1>8. CASE ~ (k < Len(queries)) /\ op \notin Edits
    BY <1>3, <1>5, <1>8, Answers
  <1> QED BY <1>6, <1>7, <1>8

LEMMA PcsAreActive ==
    /\ {"insertWindow", "insertMedia", "findWindow", "findMedia", "edit", "publish", "publishMedia"} \subseteq Active
    /\ Reads \subseteq Active /\ Statements \subseteq Active
  BY DEF Active, Statements, Publishes, Reads

LEMMA CreateWindowKeeps == ASSUME IInv, HInv, NEW r \in Requests, CreateWindow(r) PROVE HInv'
  <1> DEFINE h == [Goto(r, "publish") EXCEPT !.window = serial.window]
  <1>1. /\ req[r].pc = "insertWindow" /\ req[r].pc \in Active
        /\ Owes(req[r]) = {}
    BY PcsAreActive DEF CreateWindow, Runs, Owes
  <1>2. DOMAIN req[r] = RequestFields /\ req[r].call.op = "createWindow" /\ req[r].status = 0
    BY <1>1 DEF HInv, Handling, Reaches
  <1>3. CASE Looked(r, Answer(r, 500))
    BY <1>1, <1>3, Answers, LookedPreserves
  <1>4. CASE Stored(r, "window", h)
    <2>1. SameRequest(h, req[r]) /\ h.pc = "publish" /\ h.wrote = req[r].wrote /\ h.status = 0
      <3>1. LET g == Goto(r, "publish")
            IN  SameRequest(g, req[r]) /\ g.pc = "publish" /\ g.wrote = req[r].wrote /\ g.status = 0
        BY <1>2, GotoFields
      <3> QED BY <1>2, <3>1 DEF SameRequest, RequestFields
    <2> HIDE DEF h
    <2>2. Reaches(h) /\ Owes(h) = {"window"} /\ h.pc \in Active
      BY <1>2, <2>1, PcsAreActive DEF SameRequest, Reaches, Owes, Reads
    <2> QED BY <1>1, <1>4, <2>1, <2>2, StoringPreserves
  <1> QED BY <1>3, <1>4 DEF CreateWindow

LEMMA CreateMediaKeeps == ASSUME IInv, HInv, NEW r \in Requests, CreateMedia(r) PROVE HInv'
  <1> DEFINE h == [Goto(r, "publishMedia") EXCEPT !.media = serial.media]
  <1>1. /\ req[r].pc = "insertMedia" /\ req[r].pc \in Active
        /\ Owes(req[r]) = {}
    BY PcsAreActive DEF CreateMedia, Runs, Owes
  <1>2. /\ DOMAIN req[r] = RequestFields /\ req[r].status = 0
        /\ req[r].call.op \in {"createMedia", "add"}
    BY <1>1 DEF HInv, Handling, Reaches
  <1>3. CASE Looked(r, Answer(r, 500))
    BY <1>1, <1>3, Answers, LookedPreserves
  <1>4. CASE Stored(r, "media", h)
    <2>1. SameRequest(h, req[r]) /\ h.pc = "publishMedia" /\ h.wrote = req[r].wrote /\ h.status = 0
      <3>1. LET g == Goto(r, "publishMedia")
            IN  SameRequest(g, req[r]) /\ g.pc = "publishMedia" /\ g.wrote = req[r].wrote /\ g.status = 0
        BY <1>2, GotoFields
      <3> QED BY <1>2, <3>1 DEF SameRequest, RequestFields
    <2> HIDE DEF h
    <2>2. Reaches(h) /\ Owes(h) = {"media"} /\ h.pc \in Active
      BY <1>2, <2>1, PcsAreActive DEF SameRequest, Reaches, Owes, Reads
    <2> QED BY <1>1, <1>4, <2>1, <2>2, StoringPreserves
  <1> QED BY <1>3, <1>4 DEF CreateMedia

\* The hub is open, or the grace is over.
LEMMA TellPreserves ==
    ASSUME HInv, NEW r \in Requests, NEW what, NEW h, Tell(r, what, h),
           req[r].pc \in Active, Owes(req[r]) = {what},
           DOMAIN h = RequestFields, SameRequest(h, req[r]), h.wrote = req[r].wrote,
           h.status # 0 => h.pc = "done", h.pc \in Active => Reaches(h), Owes(h) = {}
    PROVE  HInv'
  <1> DEFINE g == [h EXCEPT !.told = IF HubOpen(req[r].at) THEN @ \cup {what} ELSE @]
  <1>1. /\ req[r].at \in Instances
        /\ ~ req[r].overran => req[r].wrote = req[r].told \cup {what} /\ HubOpen(req[r].at)
    BY DEF HInv, Handling, Housed
  <1>2. /\ DOMAIN g = RequestFields /\ g.pc = h.pc /\ g.wrote = h.wrote /\ g.status = h.status
        /\ g.at = h.at /\ g.call = h.call /\ g.overran = h.overran
        /\ g.told = IF HubOpen(req[r].at) THEN h.told \cup {what} ELSE h.told
    BY DEF RequestFields
  <1>3. Looked(r, g)
    BY DEF Tell
  <1> HIDE DEF g
  <1>4. Handling(g)
    <2>1. Owes(g) = {} /\ (g.pc \in Active => Reaches(g))
      BY <1>2 DEF Reaches, Owes
    <2>2. ~ g.overran => g.wrote = g.told
      BY <1>1, <1>2 DEF SameRequest
    <2> QED BY <1>1, <1>2, <2>1, <2>2 DEF Handling, SameRequest
  <1> QED BY <1>2, <1>3, <1>4, OneRequest DEF Looked, SameRequest, bootVars, Open, HubOpen

LEMMA PublishKeeps == ASSUME HInv, NEW r \in Requests, PublishMedia(r) \/ Publish(r) PROVE HInv'
  <1>1. DOMAIN req[r] = RequestFields /\ (req[r].pc \in Active => Reaches(req[r]) /\ req[r].status = 0)
    BY DEF HInv, Handling, Active, Statements, Publishes
  <1>2. CASE PublishMedia(r)
    <2>1. req[r].pc = "publishMedia" /\ req[r].pc \in Active /\ Owes(req[r]) = {"media"}
      BY <1>2, PcsAreActive DEF PublishMedia, Owes
    <2>2. CASE Call(r).op = "add"
      <3> DEFINE h == Goto(r, "edit")
      <3>1. Tell(r, "media", h)
        BY <1>2, <2>2 DEF PublishMedia
      <3>2. /\ SameRequest(h, req[r]) /\ h.pc = "edit" /\ h.wrote = req[r].wrote /\ h.status = 0
            /\ DOMAIN h = RequestFields
        BY <1>1, <2>1, GotoFields DEF SameRequest
      <3> HIDE DEF h
      <3>3. Reaches(h) /\ Owes(h) = {}
        BY <2>2, <3>2 DEF Call, SameRequest, Reaches, Owes, Reads, Edits
      <3> QED BY <2>1, <3>1, <3>2, <3>3, TellPreserves
    <2>3. CASE Call(r).op # "add"
      <3> DEFINE h == Answer(r, 201)
      <3>1. Tell(r, "media", h)
        BY <1>2, <2>3 DEF PublishMedia
      <3>2. /\ SameRequest(h, req[r]) /\ h.pc = "done" /\ h.wrote = req[r].wrote
            /\ DOMAIN h = RequestFields
        BY <1>1, <2>1, AnswerFields DEF SameRequest
      <3> HIDE DEF h
      <3>3. Owes(h) = {} /\ h.pc \notin Active
        BY <3>2 DEF Owes, Active, Statements, Publishes
      <3> QED BY <2>1, <3>1, <3>2, <3>3, TellPreserves
    <2> QED BY <2>2, <2>3
  <1>3. CASE Publish(r)
    <2> DEFINE what == IF Call(r).op = "createWindow" THEN "window" ELSE "playlist"
               status == IF Call(r).op \in {"createWindow", "add"} THEN 201 ELSE 200
               h == Answer(r, status)
    <2>1. req[r].pc = "publish" /\ req[r].pc \in Active /\ Owes(req[r]) = {what}
      BY <1>3, PcsAreActive DEF Publish, Owes, Call
    <2>2. Tell(r, what, h)
      BY <1>3 DEF Publish
    <2> HIDE DEF what, status
    <2>3. /\ SameRequest(h, req[r]) /\ h.pc = "done" /\ h.wrote = req[r].wrote
          /\ DOMAIN h = RequestFields
      BY <1>1, <2>1, AnswerFields DEF SameRequest
    <2> HIDE DEF h
    <2>4. Owes(h) = {} /\ h.pc \notin Active
      BY <2>3 DEF Owes, Active, Statements, Publishes
    <2> QED BY <2>1, <2>2, <2>3, <2>4, TellPreserves
  <1> QED BY <1>2, <1>3

LEMMA FindKeeps == ASSUME HInv, NEW r \in Requests, FindWindow(r) \/ FindMedia(r) PROVE HInv'
  <1>1. DOMAIN req[r] = RequestFields /\ (req[r].pc \in Active => Reaches(req[r]))
    BY DEF HInv, Handling
  <1>2. CASE FindWindow(r)
    <2>1. req[r].pc = "findWindow" /\ req[r].pc \in Active /\ Owes(req[r]) = {}
      BY <1>2, PcsAreActive DEF FindWindow, Runs, Owes
    <2>2. CASE Looked(r, Answer(r, 404)) \/ Looked(r, Answer(r, 422))
      BY <2>1, <2>2, Answers, LookedPreserves
    <2>3. ASSUME NEW pc \in {"findMedia", "insertMedia"}, Looked(r, Goto(r, pc)), Call(r).op = "add"
          PROVE  HInv'
      <3> DEFINE h == Goto(r, pc)
      <3>1. SameRequest(h, req[r]) /\ h.pc = pc
        BY <1>1, GotoFields
      <3> HIDE DEF h
      <3>2. Reaches(h) /\ Owes(h) = Owes(req[r]) /\ pc \in Active
        BY <2>1, <2>3, <3>1, PcsAreActive DEF SameRequest, Reaches, Owes, Reads, Call
      <3> QED BY <2>1, <2>3, <3>2, Moves, LookedPreserves DEF h
    <2>4. CASE Looked(r, Onward(r)) /\ Call(r).op # "add"
      <3>1. Call(r).op = "playlist"
        BY <1>1, <2>1, <2>4 DEF Reaches, Call
      <3>2. Asks(Call(r).op, req[r].pc)
        <4>1. 1 \in DOMAIN Queries("playlist") /\ Queries("playlist")[1] = "findWindow"
          BY QueriesType
        <4> QED BY <2>1, <3>1, <4>1 DEF Asks
      <3> QED BY <2>1, <2>4, <3>2, OnwardMoves, LookedPreserves
    <2>5. \/ Looked(r, Answer(r, 404))
          \/ Call(r).op = "add" /\ Looked(r, ResolveMedia(r))
          \/ Call(r).op # "add" /\ Looked(r, Onward(r))
      BY <1>2 DEF FindWindow
    <2>6. ResolveMedia(r) \in {Answer(r, 422), Goto(r, "findMedia"), Goto(r, "insertMedia")}
      BY DEF ResolveMedia
    <2> QED BY <2>2, <2>3, <2>4, <2>5, <2>6
  <1>3. CASE FindMedia(r)
    <2>1. req[r].pc = "findMedia" /\ req[r].pc \in Active /\ Owes(req[r]) = {}
      BY <1>3, PcsAreActive DEF FindMedia, Runs, Owes
    <2> DEFINE m == CHOOSE m \in Call(r).mediaId : TRUE
               h == Goto(r, "edit")
    <2>2. Looked(r, [h EXCEPT !.media = m]) \/ Looked(r, Answer(r, 422))
      BY <1>3 DEF FindMedia
    <2> HIDE DEF m
    <2>3. SameRequest(h, req[r]) /\ h.pc = "edit"
      BY <1>1, GotoFields
    <2>4. Reaches(h) /\ Owes(h) = Owes(req[r]) /\ "edit" \in Active
      <3> HIDE DEF h
      <3> QED BY <1>1, <2>1, <2>3, PcsAreActive DEF SameRequest, Reaches, Owes, Reads, Edits
    <2>5. Handling(h)
      BY <2>1, <2>4, Moves
    <2> HIDE DEF h
    <2>6. Handling([h EXCEPT !.media = m]) /\ SameRequest([h EXCEPT !.media = m], req[r])
      BY <2>3, <2>5, Noted
    <2> QED BY <2>1, <2>2, <2>6, Answers, LookedPreserves
  <1> QED BY <1>2, <1>3

LEMMA EditKeeps == ASSUME IInv, HInv, NEW r \in Requests, EditPlaylist(r) PROVE HInv'
  <1>1. /\ req[r].pc = "edit" /\ req[r].pc \in Active
        /\ Owes(req[r]) = {}
    BY PcsAreActive DEF EditPlaylist, Runs, Owes
  <1>2. DOMAIN req[r] = RequestFields /\ req[r].status = 0 /\ req[r].call.op \in Edits
    BY <1>1 DEF HInv, Handling, Reaches
  <1> DEFINE h == Goto(r, "readWindow")
             a == [h EXCEPT !.item = serial.item]
  <1>3. /\ SameRequest(h, req[r]) /\ h.pc = "readWindow" /\ h.wrote = req[r].wrote /\ h.status = 0
    BY <1>2, GotoFields
  <1>4. CASE Looked(r, Answer(r, 404)) \/ Looked(r, Answer(r, 500))
    BY <1>1, <1>4, Answers, LookedPreserves
  <1>5. Asks(req[r].call.op, "readWindow")
    <2>1. \A op \in Edits : 1 \in DOMAIN Queries(op) /\ Queries(op)[1] = "readWindow"
      BY QueriesType
    <2> QED BY <1>2, <2>1 DEF Asks
  <1>6. CASE Stored(r, "playlist", h)
    <2> HIDE DEF h
    <2>1. Reaches(h) /\ Owes(h) = {"playlist"} /\ h.pc \in Active
      BY <1>2, <1>3, <1>5, PcsAreActive DEF SameRequest, Reaches, Owes, Reads
    <2> QED BY <1>1, <1>3, <1>6, <2>1, StoringPreserves
  <1>7. CASE Stored(r, "playlist", a)
    <2>1. SameRequest(a, req[r]) /\ a.pc = "readWindow" /\ a.wrote = req[r].wrote /\ a.status = 0
      <3> HIDE DEF h
      <3> QED BY <1>2, <1>3 DEF SameRequest, RequestFields
    <2> HIDE DEF a
    <2>2. Reaches(a) /\ Owes(a) = {"playlist"} /\ a.pc \in Active
      BY <1>2, <1>5, <2>1, PcsAreActive DEF SameRequest, Reaches, Owes, Reads
    <2> QED BY <1>1, <1>7, <2>1, <2>2, StoringPreserves
  <1> QED BY <1>4, <1>6, <1>7 DEF EditPlaylist

LEMMA ReadKeeps ==
    ASSUME HInv, NEW r \in Requests,
           ReadWindow(r) \/ ReadItems(r) \/ ListWindows(r) \/ ListItems(r) \/ ListMedia(r) \/ LiveSync(r)
    PROVE  HInv'
  <1>1. req[r].pc \in Reads /\ req[r].pc \in Active
    BY PcsAreActive DEF ReadWindow, ReadItems, ListWindows, ListItems, ListMedia, LiveSync, Runs, Reads
  <1>2. Asks(Call(r).op, req[r].pc)
    BY <1>1 DEF HInv, Handling, Reaches, Call
  <1> DEFINE h == Onward(r)
  <1>3. Handling(h) /\ SameRequest(h, req[r])
    BY <1>1, <1>2, OnwardMoves
  <1>4. \/ Looked(r, h) \/ Looked(r, Answer(r, 404))
        \/ \E v : Looked(r, [h EXCEPT !.read = v]) \/ Looked(r, [h EXCEPT !.listed = v])
    BY DEF ReadWindow, ReadItems, ListWindows, ListItems, ListMedia, LiveSync
  <1> HIDE DEF h
  <1>5. \A v : /\ Handling([h EXCEPT !.read = v]) /\ SameRequest([h EXCEPT !.read = v], req[r])
               /\ Handling([h EXCEPT !.listed = v]) /\ SameRequest([h EXCEPT !.listed = v], req[r])
    BY <1>3, Noted
  <1> QED BY <1>1, <1>3, <1>4, <1>5, Answers, LookedPreserves

LEMMA FailingKeeps == ASSUME HInv, NEW r \in Requests, StatementFails(r) PROVE HInv'
  <1>0. PICK status \in FailureStatuses(Call(r)) : Looked(r, Faulted(r, status))
    BY DEF StatementFails
  <1> DEFINE h == Answer(r, status)
  <1>1. /\ req[r].pc \in Active /\ Looked(r, [h EXCEPT !.faulted = TRUE])
        /\ status \in {400, 500, 503}
    BY <1>0, PcsAreActive DEF StatementFails, Faulted, FailureStatuses
  <1>2. Handling(h) /\ SameRequest(h, req[r])
    BY <1>1, Answers
  <1> HIDE DEF h
  <1>3. Handling([h EXCEPT !.faulted = TRUE]) /\ SameRequest([h EXCEPT !.faulted = TRUE], req[r])
    BY <1>2, Noted
  <1> QED BY <1>1, <1>3, LookedPreserves

\* A request that has arrived is one of these.
LEMMA Arrivals ==
    ASSUME HInv, NEW r \in Requests, NEW i \in Instances, NEW c, Arrive(r, i, c)
    PROVE  \E h : /\ req' = [req EXCEPT ![r] = h] /\ DOMAIN h = RequestFields
                  /\ h.at = i /\ h.call = c /\ h.wipes = wipes /\ h.wrote = {} /\ h.told = {}
                  /\ ~ h.faulted /\ ~ h.overran /\ h.read = <<>> /\ h.listed = {}
                  /\ \/ h.pc = "done" /\ h.status \in {400, 422}
                     \/ /\ h.pc = FirstStep(c.op) /\ h.status = 0 /\ ~ BadRequest(c) /\ ~ Invalid(c)
                        /\ h.window = (IF "window" \in DOMAIN c THEN c.window ELSE 0)
                        /\ h.item = (IF "item" \in DOMAIN c THEN c.item ELSE 0)
                        /\ h.media = 0
  <1> DEFINE w == IF "window" \in DOMAIN c THEN c.window ELSE 0
             t == IF "item" \in DOMAIN c THEN c.item ELSE 0
             g == [NewRequest EXCEPT !.at = i, !.call = c, !.wipes = wipes, !.window = w, !.item = t]
             h == IF BadRequest(c) THEN [g EXCEPT !.pc = "done", !.status = 400]
                  ELSE IF Invalid(c) THEN [g EXCEPT !.pc = "done", !.status = 422]
                  ELSE [g EXCEPT !.pc = FirstStep(c.op)]
  <1>1. req' = [req EXCEPT ![r] = h]
    BY DEF Arrive, Handler
  <1> HIDE DEF w, t
  <1>2. /\ DOMAIN g = RequestFields
        /\ g.at = i /\ g.call = c /\ g.wipes = wipes /\ g.wrote = {} /\ g.told = {}
        /\ ~ g.faulted /\ ~ g.overran /\ g.read = <<>> /\ g.listed = {} /\ g.status = 0
        /\ g.window = w /\ g.item = t /\ g.media = 0
    BY DEF NewRequest, RequestFields
  <1> HIDE DEF g
  <1>3. CASE BadRequest(c)
    <2>1. h = [g EXCEPT !.pc = "done", !.status = 400]
      BY <1>3
    <2> HIDE DEF h
    <2>2. /\ DOMAIN h = RequestFields
          /\ h.at = i /\ h.call = c /\ h.wipes = wipes /\ h.wrote = {} /\ h.told = {}
          /\ ~ h.faulted /\ ~ h.overran /\ h.read = <<>> /\ h.listed = {}
          /\ h.pc = "done" /\ h.status \in {400, 422}
      BY <1>2, <2>1 DEF RequestFields
    <2> QED BY <1>1, <2>2
  <1>4. CASE ~ BadRequest(c) /\ Invalid(c)
    <2>1. h = [g EXCEPT !.pc = "done", !.status = 422]
      BY <1>4
    <2> HIDE DEF h
    <2>2. /\ DOMAIN h = RequestFields
          /\ h.at = i /\ h.call = c /\ h.wipes = wipes /\ h.wrote = {} /\ h.told = {}
          /\ ~ h.faulted /\ ~ h.overran /\ h.read = <<>> /\ h.listed = {}
          /\ h.pc = "done" /\ h.status \in {400, 422}
      BY <1>2, <2>1 DEF RequestFields
    <2> QED BY <1>1, <2>2
  <1>5. CASE ~ BadRequest(c) /\ ~ Invalid(c)
    <2>1. h = [g EXCEPT !.pc = FirstStep(c.op)]
      BY <1>5
    <2> HIDE DEF h
    <2>2. /\ DOMAIN h = RequestFields
          /\ h.at = i /\ h.call = c /\ h.wipes = wipes /\ h.wrote = {} /\ h.told = {}
          /\ ~ h.faulted /\ ~ h.overran /\ h.read = <<>> /\ h.listed = {}
          /\ h.pc = FirstStep(c.op) /\ h.status = 0 /\ h.window = w /\ h.item = t /\ h.media = 0
      BY <1>2, <2>1 DEF RequestFields
    <2> QED BY <1>1, <1>5, <2>2 DEF w, t
  <1> QED BY <1>3, <1>4, <1>5

LEMMA ArriveKeeps ==
    ASSUME HInv, NEW r \in Requests, NEW i \in Instances, NEW c, Arrive(r, i, c) PROVE HInv'
  <1>1. PICK h : /\ req' = [req EXCEPT ![r] = h] /\ DOMAIN h = RequestFields
                 /\ h.at = i /\ h.call = c /\ h.wrote = {} /\ h.told = {}
                 /\ \/ h.pc = "done" /\ h.status \in {400, 422}
                    \/ h.pc = FirstStep(c.op) /\ h.status = 0
    BY Arrivals
  <1>2. UNCHANGED inst /\ inst[i].pc = "serving"
    BY DEF Arrive, bootVars
  <1>3. h.pc \in Active => Reaches(h) /\ Owes(h) = {}
    BY <1>1, FirstStepType DEF Reaches, Owes, Active, Statements, Publishes, Reads
  <1>4. Handling(h)
    BY <1>1, <1>3 DEF Handling
  <1>5. DOMAIN req' = Requests /\ req'[r] = h /\ \A q \in Requests \ {r} : req'[q] = req[q]
    BY <1>1 DEF HInv
  <1>6. Housed(r)'
    BY <1>1, <1>2, <1>5 DEF Housed, HubOpen
  <1> QED BY <1>2, <1>4, <1>5, <1>6 DEF HInv, Housed, HubOpen

LEMMA HInductive == ASSUME env \in Environments, IInv, HInv, [Next]_vars PROVE HInv'
  <1>1. CASE \E i \in Instances : Process(i)
    BY <1>1, ProcessKeepsRequests
  <1>2. CASE \E r \in env.requests, i \in Instances, c \in env.calls : Arrive(r, i, c) /\ UNCHANGED env
    <2>1. env.requests \subseteq Requests
      BY RequestsAssumption
    <2> QED BY <1>2, <2>1, ArriveKeeps
  <1>3. ASSUME NEW r \in Requests, Serving(r) PROVE HInv'
    BY <1>3, CreateWindowKeeps, CreateMediaKeeps, PublishKeeps, FindKeeps, EditKeeps, ReadKeeps, FailingKeeps
       DEF Serving
  <1>4. CASE UNCHANGED vars
    BY <1>4, StillHoused DEF vars, bootVars, Open, HubOpen
  <1> QED BY <1>1, <1>2, <1>3, <1>4 DEF Next

LEMMA HInitially == ASSUME Init PROVE HInv
  <1>1. /\ DOMAIN NewRequest = RequestFields /\ NewRequest.pc = "idle" /\ NewRequest.status = 0
        /\ NewRequest.pc \notin Active
    BY DEF NewRequest, RequestFields, Active, Statements, Publishes
  <1>2. DOMAIN req = Requests /\ \A r \in Requests : req[r] = NewRequest
    BY DEF Init
  <1> QED BY <1>1, <1>2 DEF HInv, Handling, Housed

LEMMA EnvironmentStays == Spec => [](env \in Environments)
  <1>1. Init => env \in Environments
    BY DEF Init
  <1>2. env \in Environments /\ [Next]_vars => (env \in Environments)'
    BY DEF Next, Process, Booting, vars
  <1> QED BY <1>1, <1>2, PTL DEF Spec

LEMMA HInvariance == Spec => []HInv
  <1>1. Init => HInv
    BY HInitially
  <1>2. env \in Environments /\ IInv /\ HInv /\ [Next]_vars => HInv'
    BY HInductive
  <1> QED BY <1>1, <1>2, Invariance, EnvironmentStays, PTL DEF Spec

\* An operator who is told of a success was told of what an open hub was told of:
\* every change the handler stored is published before the answer, and while
\* Shutdown waits for the handlers the hub stays open.
THEOREM ChangesAlwaysTold == Spec => []ChangesAreTold
  <1>1. HInv => ChangesAreTold
    <2> SUFFICES ASSUME HInv, NEW r \in Requests, req[r].status \in {200, 201}, ~ req[r].overran
                 PROVE  req[r].told = req[r].wrote
      BY DEF ChangesAreTold
    <2>1. Handling(req[r]) /\ req[r].pc = "done"
      BY DEF HInv, Handling
    <2>2. Owes(req[r]) = {}
      BY <2>1 DEF Owes
    <2> QED BY <2>1, <2>2 DEF Handling
  <1> QED BY <1>1, HInvariance, PTL

-----------------------------------------------------------------------------
(* What a handler knows of the tables.                                     *)

\* Its call has been accepted, and it has stored nothing before its first change.
Valid(h, calls) ==
    /\ h.pc \in Active \cup {"idle", "done", "lost"}
    /\ h.status \in {0, 200, 201, 400, 404, 422, 500, 503}
    /\ h.pc \in Active => h.call \in calls /\ ~ BadRequest(h.call) /\ ~ Invalid(h.call)
    /\ h.pc = "insertMedia" => h.call.input # {} /\ Validate(Input(h.call))
    /\ \/ h.pc \in {"insertWindow", "insertMedia", "findWindow", "findMedia"}
       \/ h.pc = "edit" /\ h.call.op # "add"
       \/ h.pc \in Reads /\ h.call.op \notin Edits
       => h.wrote = {}

\* The media of the items that were read are in M.
Covered(read, M) == \A w \in DOMAIN read : \A k \in DOMAIN read[w] : read[w][k].media \in M

\* What the server may answer with an error of its own.
Excused(c, W) ==
    \/ /\ c.op = "createWindow"
       /\ LET name == TrimSpace(c.name) IN (\E w \in DOMAIN W : W[w].name = name) \/ name \in Nul
    \/ /\ c.op \in {"createMedia", "add"} /\ c.input # {}
       /\ LET in == Input(c) IN in.name \in Nul \/ in.url = "nul"

\* What a handler has found in the tables W and M is there, a snapshot is whole,
\* and a refusal was right.
Informed(h, W, M) ==
    /\ \/ h.call.op = "add" /\ h.pc \in {"insertMedia", "publishMedia", "findMedia", "edit"}
       \/ h.call.op \in Edits /\ h.pc = "readWindow"
       => h.window \in DOMAIN W
    /\ h.call.op = "add" /\ h.pc \in {"publishMedia", "edit"} => h.media \in M
    /\ h.call.op \in {"state", "health"} =>
          /\ h.pc = "listMedia" => Covered(h.read, M)
          /\ h.pc = "liveSync" \/ h.status = 200 => Covered(h.read, h.listed)
    /\ h.status >= 400 /\ ~ h.faulted => h.wrote = {} /\ (h.status >= 500 => Excused(h.call, W))

RInv ==
    \A r \in Requests :
        /\ Valid(req[r], env.calls)
        /\ req[r].wipes \in 0 .. wipes
        /\ req[r].wipes = wipes => Informed(req[r], windows, Rows(media))

LEMMA InformedGrows ==
    ASSUME NEW h, NEW W, NEW M, NEW V, NEW N, Informed(h, W, M), NamesKept(W, V), M \subseteq N
    PROVE  Informed(h, V, N)
  <1>1. \A w \in DOMAIN W : w \in DOMAIN V /\ V[w].name = W[w].name
    BY DEF NamesKept
  <1>2. Covered(h.read, M) => Covered(h.read, N)
    BY DEF Covered
  <1>3. Excused(h.call, W) => Excused(h.call, V)
    BY <1>1 DEF Excused
  <1> QED BY <1>1, <1>2, <1>3 DEF Informed

\* A request that takes no step stays informed, whatever happens to the tables.
LEMMA StaysInformed ==
    ASSUME TablesInv, RInv, Grows, NEW r \in Requests
    PROVE  /\ req[r].wipes \in 0 .. wipes'
           /\ req[r].wipes = wipes' => Informed(req[r], windows', Rows(media)')
  <1>1. wipes \in Nat /\ req[r].wipes \in 0 .. wipes
    BY DEF TablesInv, RInv
  <1>2. CASE wipes' = wipes + 1
    BY <1>1, <1>2
  <1>3. CASE wipes' = wipes /\ NamesKept(windows, windows') /\ Rows(media) \subseteq Rows(media')
    <2>1. req[r].wipes = wipes => Informed(req[r], windows, Rows(media))
      BY DEF RInv
    <2> QED BY <1>1, <1>3, <2>1, InformedGrows DEF Rows
  <1> QED BY <1>2, <1>3 DEF Grows

LEMMA UnmovedInformed ==
    ASSUME TablesInv, RInv, Grows, UNCHANGED <<env, req>> PROVE RInv'
  <1>1. \A r \in Requests : Valid(req[r], env.calls)
    BY DEF RInv
  <1> QED BY <1>1, StaysInformed DEF RInv, Rows

\* One request takes a step.
LEMMA OneInformed ==
    ASSUME TablesInv, RInv, HInv, Grows, env' = env, NEW r \in Requests, NEW h, req' = [req EXCEPT ![r] = h],
           Valid(h, env.calls), h.wipes \in 0 .. wipes',
           h.wipes = wipes' => Informed(h, windows', Rows(media)')
    PROVE  RInv'
  <1>1. req'[r] = h /\ \A q \in Requests \ {r} : req'[q] = req[q]
    BY DEF HInv
  <1>2. \A q \in Requests : Valid(req[q], env.calls)
    BY DEF RInv
  <1>3. ASSUME NEW q \in Requests
        PROVE  /\ Valid(req'[q], env.calls) /\ req'[q].wipes \in 0 .. wipes'
               /\ req'[q].wipes = wipes' => Informed(req'[q], windows', Rows(media)')
    <2>1. CASE q = r
      BY <1>1, <2>1
    <2>2. CASE q # r
      BY <1>1, <1>2, <2>2, StaysInformed
    <2> QED BY <2>1, <2>2
  <1> QED BY <1>3 DEF RInv, Rows

LEMMA LookedFits ==
    ASSUME TablesInv, BInv, NEW r, NEW h, Looked(r, h) PROVE TablesInv' /\ BInv'
  <1>1. UNCHANGED tables /\ UNCHANGED <<inst, holder, applied>>
    BY DEF Looked, bootVars
  <1>2. TablesInv' /\ windows' = windows /\ media' = media
    BY <1>1, TablesStay
  <1>3. BInv'
    BY <1>1, <1>2 DEF BInv, Rows
  <1> QED BY <1>2, <1>3

LEMMA LookedInformed ==
    ASSUME TablesInv, RInv, HInv, env' = env, NEW r \in Requests, NEW h, Looked(r, h),
           Valid(h, env.calls), h.wipes = req[r].wipes,
           h.wipes = wipes => Informed(h, windows, Rows(media))
    PROVE  RInv'
  <1>1. UNCHANGED tables /\ req' = [req EXCEPT ![r] = h]
    BY DEF Looked, Handler
  <1>2. Grows /\ wipes' = wipes /\ windows' = windows /\ media' = media
    BY <1>1, TablesStay
  <1>3. h.wipes \in 0 .. wipes'
    BY <1>2 DEF RInv
  <1>4. h.wipes = wipes' => Informed(h, windows', Rows(media)')
    BY <1>2 DEF Rows
  <1> QED BY <1>1, <1>2, <1>3, <1>4, OneInformed

\* Something is stored, and the handler goes on or does not learn of it.
LEMMA StoredInformed ==
    ASSUME TablesInv, RInv, HInv, Grows, wipes' = wipes, env' = env, NEW r \in Requests, NEW what, NEW h,
           Stored(r, what, h), req[r].pc \in Active, SameRequest(h, req[r]), h.status = 0,
           h.pc \in {"publish", "publishMedia", "readWindow"},
           h.pc = "readWindow" => h.call.op \in Edits,
           h.wipes = wipes => Informed(h, windows', Rows(media)')
    PROVE  RInv'
  <1>1. /\ DOMAIN req[r] = RequestFields /\ Valid(req[r], env.calls) /\ req[r].wipes \in 0 .. wipes
    BY DEF HInv, Handling, RInv
  <1>2. CASE Handler(r, [h EXCEPT !.wrote = @ \cup {what}])
    <2> DEFINE g == [h EXCEPT !.wrote = @ \cup {what}]
    <2>1. /\ g.pc = h.pc /\ g.call = h.call /\ g.status = 0 /\ g.wipes = h.wipes
          /\ g.window = h.window /\ g.media = h.media /\ g.read = h.read /\ g.listed = h.listed
      BY <1>1 DEF SameRequest, RequestFields
    <2>2. req' = [req EXCEPT ![r] = g]
      BY <1>2 DEF Handler
    <2> HIDE DEF g
    <2>3. /\ g.call = req[r].call /\ g.wipes = req[r].wipes
          /\ g.pc \in {"publish", "publishMedia", "readWindow"}
          /\ g.pc = "readWindow" => g.call.op \in Edits
      BY <2>1 DEF SameRequest
    <2>4. Valid(g, env.calls)
      BY <1>1, <2>1, <2>3 DEF Valid, Active, Statements, Publishes, Reads
    <2>5. g.wipes = wipes' => Informed(g, windows', Rows(media)')
      BY <2>1 DEF Informed
    <2> QED BY <1>1, <2>2, <2>3, <2>4, <2>5, OneInformed
  <1>3. ASSUME NEW status \in FailureStatuses(Call(r)),
               Handler(r, [Faulted(r, status) EXCEPT !.wrote = @ \cup {what}])
        PROVE  RInv'
    <2> DEFINE a == Answer(r, status)
               g == [[a EXCEPT !.faulted = TRUE] EXCEPT !.wrote = @ \cup {what}]
    <2>1. /\ SameRequest(a, req[r]) /\ a.pc = "done" /\ DOMAIN a = RequestFields
          /\ a.status = status /\ status \in {400, 500, 503}
      BY <1>1, AnswerFields DEF SameRequest, FailureStatuses
    <2>2. req' = [req EXCEPT ![r] = g]
      BY <1>3 DEF Handler, Faulted
    <2> HIDE DEF a
    <2>3. g.pc = "done" /\ g.status \in {400, 500, 503} /\ g.faulted /\ g.wipes = req[r].wipes
      BY <2>1 DEF SameRequest, RequestFields
    <2> HIDE DEF g
    <2>4. Valid(g, env.calls)
      BY <2>3 DEF Valid, Active, Statements, Publishes, Reads
    <2>5. Informed(g, windows', Rows(media)')
      BY <2>3 DEF Informed
    <2> QED BY <1>1, <2>2, <2>3, <2>4, <2>5, OneInformed
  <1> QED BY <1>2, <1>3 DEF Stored

\* What is known of a handler under way.
LEMMA Known ==
    ASSUME RInv, HInv, NEW r \in Requests, req[r].pc \in Active
    PROVE  /\ DOMAIN req[r] = RequestFields /\ req[r].status = 0 /\ Reaches(req[r])
           /\ req[r].call \in env.calls /\ ~ BadRequest(req[r].call) /\ ~ Invalid(req[r].call)
           /\ Valid(req[r], env.calls)
           /\ req[r].wipes = wipes => Informed(req[r], windows, Rows(media))
  <1>1. Handling(req[r]) /\ Valid(req[r], env.calls) /\ (req[r].wipes = wipes => Informed(req[r], windows, Rows(media)))
    BY DEF HInv, RInv
  <1>2. req[r].pc # "done"
    BY DEF Active, Statements, Publishes
  <1> QED BY <1>1, <1>2 DEF Handling, Valid

\* A refusal that is right.
LEMMA RefusedInformed ==
    ASSUME TablesInv, RInv, HInv, env' = env, NEW r \in Requests, NEW status \in {404, 422, 500},
           Looked(r, Answer(r, status)), req[r].pc \in Active,
           req[r].wipes = wipes => req[r].wrote = {} /\ (status = 500 => Excused(req[r].call, windows))
    PROVE  RInv'
  <1> DEFINE h == Answer(r, status)
  <1>1. /\ SameRequest(h, req[r]) /\ h.pc = "done" /\ h.status = status /\ h.wrote = req[r].wrote
    BY Known, AnswerFields
  <1>2. Looked(r, h)
    OBVIOUS
  <1> HIDE DEF h
  <1>3. Valid(h, env.calls)
    BY <1>1 DEF Valid, Active, Statements, Publishes, Reads
  <1>4. h.wipes = wipes => Informed(h, windows, Rows(media))
    BY <1>1 DEF Informed, SameRequest
  <1> QED BY <1>1, <1>2, <1>3, <1>4, LookedInformed DEF SameRequest

LEMMA FailingInformed ==
    ASSUME TablesInv, RInv, HInv, env' = env, NEW r \in Requests, StatementFails(r) PROVE RInv'
  <1>0. PICK status \in FailureStatuses(Call(r)) : Looked(r, Faulted(r, status))
    BY DEF StatementFails
  <1> DEFINE a == Answer(r, status)
             h == [a EXCEPT !.faulted = TRUE]
  <1>1. req[r].pc \in Active /\ Looked(r, h) /\ status \in {400, 500, 503}
    BY <1>0, PcsAreActive DEF StatementFails, Faulted, FailureStatuses
  <1>2. /\ SameRequest(a, req[r]) /\ a.pc = "done" /\ a.status = status /\ DOMAIN a = RequestFields
    BY <1>1, Known, AnswerFields DEF SameRequest
  <1> HIDE DEF a
  <1>3. h.pc = "done" /\ h.status \in {400, 500, 503} /\ h.faulted /\ h.wipes = req[r].wipes
    BY <1>1, <1>2 DEF SameRequest, RequestFields
  <1> HIDE DEF h
  <1>4. Valid(h, env.calls)
    BY <1>3 DEF Valid, Active, Statements, Publishes, Reads
  <1>5. Informed(h, windows, Rows(media))
    BY <1>3 DEF Informed
  <1> QED BY <1>1, <1>3, <1>4, <1>5, LookedInformed

\* The table takes what Validate accepts, unless there is a NUL in it.
LEMMA AcceptedMedia ==
    ASSUME NEW x, Validate(Normalize(x)), ~ StorableMedia(Normalize(x))
    PROVE  Normalize(x).name \in Nul \/ Normalize(x).url = "nul"
  <1> DEFINE in == Normalize(x)
  <1>1. in.type = "blank" => in.url = ""
    BY DEF Normalize
  <1> HIDE DEF in
  <1>2. Validate(in) /\ ~ StorableMedia(in)
    BY DEF in
  <1>3. in.name # "" /\ in.type \in Types /\ in.duration \in MinDurationSeconds .. MaxDurationSeconds
    BY <1>2 DEF Validate, ValidName
  <1>4. RequiresURL(in.type) => in.url # ""
    BY <1>2 DEF Validate, ValidMediaURL, AcceptedForms
  <1>5. ~ RequiresURL(in.type) => in.url = ""
    BY <1>1, <1>3 DEF Types, RequiresURL
  <1>6. in.name \in Nul \/ in.url = "nul"
    BY <1>2, <1>3, <1>4, <1>5 DEF StorableMedia, StorableName
  <1> QED BY <1>6 DEF in

LEMMA CreateWindowFits ==
    ASSUME IInv, TablesInv, BInv, RInv, HInv, env' = env, NEW r \in Requests, CreateWindow(r)
    PROVE  TablesInv' /\ BInv' /\ RInv'
  <1> DEFINE name == TrimSpace(Call(r).name)
             h == [Goto(r, "publish") EXCEPT !.window = serial.window]
  <1>1. /\ req[r].pc = "insertWindow" /\ req[r].pc \in Active /\ PoolOpen(req[r].at)
    BY PcsAreActive DEF CreateWindow, Runs
  <1>2. /\ DOMAIN req[r] = RequestFields /\ req[r].status = 0 /\ req[r].call.op = "createWindow"
        /\ req[r].wrote = {} /\ ValidName(name)
    BY <1>1, Known DEF Reaches, Valid, Invalid, Call
  <1>3. CASE (~ StorableName(name) \/ NameTaken(name)) /\ Looked(r, Answer(r, 500))
    <2>1. Excused(req[r].call, windows)
      BY <1>2, <1>3 DEF Excused, StorableName, ValidName, NameTaken, Rows, Call
    <2>2. RInv'
      BY <1>1, <1>2, <1>3, <2>1, RefusedInformed
    <2> QED BY <1>3, <2>2, LookedFits
  <1>4. CASE StorableName(name) /\ ~ NameTaken(name) /\ InsertWindow(name) /\ Stored(r, "window", h)
    <2>1. TablesInv' /\ Grows /\ wipes' = wipes
      BY <1>4, InsertWindowKeeps
    <2>2. SameRequest(h, req[r]) /\ h.pc = "publish" /\ h.status = 0
      <3>1. LET g == Goto(r, "publish") IN SameRequest(g, req[r]) /\ g.pc = "publish" /\ g.status = 0
        BY <1>2, GotoFields
      <3> QED BY <1>2, <3>1 DEF SameRequest, RequestFields
    <2>3. Stored(r, "window", h)
      BY <1>4
    <2> HIDE DEF h
    <2>4. Informed(h, windows', Rows(media)')
      BY <1>2, <2>2 DEF Informed, SameRequest
    <2>5. RInv'
      BY <1>1, <2>1, <2>2, <2>3, <2>4, StoredInformed
    <2>6. BInv'
      BY <1>1, <2>3, StoredFits
    <2> QED BY <2>1, <2>5, <2>6
  <1> QED BY <1>3, <1>4 DEF CreateWindow

LEMMA CreateMediaFits ==
    ASSUME IInv, TablesInv, BInv, RInv, HInv, env' = env, NEW r \in Requests, CreateMedia(r)
    PROVE  TablesInv' /\ BInv' /\ RInv'
  <1> DEFINE in == Input(Call(r))
             h == [Goto(r, "publishMedia") EXCEPT !.media = serial.media]
  <1>1. /\ req[r].pc = "insertMedia" /\ req[r].pc \in Active /\ PoolOpen(req[r].at)
    BY PcsAreActive DEF CreateMedia, Runs
  <1>2. /\ DOMAIN req[r] = RequestFields /\ req[r].status = 0 /\ req[r].call.op \in {"createMedia", "add"}
        /\ req[r].wrote = {} /\ req[r].call.input # {} /\ Validate(in)
        /\ req[r].wipes = wipes => Informed(req[r], windows, Rows(media))
    BY <1>1, Known DEF Reaches, Valid, Call
  <1>3. CASE ~ StorableMedia(in) /\ Looked(r, Answer(r, 500))
    <2>1. in.name \in Nul \/ in.url = "nul"
      BY <1>2, <1>3, AcceptedMedia DEF Input
    <2>2. Excused(req[r].call, windows)
      BY <1>2, <2>1 DEF Excused, Call
    <2>3. RInv'
      BY <1>1, <1>2, <1>3, <2>2, RefusedInformed
    <2> QED BY <1>3, <2>3, LookedFits
  <1>4. CASE StorableMedia(in) /\ InsertMedia(in) /\ Stored(r, "media", h)
    <2>1. /\ TablesInv' /\ Grows /\ wipes' = wipes /\ windows' = windows
          /\ serial.media \in Rows(media)'
      BY <1>4, InsertMediaKeeps
    <2>2. /\ SameRequest(h, req[r]) /\ h.pc = "publishMedia" /\ h.status = 0
          /\ h.media = serial.media /\ h.window = req[r].window
      <3>1. LET g == Goto(r, "publishMedia")
            IN  SameRequest(g, req[r]) /\ g.pc = "publishMedia" /\ g.status = 0 /\ g.window = req[r].window
        BY <1>2, GotoFields
      <3> QED BY <1>2, <3>1 DEF SameRequest, RequestFields
    <2>3. Stored(r, "media", h)
      BY <1>4
    <2> HIDE DEF h
    <2>4. h.wipes = wipes => Informed(h, windows', Rows(media)')
      <3> SUFFICES ASSUME req[r].wipes = wipes PROVE Informed(h, windows', Rows(media)')
        BY <2>2 DEF SameRequest
      <3>1. req[r].call.op = "add" => h.window \in DOMAIN windows'
        BY <1>1, <1>2, <2>1, <2>2 DEF Informed
      <3> QED BY <1>2, <2>1, <2>2, <3>1 DEF Informed, SameRequest
    <2>5. RInv'
      BY <1>1, <2>1, <2>2, <2>3, <2>4, StoredInformed
    <2>6. BInv'
      BY <1>1, <2>3, StoredFits
    <2> QED BY <2>1, <2>5, <2>6
  <1> QED BY <1>3, <1>4 DEF CreateMedia

LEMMA TellInformed ==
    ASSUME TablesInv, RInv, HInv, env' = env, NEW r \in Requests, NEW what, NEW h, Tell(r, what, h),
           DOMAIN h = RequestFields, h.wipes = req[r].wipes, Valid(h, env.calls),
           h.wipes = wipes => Informed(h, windows, Rows(media))
    PROVE  RInv'
  <1> DEFINE g == [h EXCEPT !.told = IF HubOpen(req[r].at) THEN @ \cup {what} ELSE @]
  <1>1. Looked(r, g)
    BY DEF Tell
  <1>2. /\ g.pc = h.pc /\ g.call = h.call /\ g.status = h.status /\ g.wipes = h.wipes /\ g.wrote = h.wrote
        /\ g.window = h.window /\ g.media = h.media /\ g.read = h.read /\ g.listed = h.listed
        /\ g.faulted = h.faulted
    BY DEF RequestFields
  <1> HIDE DEF g
  <1>3. Valid(g, env.calls)
    BY <1>2 DEF Valid
  <1>4. g.wipes = wipes => Informed(g, windows, Rows(media))
    BY <1>2 DEF Informed
  <1> QED BY <1>1, <1>2, <1>3, <1>4, LookedInformed

LEMMA PublishFits ==
    ASSUME TablesInv, RInv, HInv, env' = env, NEW r \in Requests, PublishMedia(r) \/ Publish(r)
    PROVE  RInv'
  <1>1. req[r].pc \in {"publishMedia", "publish"} /\ req[r].pc \in Active
    BY PcsAreActive DEF PublishMedia, Publish
  <1>2. /\ DOMAIN req[r] = RequestFields /\ req[r].status = 0 /\ Reaches(req[r])
        /\ Valid(req[r], env.calls)
        /\ req[r].wipes = wipes => Informed(req[r], windows, Rows(media))
    BY <1>1, Known
  <1>3. req[r].call.op \notin {"state", "health"}
    BY <1>1, <1>2 DEF Reaches, Edits
  <1>4. ASSUME NEW what, NEW status \in {200, 201}, Tell(r, what, Answer(r, status)) PROVE RInv'
    <2> DEFINE h == Answer(r, status)
    <2>1. SameRequest(h, req[r]) /\ h.pc = "done" /\ h.status = status
      BY <1>2, AnswerFields
    <2>2. Tell(r, what, h)
      BY <1>4
    <2> HIDE DEF h
    <2>3. DOMAIN h = RequestFields /\ h.wipes = req[r].wipes /\ h.call = req[r].call
      BY <1>2, <2>1 DEF SameRequest
    <2>4. Valid(h, env.calls)
      BY <2>1 DEF Valid, Active, Statements, Publishes, Reads
    <2>5. Informed(h, windows, Rows(media))
      BY <1>3, <2>1, <2>3 DEF Informed
    <2> QED BY <2>2, <2>3, <2>4, <2>5, TellInformed
  <1>5. CASE PublishMedia(r) /\ Call(r).op = "add"
    <2> DEFINE h == Goto(r, "edit")
    <2>1. /\ SameRequest(h, req[r]) /\ h.pc = "edit" /\ h.status = 0
          /\ h.window = req[r].window /\ h.media = req[r].media
      BY <1>2, GotoFields
    <2>2. Tell(r, "media", h) /\ req[r].pc = "publishMedia" /\ req[r].call.op = "add"
      BY <1>5 DEF PublishMedia, Call
    <2> HIDE DEF h
    <2>3. DOMAIN h = RequestFields /\ h.wipes = req[r].wipes /\ h.call = req[r].call
      BY <1>2, <2>1 DEF SameRequest
    <2>4. Valid(h, env.calls)
      BY <1>1, <1>2, <2>1, <2>2, <2>3 DEF Valid, Reads, Active, Statements, Publishes
    <2>5. h.wipes = wipes => Informed(h, windows, Rows(media))
      BY <1>2, <2>1, <2>2, <2>3 DEF Informed
    <2> QED BY <2>2, <2>3, <2>4, <2>5, TellInformed
  <1>6. CASE PublishMedia(r) /\ Call(r).op # "add"
    BY <1>4, <1>6 DEF PublishMedia
  <1>7. CASE Publish(r)
    <2> DEFINE what == IF Call(r).op = "createWindow" THEN "window" ELSE "playlist"
               status == IF Call(r).op \in {"createWindow", "add"} THEN 201 ELSE 200
    <2>1. Tell(r, what, Answer(r, status)) /\ status \in {200, 201}
      BY <1>7 DEF Publish
    <2> HIDE DEF what, status
    <2> QED BY <1>4, <2>1
  <1> QED BY <1>5, <1>6, <1>7

\* A read that is not a snapshot goes on to a statement or an answer that knows
\* nothing yet of the tables, except that an edit re-reads its window.
LEMMA OnwardPlain ==
    ASSUME NEW r, DOMAIN req[r] = RequestFields, Asks(Call(r).op, req[r].pc),
           req[r].pc \in Active, req[r].status = 0
    PROVE  LET h == Onward(r)
           IN  /\ SameRequest(h, req[r]) /\ h.wrote = req[r].wrote /\ h.faulted = req[r].faulted
               /\ h.window = req[r].window /\ h.read = req[r].read /\ h.listed = req[r].listed
               /\ \/ h.status = 0 /\ h.pc \in Reads \cup {"findWindow"} /\ (Call(r).op \in Edits => h.pc = "readItems")
                  \/ h.status = 0 /\ h.pc = "publish" /\ Call(r).op \in Edits
                  \/ h.status = 200 /\ h.pc = "done" /\ Call(r).op \notin Edits
  <1> DEFINE op == Call(r).op
             queries == Queries(op)
             k == CHOOSE j \in DOMAIN queries : queries[j] = req[r].pc
  <1>1. k \in DOMAIN queries /\ queries[k] = req[r].pc
    BY DEF Asks
  <1>2. /\ queries \in Seq(Reads \cup {"findWindow"}) /\ Len(queries) \in 1 .. 4
        /\ op \in Edits => Len(queries) = 2 /\ queries[1] = "readWindow" /\ queries[2] = "readItems"
    BY QueriesType
  <1>3. Onward(r) = IF k < Len(queries) THEN Goto(r, queries[k + 1])
                    ELSE IF op \in Edits THEN Goto(r, "publish") ELSE Answer(r, 200)
    BY DEF Onward
  <1> HIDE DEF queries, k, op
  <1>4. CASE k < Len(queries)
    <2> DEFINE next == queries[k + 1]
    <2>1. k \in 1 .. Len(queries) /\ Len(queries) \in Nat
      BY <1>1, <1>2
    <2>2. k + 1 \in DOMAIN queries /\ next \in Reads \cup {"findWindow"}
      BY <1>2, <1>4, <2>1
    <2>3. op \in Edits => next = "readItems"
      <3> SUFFICES ASSUME op \in Edits PROVE next = "readItems"
        OBVIOUS
      <3>1. Len(queries) = 2
        BY <1>2
      <3>2. k \in Nat /\ 1 <= k /\ k < 2
        BY <1>4, <2>1, <3>1
      <3>3. k = 1
        BY <3>2
      <3> QED BY <1>2, <3>3
    <2> HIDE DEF next
    <2>4. Onward(r) = Goto(r, next)
      BY <1>3, <1>4 DEF next
    <2> QED BY <2>2, <2>3, <2>4, GotoFields DEF op
  <1>5. CASE ~ (k < Len(queries)) /\ op \in Edits
    <2>1. Onward(r) = Goto(r, "publish")
      BY <1>3, <1>5
    <2> QED BY <1>5, <2>1, GotoFields DEF op
  <1>6. CASE ~ (k < Len(queries)) /\ op \notin Edits
    <2>1. Onward(r) = Answer(r, 200)
      BY <1>3, <1>6
    <2> QED BY <1>6, <2>1, AnswerFields DEF op
  <1> QED BY <1>4, <1>5, <1>6

\* The queries of a snapshot.
LEMMA SnapshotSteps ==
    ASSUME NEW r, DOMAIN req[r] = RequestFields, Call(r).op \in {"state", "health"},
           Asks(Call(r).op, req[r].pc)
    PROVE  /\ req[r].pc \in {"listWindows", "listItems", "listMedia", "liveSync"}
           /\ req[r].pc = "listWindows" => Onward(r) = Goto(r, "listItems")
           /\ req[r].pc = "listItems" => Onward(r) = Goto(r, "listMedia")
           /\ req[r].pc = "listMedia" => Onward(r) = Goto(r, "liveSync")
           /\ req[r].pc = "liveSync" => Onward(r) = Answer(r, 200)
  <1> DEFINE op == Call(r).op
             queries == Queries(op)
             k == CHOOSE j \in DOMAIN queries : queries[j] = req[r].pc
  <1>1. queries = <<"listWindows", "listItems", "listMedia", "liveSync">>
    BY Zenon DEF Queries
  <1>2. k \in DOMAIN queries /\ queries[k] = req[r].pc
    BY DEF Asks
  <1>3. Onward(r) = IF k < Len(queries) THEN Goto(r, queries[k + 1])
                    ELSE IF op \in Edits THEN Goto(r, "publish") ELSE Answer(r, 200)
    BY DEF Onward
  <1>4. op \notin Edits
    BY DEF Edits
  <1> HIDE DEF queries, k, op
  <1>5. /\ Len(queries) = 4 /\ DOMAIN queries = 1 .. 4
        /\ queries[1] = "listWindows" /\ queries[2] = "listItems" /\ queries[3] = "listMedia"
        /\ queries[4] = "liveSync"
    BY <1>1
  <1>6. k \in {1, 2, 3, 4}
    BY <1>2, <1>5
  <1>7. CASE k = 1
    BY <1>2, <1>3, <1>5, <1>7
  <1>8. CASE k = 2
    BY <1>2, <1>3, <1>5, <1>8
  <1>9. CASE k = 3
    BY <1>2, <1>3, <1>5, <1>9
  <1>10. CASE k = 4
    BY <1>2, <1>3, <1>4, <1>5, <1>10
  <1> QED BY <1>6, <1>7, <1>8, <1>9, <1>10

\* A handler goes on, or answers, and knows what it knew.
LEMMA OnInformed ==
    ASSUME TablesInv, RInv, HInv, env' = env, NEW r \in Requests, NEW h, Looked(r, h),
           req[r].pc \in Active, SameRequest(h, req[r]), h.wrote = req[r].wrote,
           req[r].call.op \notin {"state", "health"},
           \/ h.status = 0 /\ h.pc \in Reads \cup {"findWindow"} /\ (h.call.op \in Edits => h.pc \in Reads \ {"readWindow"})
           \/ h.status = 0 /\ h.pc = "publish"
           \/ h.status = 200 /\ h.pc = "done",
           h.pc \in Reads \cup {"findWindow"} /\ h.call.op \notin Edits => h.wrote = {}
    PROVE  RInv'
  <1>1. Valid(req[r], env.calls) /\ h.call = req[r].call /\ h.wipes = req[r].wipes
    BY Known DEF SameRequest
  <1>2. Valid(h, env.calls)
    BY <1>1 DEF Valid, Reads, Active, Statements, Publishes
  <1>3. Informed(h, windows, Rows(media))
    BY <1>1 DEF Informed, Reads, Edits
  <1> QED BY <1>1, <1>2, <1>3, LookedInformed

LEMMA FindWindowFits ==
    ASSUME TablesInv, RInv, HInv, env' = env, NEW r \in Requests, FindWindow(r) PROVE RInv'
  <1>1. req[r].pc = "findWindow" /\ req[r].pc \in Active
    BY PcsAreActive DEF FindWindow, Runs
  <1>2. /\ DOMAIN req[r] = RequestFields /\ req[r].status = 0 /\ Reaches(req[r])
        /\ Valid(req[r], env.calls) /\ req[r].wrote = {}
    BY <1>1, Known DEF Valid
  <1>3. ASSUME NEW status \in {404, 422}, Looked(r, Answer(r, status)) PROVE RInv'
    BY <1>1, <1>2, <1>3, RefusedInformed
  <1>4. ASSUME NEW pc \in {"findMedia", "insertMedia"}, Looked(r, Goto(r, pc)), req[r].call.op = "add",
               Window(r) \in Rows(windows),
               pc = "insertMedia" => req[r].call.input # {} /\ Validate(Input(req[r].call))
        PROVE  RInv'
    <2> DEFINE h == Goto(r, pc)
    <2>1. /\ SameRequest(h, req[r]) /\ h.pc = pc /\ h.wrote = {} /\ h.status = 0
          /\ h.window \in DOMAIN windows
      BY <1>2, <1>4, GotoFields DEF Window, Rows
    <2>2. Looked(r, h)
      BY <1>4
    <2> HIDE DEF h
    <2>3. Valid(h, env.calls)
      BY <1>1, <1>2, <1>4, <2>1 DEF Valid, SameRequest, Active, Statements, Publishes
    <2>4. Informed(h, windows, Rows(media))
      BY <1>4, <2>1 DEF Informed, SameRequest
    <2> QED BY <2>1, <2>2, <2>3, <2>4, LookedInformed DEF SameRequest
  <1>5. CASE Looked(r, Onward(r)) /\ Call(r).op # "add"
    <2>1. Call(r).op = "playlist"
      BY <1>1, <1>2, <1>5 DEF Reaches, Call
    <2>2. Asks(Call(r).op, req[r].pc)
      <3>1. 1 \in DOMAIN Queries("playlist") /\ Queries("playlist")[1] = "findWindow"
        BY QueriesType
      <3> QED BY <1>1, <2>1, <3>1 DEF Asks
    <2> DEFINE h == Onward(r)
    <2>3. /\ SameRequest(h, req[r]) /\ h.wrote = {}
          /\ \/ h.status = 0 /\ h.pc \in Reads \cup {"findWindow"}
             \/ h.status = 200 /\ h.pc = "done"
      BY <1>1, <1>2, <2>1, <2>2, OnwardPlain DEF Edits
    <2>4. Looked(r, h) /\ req[r].call.op = "playlist"
      BY <1>5, <2>1 DEF Call
    <2> HIDE DEF h
    <2>5. h.call.op = "playlist" /\ h.call.op \notin Edits
      BY <2>3, <2>4 DEF SameRequest, Edits
    <2>6. /\ req[r].call.op \notin {"state", "health"} /\ h.wrote = req[r].wrote
          /\ \/ h.status = 0 /\ h.pc \in Reads \cup {"findWindow"} /\ (h.call.op \in Edits => h.pc \in Reads \ {"readWindow"})
             \/ h.status = 0 /\ h.pc = "publish"
             \/ h.status = 200 /\ h.pc = "done"
      BY <1>2, <2>3, <2>4, <2>5
    <2> QED BY <1>1, <2>3, <2>4, <2>6, OnInformed
  <1>6. CASE Call(r).op = "add" /\ Window(r) \in Rows(windows) /\ Looked(r, ResolveMedia(r))
    <2>1. \/ ResolveMedia(r) = Answer(r, 422)
          \/ ResolveMedia(r) = Goto(r, "findMedia")
          \/ /\ ResolveMedia(r) = Goto(r, "insertMedia")
             /\ req[r].call.input # {} /\ Validate(Input(req[r].call))
      BY DEF ResolveMedia, Call
    <2> QED BY <1>3, <1>4, <1>6, <2>1 DEF Call
  <1> QED BY <1>3, <1>5, <1>6 DEF FindWindow

LEMMA FindMediaFits ==
    ASSUME TablesInv, RInv, HInv, env' = env, NEW r \in Requests, FindMedia(r) PROVE RInv'
  <1>1. req[r].pc = "findMedia" /\ req[r].pc \in Active
    BY PcsAreActive DEF FindMedia, Runs
  <1>2. /\ DOMAIN req[r] = RequestFields /\ req[r].status = 0 /\ req[r].call.op = "add"
        /\ Valid(req[r], env.calls) /\ req[r].wrote = {}
        /\ req[r].wipes = wipes => req[r].window \in DOMAIN windows
    BY <1>1, Known DEF Valid, Reaches, Informed
  <1> DEFINE m == CHOOSE m \in Call(r).mediaId : TRUE
             g == Goto(r, "edit")
             h == [g EXCEPT !.media = m]
  <1>3. CASE Looked(r, Answer(r, 422))
    BY <1>1, <1>2, <1>3, RefusedInformed
  <1>4. CASE m \in Rows(media) /\ Looked(r, h)
    <2>1. m \in Rows(media)
      BY <1>4
    <2>2. SameRequest(g, req[r]) /\ g.pc = "edit" /\ g.status = 0 /\ g.wrote = {} /\ g.window = req[r].window
      BY <1>2, GotoFields
    <2> HIDE DEF m, g
    <2>3. /\ h.wipes = req[r].wipes /\ h.call = req[r].call /\ h.pc = "edit" /\ h.status = 0
          /\ h.wrote = {} /\ h.window = req[r].window /\ h.media \in Rows(media)
      BY <1>2, <2>1, <2>2 DEF SameRequest, RequestFields
    <2>4. Looked(r, h)
      BY <1>4
    <2> HIDE DEF h
    <2>5. Valid(h, env.calls)
      BY <1>1, <1>2, <2>3 DEF Valid, Active, Statements
    <2>6. h.wipes = wipes => Informed(h, windows, Rows(media))
      BY <1>2, <2>3 DEF Informed
    <2> QED BY <2>3, <2>4, <2>5, <2>6, LookedInformed
  <1> QED BY <1>3, <1>4 DEF FindMedia

\* The edit has been made: the handler re-reads the window, or does not learn of it.
LEMMA EditedInformed ==
    ASSUME IInv, TablesInv, BInv, RInv, HInv, env' = env, NEW r \in Requests, req[r].pc = "edit",
           PoolOpen(req[r].at), NEW h, Stored(r, "playlist", h),
           SameRequest(h, req[r]), h.pc = "readWindow", h.status = 0, h.window = Window(r),
           Grows, wipes' = wipes, Rows(windows)' = Rows(windows), Window(r) \in Rows(windows)
    PROVE  BInv' /\ RInv'
  <1>1. req[r].pc \in Active /\ req[r].call.op \in Edits
    BY PcsAreActive, Known DEF Reaches
  <1>2. h.call.op \in Edits /\ h.window \in DOMAIN windows'
    BY <1>1 DEF SameRequest, Rows
  <1>3. Informed(h, windows', Rows(media)')
    BY <1>2 DEF Informed, Edits
  <1>4. RInv'
    BY <1>1, <1>2, <1>3, StoredInformed
  <1> QED BY <1>4, StoredFits

LEMMA EditPlaylistFits ==
    ASSUME env \in Environments, IInv, TablesInv, BInv, RInv, HInv, env' = env, NEW r \in Requests,
           EditPlaylist(r)
    PROVE  TablesInv' /\ BInv' /\ RInv'
  <1>1. req[r].pc = "edit" /\ req[r].pc \in Active /\ PoolOpen(req[r].at)
    BY PcsAreActive DEF EditPlaylist, Runs
  <1>2. /\ DOMAIN req[r] = RequestFields /\ req[r].status = 0 /\ req[r].call.op \in Edits
        /\ req[r].call \in env.calls /\ ~ BadRequest(req[r].call) /\ ~ Invalid(req[r].call)
        /\ req[r].call.op # "add" => req[r].wrote = {}
        /\ req[r].wipes = wipes /\ req[r].call.op = "add" =>
              req[r].window \in DOMAIN windows /\ req[r].media \in Rows(media)
    BY <1>1, Known DEF Valid, Reaches, Informed
  <1> DEFINE w == Window(r)
             op == Call(r).op
             item == req[r].item
             h == Goto(r, "readWindow")
             a == [h EXCEPT !.item = serial.item]
  <1>3. SameRequest(h, req[r]) /\ h.pc = "readWindow" /\ h.status = 0 /\ h.window = w
    BY <1>2, GotoFields DEF Window
  <1>4. CASE (w \notin Rows(windows) \/ (op # "add" /\ ~ HasItem(w, item))) /\ Looked(r, Answer(r, 404))
    <2>1. req[r].wipes = wipes => req[r].wrote = {}
      BY <1>2, <1>4 DEF Window, Rows, Call
    <2>2. RInv'
      BY <1>1, <1>4, <2>1, RefusedInformed
    <2> QED BY <1>4, <2>2, LookedFits
  <1>5. CASE op = "add" /\ req[r].media \notin Rows(media) /\ Looked(r, Answer(r, 500))
    <2>1. req[r].wipes # wipes
      BY <1>2, <1>5 DEF Call
    <2>2. RInv'
      BY <1>1, <1>5, <2>1, RefusedInformed
    <2> QED BY <1>5, <2>2, LookedFits
  <1>6. CASE /\ w \in Rows(windows) /\ req[r].media \in Rows(media)
             /\ AppendItem(w, req[r].media) /\ Stored(r, "playlist", a)
    <2>1. TablesInv' /\ Grows /\ wipes' = wipes /\ Rows(windows)' = Rows(windows)
      BY <1>6, AppendItemKeeps
    <2>2. Stored(r, "playlist", a) /\ w \in Rows(windows)
      BY <1>6
    <2> HIDE DEF h
    <2>3. SameRequest(a, req[r]) /\ a.pc = "readWindow" /\ a.status = 0 /\ a.window = w
      BY <1>2, <1>3 DEF SameRequest, RequestFields
    <2> HIDE DEF a
    <2> QED BY <1>1, <2>1, <2>2, <2>3, EditedInformed
  <1>7. ASSUME HasItem(w, item), Stored(r, "playlist", h),
               RemoveItem(w, item) \/ \E p \in Nat : MoveItem(w, item, p)
        PROVE  TablesInv' /\ BInv' /\ RInv'
    <2>1. TablesInv' /\ Grows /\ wipes' = wipes /\ Rows(windows)' = Rows(windows)
      BY <1>7, RemoveItemKeeps, MoveItemKeeps
    <2>2. w \in Rows(windows)
      BY <1>7, Placed
    <2>3. Stored(r, "playlist", h)
      BY <1>7
    <2> HIDE DEF h
    <2> QED BY <1>1, <1>3, <2>1, <2>2, <2>3, EditedInformed
  <1>8. CASE op = "move" /\ HasItem(w, item) /\ (\E p \in Call(r).position : MoveItem(w, item, p))
             /\ Stored(r, "playlist", h)
    <2>1. req[r].call.decodes /\ req[r].call.op = "move"
      BY <1>2, <1>8 DEF Call, BadRequest
    <2>2. req[r].call.position \subseteq Int
      BY <1>2, <2>1, CallsAssumption
    <2>3. \A p \in req[r].call.position : ~ (p < 0)
      BY <1>2, <2>1 DEF Invalid
    <2>4. \A p \in Call(r).position : p \in Nat
      BY <2>2, <2>3 DEF Call
    <2> QED BY <1>7, <1>8, <2>4
  <1>9. CASE HasItem(w, item) /\ RemoveItem(w, item) /\ Stored(r, "playlist", h)
    BY <1>7, <1>9
  <1> QED BY <1>4, <1>5, <1>6, <1>8, <1>9 DEF EditPlaylist

\* The items of a window, of the media there are.
LEMMA ReadCovered ==
    ASSUME TablesInv, NEW S PROVE Covered([w \in S |-> Items(w)], Rows(media))
  BY ItemsOfWindow DEF Covered, ItemsOK

\* A statement that reads.
LEMMA ReadFits ==
    ASSUME TablesInv, RInv, HInv, env' = env, NEW r \in Requests,
           ReadWindow(r) \/ ReadItems(r) \/ ListWindows(r) \/ ListItems(r) \/ ListMedia(r) \/ LiveSync(r)
    PROVE  RInv'
  <1>1. req[r].pc \in Reads /\ req[r].pc \in Active
    BY PcsAreActive DEF ReadWindow, ReadItems, ListWindows, ListItems, ListMedia, LiveSync, Runs, Reads
  <1>2. /\ DOMAIN req[r] = RequestFields /\ req[r].status = 0 /\ Asks(Call(r).op, req[r].pc)
        /\ req[r].call.op \notin Edits => req[r].wrote = {}
        /\ Valid(req[r], env.calls) /\ Call(r).op = req[r].call.op
        /\ req[r].wipes = wipes => Informed(req[r], windows, Rows(media))
    BY <1>1, Known DEF Valid, Reaches, Call
  <1> DEFINE on == Onward(r)
  <1>3. CASE Call(r).op \notin {"state", "health"}
    <2>1. /\ SameRequest(on, req[r]) /\ on.wrote = req[r].wrote /\ DOMAIN on = RequestFields
          /\ \/ on.status = 0 /\ on.pc \in Reads \cup {"findWindow"} /\ (Call(r).op \in Edits => on.pc = "readItems")
             \/ on.status = 0 /\ on.pc = "publish" /\ Call(r).op \in Edits
             \/ on.status = 200 /\ on.pc = "done" /\ Call(r).op \notin Edits
      BY <1>1, <1>2, OnwardPlain DEF SameRequest
    <2>2. \/ Looked(r, on)
          \/ req[r].pc = "readWindow" /\ Window(r) \notin Rows(windows) /\ Looked(r, Answer(r, 404))
          \/ \E v : Looked(r, [on EXCEPT !.read = v]) \/ Looked(r, [on EXCEPT !.listed = v])
      BY DEF ReadWindow, ReadItems, ListWindows, ListItems, ListMedia, LiveSync, Runs
    <2> HIDE DEF on
    <2>3. ASSUME NEW h, Looked(r, h), DOMAIN h = RequestFields, h.at = on.at, h.call = on.call,
                 h.told = on.told, h.overran = on.overran, h.wipes = on.wipes,
                 h.wrote = on.wrote, h.status = on.status, h.pc = on.pc
          PROVE  RInv'
      <3>1. /\ SameRequest(h, req[r]) /\ h.wrote = req[r].wrote /\ h.call = req[r].call
        BY <2>1, <2>3 DEF SameRequest
      <3>2. /\ \/ h.status = 0 /\ h.pc \in Reads \cup {"findWindow"} /\ (h.call.op \in Edits => h.pc \in Reads \ {"readWindow"})
               \/ h.status = 0 /\ h.pc = "publish"
               \/ h.status = 200 /\ h.pc = "done"
            /\ req[r].call.op \notin {"state", "health"}
            /\ h.call.op \notin Edits => h.wrote = {}
        BY <1>2, <1>3, <2>1, <2>3, <3>1 DEF Reads
      <3> QED BY <1>1, <2>3, <3>1, <3>2, OnInformed
    <2>4. CASE Looked(r, on)
      BY <2>1, <2>3, <2>4
    <2>5. CASE req[r].pc = "readWindow" /\ Window(r) \notin Rows(windows) /\ Looked(r, Answer(r, 404))
      <3>1. req[r].wipes = wipes => req[r].wrote = {}
        BY <1>2, <2>5 DEF Informed, Window, Rows
      <3> QED BY <1>1, <2>5, <3>1, RefusedInformed
    <2>6. ASSUME NEW v, Looked(r, [on EXCEPT !.read = v]) PROVE RInv'
      <3> DEFINE h == [on EXCEPT !.read = v]
      <3>1. /\ DOMAIN h = RequestFields /\ h.at = on.at /\ h.call = on.call
            /\ h.told = on.told /\ h.overran = on.overran /\ h.wipes = on.wipes
            /\ h.wrote = on.wrote /\ h.status = on.status /\ h.pc = on.pc
        BY <2>1 DEF RequestFields
      <3>2. Looked(r, h)
        BY <2>6
      <3> HIDE DEF h
      <3> QED BY <2>3, <3>1, <3>2
    <2>7. ASSUME NEW v, Looked(r, [on EXCEPT !.listed = v]) PROVE RInv'
      <3> DEFINE h == [on EXCEPT !.listed = v]
      <3>1. /\ DOMAIN h = RequestFields /\ h.at = on.at /\ h.call = on.call
            /\ h.told = on.told /\ h.overran = on.overran /\ h.wipes = on.wipes
            /\ h.wrote = on.wrote /\ h.status = on.status /\ h.pc = on.pc
        BY <2>1 DEF RequestFields
      <3>2. Looked(r, h)
        BY <2>7
      <3> HIDE DEF h
      <3> QED BY <2>3, <3>1, <3>2
    <2> QED BY <2>2, <2>4, <2>5, <2>6, <2>7
  <1>4. CASE Call(r).op \in {"state", "health"}
    <2>1. /\ req[r].pc \in {"listWindows", "listItems", "listMedia", "liveSync"}
          /\ req[r].pc = "listWindows" => on = Goto(r, "listItems")
          /\ req[r].pc = "listItems" => on = Goto(r, "listMedia")
          /\ req[r].pc = "listMedia" => on = Goto(r, "liveSync")
          /\ req[r].pc = "liveSync" => on = Answer(r, 200)
      BY <1>2, <1>4, SnapshotSteps
    <2>2. \/ req[r].pc = "listWindows" /\ \E v : Looked(r, [on EXCEPT !.read = v])
          \/ req[r].pc = "listItems" /\ Looked(r, [on EXCEPT !.read = [w \in DOMAIN @ |-> Items(w)]])
          \/ req[r].pc = "listMedia" /\ Looked(r, [on EXCEPT !.listed = Rows(media)])
          \/ req[r].pc = "liveSync" /\ Looked(r, on)
      BY <2>1 DEF ReadWindow, ReadItems, ListWindows, ListItems, ListMedia, LiveSync, Runs
    <2>3. req[r].wrote = {} /\ req[r].call.op \in {"state", "health"} /\ req[r].call.op \notin Edits
      BY <1>2, <1>4 DEF Edits
    <2>4. ASSUME NEW h, Looked(r, h), h.wipes = req[r].wipes, h.call = req[r].call, h.wrote = {},
                 h.status \in {0, 200}, h.pc \in {"listItems", "listMedia", "liveSync", "done"},
                 h.status = 200 => h.pc = "done",
                 h.pc = "listMedia" /\ h.wipes = wipes => Covered(h.read, Rows(media)),
                 h.pc \in {"liveSync", "done"} /\ h.wipes = wipes => Covered(h.read, h.listed)
          PROVE  RInv'
      <3>1. Valid(h, env.calls)
        BY <1>1, <1>2, <2>4 DEF Valid, Active, Statements, Publishes, Reads
      <3>2. h.wipes = wipes => Informed(h, windows, Rows(media))
        BY <2>3, <2>4 DEF Informed, Edits
      <3> QED BY <2>4, <3>1, <3>2, LookedInformed
    <2>5. ASSUME NEW v, req[r].pc = "listWindows", Looked(r, [on EXCEPT !.read = v]) PROVE RInv'
      <3> DEFINE h == [on EXCEPT !.read = v]
      <3>1. SameRequest(on, req[r]) /\ on.pc = "listItems" /\ on.status = 0 /\ on.wrote = {}
        BY <1>2, <2>1, <2>3, <2>5, GotoFields
      <3> HIDE DEF on
      <3>2. h.wipes = req[r].wipes /\ h.call = req[r].call /\ h.wrote = {} /\ h.status = 0 /\ h.pc = "listItems"
        BY <1>2, <3>1 DEF SameRequest, RequestFields
      <3>3. Looked(r, h)
        BY <2>5
      <3> HIDE DEF h
      <3> QED BY <2>4, <3>2, <3>3
    <2>6. CASE req[r].pc = "listItems" /\ Looked(r, [on EXCEPT !.read = [w \in DOMAIN @ |-> Items(w)]])
      <3> DEFINE h == [on EXCEPT !.read = [w \in DOMAIN @ |-> Items(w)]]
      <3>1. SameRequest(on, req[r]) /\ on.pc = "listMedia" /\ on.status = 0 /\ on.wrote = {}
        BY <1>2, <2>1, <2>3, <2>6, GotoFields
      <3> HIDE DEF on
      <3>2. /\ h.wipes = req[r].wipes /\ h.call = req[r].call /\ h.wrote = {} /\ h.status = 0
            /\ h.pc = "listMedia" /\ h.read = [w \in DOMAIN on.read |-> Items(w)]
        BY <1>2, <3>1 DEF SameRequest, RequestFields
      <3>3. Looked(r, h)
        BY <2>6
      <3> HIDE DEF h
      <3>4. Covered(h.read, Rows(media))
        BY <3>2, ReadCovered
      <3> QED BY <2>4, <3>2, <3>3, <3>4
    <2>7. CASE req[r].pc = "listMedia" /\ Looked(r, [on EXCEPT !.listed = Rows(media)])
      <3> DEFINE h == [on EXCEPT !.listed = Rows(media)]
      <3>1. /\ SameRequest(on, req[r]) /\ on.pc = "liveSync" /\ on.status = 0 /\ on.wrote = {}
            /\ on.read = req[r].read
        BY <1>2, <2>1, <2>3, <2>7, GotoFields
      <3> HIDE DEF on
      <3>2. /\ h.wipes = req[r].wipes /\ h.call = req[r].call /\ h.wrote = {} /\ h.status = 0
            /\ h.pc = "liveSync" /\ h.read = req[r].read /\ h.listed = Rows(media)
        BY <1>2, <3>1 DEF SameRequest, RequestFields
      <3>3. Looked(r, h)
        BY <2>7
      <3> HIDE DEF h
      <3>4. req[r].wipes = wipes => Covered(req[r].read, Rows(media))
        BY <1>2, <2>3, <2>7 DEF Informed
      <3>5. h.wipes = wipes => Covered(h.read, h.listed)
        BY <3>2, <3>4
      <3> QED BY <2>4, <3>2, <3>3, <3>5
    <2>8. CASE req[r].pc = "liveSync" /\ Looked(r, on)
      <3>1. /\ SameRequest(on, req[r]) /\ on.pc = "done" /\ on.status = 200 /\ on.wrote = {}
            /\ on.read = req[r].read /\ on.listed = req[r].listed
        BY <1>2, <2>1, <2>3, <2>8, AnswerFields
      <3>2. req[r].wipes = wipes => Covered(req[r].read, req[r].listed)
        BY <1>2, <2>3, <2>8 DEF Informed
      <3>3. Looked(r, on) /\ on.wipes = req[r].wipes /\ on.call = req[r].call
        BY <2>8, <3>1 DEF SameRequest
      <3> HIDE DEF on
      <3>4. on.wipes = wipes => Covered(on.read, on.listed)
        BY <3>1, <3>2, <3>3
      <3> QED BY <2>4, <3>1, <3>3, <3>4
    <2> QED BY <2>2, <2>5, <2>6, <2>7, <2>8
  <1> QED BY <1>3, <1>4

LEMMA SnapshotsBegin == ASSUME NEW op \in {"state", "health"} PROVE FirstStep(op) = "listWindows"
  <1>1. FirstStep(op) = Head(Queries(op))
    BY Zenon DEF FirstStep
  <1>2. Queries(op) = <<"listWindows", "listItems", "listMedia", "liveSync">>
    BY Zenon DEF Queries
  <1> QED BY <1>1, <1>2

LEMMA ArriveFits ==
    ASSUME env \in Environments, TablesInv, BInv, RInv, HInv, env' = env,
           NEW r \in Requests, NEW i \in Instances, NEW c \in env.calls, Arrive(r, i, c)
    PROVE  TablesInv' /\ BInv' /\ RInv'
  <1>1. PICK h : /\ req' = [req EXCEPT ![r] = h] /\ DOMAIN h = RequestFields
                 /\ h.call = c /\ h.wipes = wipes /\ h.wrote = {} /\ ~ h.faulted
                 /\ \/ h.pc = "done" /\ h.status \in {400, 422}
                    \/ h.pc = FirstStep(c.op) /\ h.status = 0 /\ ~ BadRequest(c) /\ ~ Invalid(c)
    BY Arrivals
  <1>2. UNCHANGED <<tables, bootVars>>
    BY DEF Arrive
  <1>3. Looked(r, h) /\ TablesInv' /\ BInv' /\ Grows /\ wipes' = wipes
    <2>1. Looked(r, h)
      BY <1>1, <1>2 DEF Looked, Handler
    <2> QED BY <1>2, <2>1, LookedFits, TablesStay
  <1>4. CASE h.pc = "done" /\ h.status \in {400, 422}
    <2>1. Valid(h, env.calls)
      BY <1>4 DEF Valid, Active, Statements, Publishes, Reads
    <2>2. Informed(h, windows', Rows(media)')
      BY <1>1, <1>4 DEF Informed
    <2>3. h.wipes \in 0 .. wipes'
      BY <1>1, <1>3 DEF TablesInv
    <2> QED BY <1>1, <1>3, <2>1, <2>2, <2>3, OneInformed
  <1>5. CASE h.pc = FirstStep(c.op) /\ h.status = 0 /\ ~ BadRequest(c) /\ ~ Invalid(c)
    <2>1. /\ h.pc \in Active /\ h.pc # "findMedia"
          /\ h.pc = "insertMedia" => c.op = "createMedia"
          /\ h.pc = "edit" => c.op \in Edits
          /\ h.pc \in Reads => c.op \notin Edits
      BY <1>5, FirstStepType, PcsAreActive
    <2>2. h.pc = "insertMedia" => c.input # {} /\ Validate(Input(c))
      <3> SUFFICES ASSUME h.pc = "insertMedia" PROVE c.input # {} /\ Validate(Input(c))
        OBVIOUS
      <3>1. c.op = "createMedia" /\ c.decodes
        BY <1>5, <2>1 DEF BadRequest
      <3>2. PICK in \in c.input : Validate(Normalize(in))
        BY <1>5, <3>1 DEF Invalid
      <3>3. \A a, b \in c.input : a = b
        BY <3>1, CallsAssumption
      <3>4. (CHOOSE x \in c.input : TRUE) = in
        BY <3>2, <3>3
      <3> QED BY <3>2, <3>4 DEF Input
    <2>3. Valid(h, env.calls)
      BY <1>1, <1>5, <2>1, <2>2 DEF Valid
    <2>4. Informed(h, windows', Rows(media)')
      <3>1. c.op \in {"state", "health"} => h.pc = "listWindows"
        BY <1>5, SnapshotsBegin
      <3>2. h.pc \in Statements
        BY <1>5, FirstStepType
      <3>3. h.call = c /\ h.status = 0 /\ (h.pc = "readWindow" => c.op \notin Edits) /\ (h.pc = "edit" => c.op # "add")
        <4>1. h.pc = "edit" => c.op # "add"
          <5>1. FirstStep("add") = "findWindow"
            BY Zenon DEF FirstStep
          <5> QED BY <1>5, <5>1
        <4> QED BY <1>1, <1>5, <2>1, <4>1 DEF Reads
      <3> QED BY <2>1, <3>1, <3>2, <3>3 DEF Informed, Statements
    <2>5. h.wipes \in 0 .. wipes'
      BY <1>1, <1>3 DEF TablesInv
    <2> QED BY <1>1, <1>3, <2>3, <2>4, <2>5, OneInformed
  <1> QED BY <1>1, <1>3, <1>4, <1>5

\* What the end of a process does to its requests leaves them what they know.
LEMMA EndingInformed ==
    ASSUME TablesInv, RInv, HInv, Grows, env' = env,
           \A r \in Requests :
              \/ req'[r] = req[r]
              \/ /\ req[r].pc \in Active /\ req'[r].pc \in {req[r].pc, "lost"}
                 /\ req'[r].call = req[r].call /\ req'[r].status = req[r].status
                 /\ req'[r].wipes = req[r].wipes /\ req'[r].wrote = req[r].wrote
                 /\ req'[r].window = req[r].window /\ req'[r].media = req[r].media
                 /\ req'[r].read = req[r].read /\ req'[r].listed = req[r].listed
    PROVE  RInv'
  <1>1. ASSUME NEW r \in Requests
        PROVE  /\ Valid(req'[r], env.calls) /\ req'[r].wipes \in 0 .. wipes'
               /\ req'[r].wipes = wipes' => Informed(req'[r], windows', Rows(media)')
    <2>1. /\ Valid(req[r], env.calls) /\ req[r].wipes \in 0 .. wipes'
          /\ req[r].wipes = wipes' => Informed(req[r], windows', Rows(media)')
      BY StaysInformed DEF RInv
    <2>2. CASE req'[r] = req[r]
      BY <2>1, <2>2
    <2>3. CASE /\ req[r].pc \in Active /\ req'[r].pc \in {req[r].pc, "lost"}
               /\ req'[r].call = req[r].call /\ req'[r].status = req[r].status
               /\ req'[r].wipes = req[r].wipes /\ req'[r].wrote = req[r].wrote
               /\ req'[r].window = req[r].window /\ req'[r].media = req[r].media
               /\ req'[r].read = req[r].read /\ req'[r].listed = req[r].listed
      <3>1. req[r].status = 0
        BY <2>3, Known
      <3>2. Valid(req'[r], env.calls)
        BY <2>1, <2>3 DEF Valid, Active, Statements, Publishes, Reads
      <3>3. req'[r].wipes = wipes' => Informed(req'[r], windows', Rows(media)')
        BY <2>1, <2>3, <3>1 DEF Informed
      <3> QED BY <2>1, <2>3, <3>2, <3>3
    <2> QED BY <2>2, <2>3
  <1> QED BY <1>1 DEF RInv, Rows

LEMMA ProcessInformed ==
    ASSUME IInv, TablesInv, BInv, RInv, HInv, NEW i \in Instances, Process(i)
    PROVE  TablesInv' /\ BInv' /\ RInv'
  <1>1. TablesInv' /\ Grows /\ BInv' /\ env' = env
    BY ProcessFits DEF Process, Booting
  <1>2. CASE UNCHANGED req
    BY <1>1, <1>2, UnmovedInformed
  <1>3. \A r \in Requests : req[r].pc \in Active => DOMAIN req[r] = RequestFields
    BY Known
  <1>4. CASE Exit(i) \/ Crash(i)
    <2>1. req' = [r \in Requests |-> IF r \in In(i) THEN Goto(r, "lost") ELSE req[r]]
      BY <1>4 DEF Exit, Crash, Lose
    <2>2. \A r \in In(i) : r \in Requests /\ req[r].pc \in Active /\ DOMAIN req[r] = RequestFields
      BY <1>3 DEF In
    <2>3. \A r \in In(i) :
             /\ Goto(r, "lost").pc = "lost"
             /\ Goto(r, "lost").call = req[r].call /\ Goto(r, "lost").status = req[r].status
             /\ Goto(r, "lost").wipes = req[r].wipes /\ Goto(r, "lost").wrote = req[r].wrote
             /\ Goto(r, "lost").window = req[r].window /\ Goto(r, "lost").media = req[r].media
             /\ Goto(r, "lost").read = req[r].read /\ Goto(r, "lost").listed = req[r].listed
      BY <2>2, GotoFields DEF SameRequest
    <2> QED BY <1>1, <2>1, <2>2, <2>3, EndingInformed
  <1>5. CASE GraceOver(i) \/ ServeFails(i)
    <2>1. req' = [r \in Requests |-> IF r \in In(i) THEN [req[r] EXCEPT !.overran = TRUE] ELSE req[r]]
      BY <1>5 DEF GraceOver, ServeFails, Overrun
    <2>2. \A r \in In(i) : r \in Requests /\ req[r].pc \in Active /\ DOMAIN req[r] = RequestFields
      BY <1>3 DEF In
    <2>3. ASSUME NEW r \in In(i)
          PROVE  LET h == [req[r] EXCEPT !.overran = TRUE]
                 IN  /\ h.pc = req[r].pc
                     /\ h.call = req[r].call /\ h.status = req[r].status
                     /\ h.wipes = req[r].wipes /\ h.wrote = req[r].wrote
                     /\ h.window = req[r].window /\ h.media = req[r].media
                     /\ h.read = req[r].read /\ h.listed = req[r].listed
      BY <2>2 DEF RequestFields
    <2> QED BY <1>1, <2>1, <2>2, <2>3, EndingInformed
  <1> QED BY <1>1, <1>2, <1>4, <1>5 DEF Process, Booting, Sigterm, Drained

SInv == TablesInv /\ BInv /\ RInv

LEMMA UnchangedInformed == ASSUME SInv, UNCHANGED vars PROVE SInv'
  <1>1. UNCHANGED <<env, req>> /\ UNCHANGED tables /\ UNCHANGED <<inst, holder, applied>>
    BY DEF vars, bootVars
  <1>2. TablesInv' /\ Grows /\ windows' = windows /\ media' = media
    BY <1>1, TablesStay DEF SInv
  <1>3. BInv'
    BY <1>1, <1>2 DEF SInv, BInv, Rows
  <1>4. RInv'
    BY <1>1, <1>2, UnmovedInformed DEF SInv
  <1> QED BY <1>2, <1>3, <1>4 DEF SInv

LEMMA ServingInformed ==
    ASSUME env \in Environments, IInv, SInv, HInv, env' = env, NEW r \in Requests, Serving(r) PROVE SInv'
  <1>1. CASE CreateWindow(r) \/ CreateMedia(r)
    BY <1>1, CreateWindowFits, CreateMediaFits DEF SInv
  <1>2. CASE EditPlaylist(r)
    BY <1>2, EditPlaylistFits DEF SInv
  <1>3. ASSUME NEW h, Looked(r, h), RInv' PROVE SInv'
    BY <1>3, LookedFits DEF SInv
  <1>4. CASE PublishMedia(r) \/ Publish(r)
    <2>1. \E h : Looked(r, h)
      BY <1>4 DEF PublishMedia, Publish, Tell
    <2> QED BY <1>3, <1>4, <2>1, PublishFits DEF SInv
  <1>5. CASE FindWindow(r) \/ FindMedia(r)
    <2>1. \E h : Looked(r, h)
      BY <1>5 DEF FindWindow, FindMedia
    <2> QED BY <1>3, <1>5, <2>1, FindWindowFits, FindMediaFits DEF SInv
  <1>6. CASE ReadWindow(r) \/ ReadItems(r) \/ ListWindows(r) \/ ListItems(r) \/ ListMedia(r) \/ LiveSync(r)
    <2>1. \E h : Looked(r, h)
      BY <1>6 DEF ReadWindow, ReadItems, ListWindows, ListItems, ListMedia, LiveSync
    <2> QED BY <1>3, <1>6, <2>1, ReadFits DEF SInv
  <1>7. CASE StatementFails(r)
    <2>1. \E h : Looked(r, h)
      BY <1>7 DEF StatementFails
    <2> QED BY <1>3, <1>7, <2>1, FailingInformed DEF SInv
  <1> QED BY <1>1, <1>2, <1>4, <1>5, <1>6, <1>7 DEF Serving

LEMMA SInvariance == Spec => []SInv
  <1>1. Init => SInv
    <2> SUFFICES ASSUME Init PROVE RInv
      BY TablesInitially DEF SInv
    <2>1. /\ NewRequest.pc = "idle" /\ NewRequest.status = 0 /\ NewRequest.wrote = {} /\ NewRequest.wipes = 0
      BY DEF NewRequest
    <2>2. Valid(NewRequest, env.calls)
      BY <2>1 DEF Valid, Active, Statements, Publishes, Reads
    <2>3. Informed(NewRequest, windows, Rows(media))
      BY <2>1 DEF Informed
    <2>4. wipes = 0 /\ \A r \in Requests : req[r] = NewRequest
      BY DEF Init
    <2> QED BY <2>1, <2>2, <2>3, <2>4 DEF RInv
  <1>2. env \in Environments /\ IInv /\ HInv /\ SInv /\ [Next]_vars => SInv'
    <2> SUFFICES ASSUME env \in Environments, IInv, HInv, SInv, [Next]_vars PROVE SInv'
      OBVIOUS
    <2>1. CASE \E i \in Instances : Process(i)
      BY <2>1, ProcessInformed DEF SInv
    <2>2. CASE \E r \in env.requests, i \in Instances, c \in env.calls : Arrive(r, i, c) /\ UNCHANGED env
      <3>1. env.requests \subseteq Requests
        BY RequestsAssumption
      <3> QED BY <2>2, <3>1, ArriveFits DEF SInv
    <2>3. CASE \E r \in Requests : Serving(r) /\ UNCHANGED env
      BY <2>3, ServingInformed
    <2>4. CASE UNCHANGED vars
      BY <2>4, UnchangedInformed
    <2> QED BY <2>1, <2>2, <2>3, <2>4 DEF Next
  <1> QED BY <1>1, <1>2, Invariance, HInvariance, EnvironmentStays, PTL DEF Spec

-----------------------------------------------------------------------------
(* What follows of the tables, the boots and the answers.                  *)

\* The tables keep their constraints whatever processes seed, wipe, serve and die
\* beside each other, and the loops of a boot stay within their bounds.
THEOREM TypesHold == Spec => []TypeOK
  <1>1. IInv /\ SInv => TypeOK
    <2> SUFFICES ASSUME IInv, SInv PROVE TypeOK
      OBVIOUS
    <2>1. TablesOK
      <3>1. \A w \in Rows(windows) : ItemsOK(Items(w), Rows(media), serial.item)
        BY ItemsOfWindow DEF SInv
      <3> QED BY <3>1 DEF SInv, TablesInv, TablesOK, ItemsOK
    <2>2. ASSUME NEW i \in Instances
          PROVE  /\ inst[i].pc \in {"off", "done", "failed", "connect", "lock", "check", "apply", "unlock",
                                    "count", "restore", "serving", "draining", "overrun"} \cup Wiping \cup Seeding
                 /\ inst[i].step \in 0 .. Migrations + Len(Library) + Len(Layout)
      <3>1. Loops(inst[i]) /\ Len(applied) <= Migrations
        BY DEF SInv, BInv, Fit
      <3>2. /\ Migrations \in Nat /\ Len(Library) \in Nat \ {0} /\ Len(Layout) \in Nat \ {0}
        BY MigrationsAssumption, LibraryAssumption, LayoutAssumption
      <3>3. Len(applied) \in Nat
        BY DEF IInv
      <3>4. inst[i].pc = "check" => inst[i].step \in 1 .. Len(applied) + 1
        BY DEF IInv, InOrder, At
      <3>5. inst[i].pc = "apply" => inst[i].step = Len(applied) + 1
        BY DEF IInv, InOrder, At
      <3>6. inst[i].pc \in Seeding => inst[i].step \in 1 .. Len(Library) \/ inst[i].step \in 1 .. Len(Layout)
        BY <3>1 DEF Loops, Seeding
      <3>7. inst[i].pc \notin {"check", "apply"} \cup Seeding => inst[i].step = 0
        BY <3>1 DEF Loops
      <3>8. inst[i].step \in 0 .. Migrations + Len(Library) + Len(Layout)
        <4> DEFINE n == inst[i].step
                   a == Len(applied)
                   b == Len(Library)
                   c == Len(Layout)
        <4>1. n = 0 \/ n \in 1 .. a + 1 \/ n \in 1 .. b \/ n \in 1 .. c
          BY <3>3, <3>4, <3>5, <3>6, <3>7
        <4>2. a \in Nat /\ a <= Migrations /\ b \in Nat /\ b >= 1 /\ c \in Nat /\ c >= 1
          BY <3>1, <3>2, <3>3
        <4> HIDE DEF n, a, b, c
        <4>3. n \in 0 .. Migrations + b + c
          BY <3>2, <4>1, <4>2
        <4> QED BY <4>3 DEF n, b, c
      <3> QED BY <3>1, <3>8 DEF Loops
    <2>3. holder \in Instances \cup {Nobody}
      BY DEF SInv, BInv
    <2>4. \A r \in Requests : /\ req[r].pc \in Active \cup {"idle", "done", "lost"}
                              /\ req[r].status \in {0, 200, 201, 400, 404, 422, 500, 503}
      BY DEF SInv, RInv, Valid
    <2> QED BY <2>1, <2>2, <2>3, <2>4 DEF TypeOK
  <1> QED BY <1>1, Invariance, SInvariance, PTL

\* A process that nobody wrote beside boots, unless a call of its own fails: what
\* it has stored is still there when it goes on, and no name is taken.
THEOREM BootFailuresNamed == Spec => []BootFailuresAreNamed
  <1>1. SInv => BootFailuresAreNamed
    BY DEF SInv, BInv, Fit, Alone, BootFailuresAreNamed, At
  <1> QED BY <1>1, SInvariance, PTL

\* A refusal has stored nothing, and an error of the server's own has one of two
\* reasons, because what a handler has found stays until a table is cleared.
THEOREM RefusalsHarmless == Spec => []RefusalsAreHarmless
  <1>1. SInv => RefusalsAreHarmless
    <2> SUFFICES ASSUME SInv, NEW r \in Requests, req[r].status >= 400, ~ req[r].faulted, ~ Wiped(r)
                 PROVE  req[r].wrote = {} /\ (req[r].status >= 500 => Excused(req[r].call, windows))
      BY DEF RefusalsAreHarmless, Excused, NameTaken, Rows, Call
    <2>1. Informed(req[r], windows, Rows(media))
      BY DEF SInv, RInv, Wiped
    <2> QED BY <2>1 DEF Informed
  <1> QED BY <1>1, SInvariance, PTL

\* A snapshot holds the media of its items: they are read before the media are,
\* and a media item goes only when a table is cleared.
THEOREM SnapshotsCoherent == Spec => []SnapshotsCohere
  <1>1. SInv => SnapshotsCohere
    <2> SUFFICES ASSUME SInv, NEW r \in Requests, Call(r).op \in {"state", "health"}, req[r].status = 200,
                        ~ Wiped(r)
                 PROVE  Covered(req[r].read, req[r].listed)
      BY DEF SnapshotsCohere, Covered
    <2>1. Informed(req[r], windows, Rows(media))
      BY DEF SInv, RInv, Wiped
    <2> QED BY <2>1 DEF Informed, Call
  <1> QED BY <1>1, SInvariance, PTL

\* Only a request that was made runs.
LEMMA ServingIsActive == ASSUME NEW r, Serving(r) PROVE req[r].pc \in Active
  <1>1. \/ req[r].pc \in Statements
        \/ req[r].pc \in {"publishMedia", "publish"}
    <2>1. CASE CreateWindow(r) \/ CreateMedia(r) \/ FindWindow(r) \/ FindMedia(r) \/ EditPlaylist(r)
      BY <2>1 DEF CreateWindow, CreateMedia, FindWindow, FindMedia, EditPlaylist, Runs, Statements
    <2>2. CASE PublishMedia(r) \/ Publish(r)
      BY <2>2 DEF PublishMedia, Publish
    <2>3. CASE ReadWindow(r) \/ ReadItems(r) \/ ListWindows(r) \/ ListItems(r) \/ ListMedia(r) \/ LiveSync(r)
      BY <2>3 DEF ReadWindow, ReadItems, ListWindows, ListItems, ListMedia, LiveSync, Runs, Statements
    <2>4. CASE StatementFails(r)
      BY <2>4 DEF StatementFails
    <2> QED BY <2>1, <2>2, <2>3, <2>4 DEF Serving
  <1> QED BY <1>1 DEF Active, Publishes

LEMMA WInvariance == Spec => []WInv
  <1>1. IInv /\ HInv /\ SInv /\ WInv /\ [Next]_vars => WInv'
    <2> SUFFICES ASSUME IInv, HInv, SInv, WInv, [Next]_vars PROVE WInv'
      OBVIOUS
    <2>1. CASE \E i \in Instances : Process(i)
      BY <2>1, ProcessTidy DEF SInv
    <2>2. CASE \E r \in env.requests, i \in Instances, c \in env.calls : Arrive(r, i, c) /\ UNCHANGED env
      <3>1. env.calls # {} /\ env' = env /\ inst' = inst
        BY <2>2 DEF Arrive, bootVars
      <3> QED BY <3>1 DEF WInv, Wipers
    <2>3. CASE \E r \in Requests : Serving(r) /\ UNCHANGED env
      <3>1. PICK r \in Requests : Serving(r) /\ env' = env
        BY <2>3
      <3>2. req[r].call \in env.calls
        BY <3>1, ServingIsActive, Known DEF SInv
      <3> QED BY <3>1, <3>2, ServingTidy
    <2>4. CASE UNCHANGED vars
      <3>1. env' = env /\ torn' = torn /\ inst' = inst /\ windows' = windows /\ media' = media
        BY <2>4 DEF vars, bootVars, tables
      <3>2. Wipers'
        BY <3>1 DEF WInv, Wipers
      <3>3. Tidy => Tidy'
        BY <3>1 DEF Tidy
      <3> QED BY <3>1, <3>2, <3>3 DEF WInv
    <2> QED BY <2>1, <2>2, <2>3, <2>4 DEF Next
  <1> QED BY <1>1, TidyInitially, Invariance, HInvariance, SInvariance, PTL DEF Spec

\* However many processes seed beside each other, the windows they leave are those
\* of the layout with all their items: the unique name of the first window lets
\* one of them pass, and the others give up before they store anything else.
THEOREM SeedsWhole == Spec => []SeedsAreWhole
  <1>1. SInv /\ WInv => SeedsAreWhole
    <2> SUFFICES ASSUME SInv, WInv, env.calls = {}, ~ torn, windows # <<>>,
                        \A i \in Instances : inst[i].pc \notin Wiping \cup Seeding
                 PROVE  /\ Cardinality(Rows(windows)) = Len(Layout)
                        /\ \A n \in DOMAIN Layout : \E w \in Rows(windows) :
                              /\ windows[w].name = Layout[n].name
                              /\ Len(Items(w)) = Len(Layout[n].items)
                              /\ \A k \in DOMAIN Items(w) :
                                    media[Items(w)[k].media] = Normalize(Library[Layout[n].items[k]])
      BY DEF SeedsAreWhole
    <2>1. \A i \in Instances : ~ Leads(inst[i]) /\ inst[i].pc # "wipe windows"
      BY DEF Leads, Wiping, Seeding
    <2>2. Whole(windows, media, Len(Layout))
      BY <2>1 DEF WInv, Tidy
    <2>3. ASSUME NEW n \in DOMAIN Layout
          PROVE  \E w \in Rows(windows) :
                    /\ windows[w].name = Layout[n].name
                    /\ Len(Items(w)) = Len(Layout[n].items)
                    /\ \A k \in DOMAIN Items(w) :
                          media[Items(w)[k].media] = Normalize(Library[Layout[n].items[k]])
      <3>1. n \in 1 .. Len(Layout)
        BY LayoutAssumption
      <3>2. PICK w \in DOMAIN windows : Holds(windows, media, w, n, Len(Layout[n].items))
        BY <2>2, <3>1 DEF Whole, Filled
      <3>3. DOMAIN windows[w].items = 1 .. Len(Layout[n].items)
        BY <3>2, ShownMedia DEF SInv
      <3>4. Items(w) = windows[w].items /\ w \in Rows(windows)
        BY <3>2 DEF Items, Rows
      <3> QED BY <3>2, <3>3, <3>4 DEF Holds
    <2> QED BY <2>2, <2>3 DEF Whole, Counted, Rows
  <1> QED BY <1>1, SInvariance, WInvariance, PTL

=============================================================================
