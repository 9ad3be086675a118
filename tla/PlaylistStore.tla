--------------------------- MODULE PlaylistStore ---------------------------
(***************************************************************************)
(* PlaylistRepository: the transactions that append, remove and move the   *)
(* items of a window's playlist, statement by statement.                   *)
(*                                                                         *)
(* Every transaction first locks the row of its window (SELECT ... FOR     *)
(* UPDATE).  Its statements see what has committed plus its own writes,    *)
(* and its writes reach the table when it commits.  The table's unique     *)
(* constraint on (window_id, position) is deferred: it is checked at       *)
(* COMMIT only.  What is modelled of a playlist_items row is its id, its   *)
(* window and its position; the media it shows plays no part here.         *)
(***************************************************************************)
EXTENDS Integers, FiniteSets

CONSTANTS
    Windows,    \* the windows of the grid
    Requests,   \* concurrent edit requests, one transaction each
    Targets,    \* the positions a move may ask for
    MaxItems,   \* bound on the item ids ever handed out
    NoRequest,  \* nobody holds the lock
    Deleted     \* what a transaction writes in place of a deleted row

ASSUME WindowsAssumption == Windows # {}
ASSUME RequestsAssumption == IsFiniteSet(Requests)
ASSUME NoRequestAssumption == NoRequest \notin Requests
ASSUME DeletedAssumption == Deleted \notin Int
ASSUME TargetsAssumption == Targets \subseteq Int
ASSUME MaxItemsAssumption == MaxItems \in Nat

VARIABLES
    playlist,   \* committed rows: window -> (item id -> position)
    lock,       \* window -> the transaction that locked its row
    req,        \* the state of each edit request
    writes,     \* the uncommitted writes of each transaction
    nextItem    \* the identity sequence of playlist_items

vars == <<playlist, lock, req, writes, nextItem>>

NoWrites == [i \in {} |-> 0]

Statements == {"edit", "compact", "shift", "place", "commit"}

Request == [pc : {"idle", "lock"} \cup Statements,
            op : {"append", "remove", "move"},
            window : Windows,
            item : Nat,
            target : Int,
            current : Nat]

\* f gives finitely many item ids a value in V.
PartialMap(f, V) ==
    /\ IsFiniteSet(DOMAIN f)
    /\ DOMAIN f \subseteq Nat
    /\ f \in [DOMAIN f -> V]

NewRequest == [pc |-> "idle", op |-> "append", window |-> CHOOSE w \in Windows : TRUE,
               item |-> 0, target |-> 0, current |-> 0]

Init ==
    /\ playlist = [w \in Windows |-> NoWrites]
    /\ lock = [w \in Windows |-> NoRequest]
    /\ req = [p \in Requests |-> NewRequest]
    /\ writes = [p \in Requests |-> NoWrites]
    /\ nextItem = 1

-----------------------------------------------------------------------------
(* What a statement of transaction p sees of its window, and how it writes. *)

Overlay(own, rows) ==
    [i \in {j \in DOMAIN own \cup DOMAIN rows : j \in DOMAIN own => own[j] # Deleted} |->
        IF i \in DOMAIN own THEN own[i] ELSE rows[i]]

Seen(p) == Overlay(writes[p], playlist[req[p].window])

\* UPDATE playlist_items SET position = position + d for the rows of S.
ShiftRows(p, S, d) ==
    writes' = [writes EXCEPT ![p] =
                 [i \in DOMAIN writes[p] \cup S |->
                     IF i \in S THEN Seen(p)[i] + d ELSE writes[p][i]]]

SetRow(p, item, position) ==
    writes' = [writes EXCEPT ![p] =
                 [i \in DOMAIN writes[p] \cup {item} |->
                     IF i = item THEN position ELSE writes[p][i]]]

\* COALESCE((SELECT max(position) + 1 ...), 0)
EndPosition(f) ==
    IF DOMAIN f = {} THEN 0
    ELSE 1 + CHOOSE m \in {f[i] : i \in DOMAIN f} : \A i \in DOMAIN f : f[i] <= m

Clamp(v, lo, hi) == IF hi < lo THEN lo ELSE IF v < lo THEN lo ELSE IF v > hi THEN hi ELSE v

Injective(f) == \A i, j \in DOMAIN f : f[i] = f[j] => i = j

Goto(p, pc) == req' = [req EXCEPT ![p] = [@ EXCEPT !.pc = pc]]

\* Mutant: the row lock outlives the transaction.
CloseKeepingLock(p) ==
    /\ UNCHANGED lock
    /\ writes' = [writes EXCEPT ![p] = NoWrites]
    /\ req' = [req EXCEPT ![p] = NewRequest]

\* The transaction is over: its lock is released and its writes are gone.
Close(p) ==
    /\ lock' = [w \in Windows |-> IF lock[w] = p THEN NoRequest ELSE lock[w]]
    /\ writes' = [writes EXCEPT ![p] = NoWrites]
    /\ req' = [req EXCEPT ![p] = NewRequest]

-----------------------------------------------------------------------------
Accept(p, op, w, item, target) ==
    /\ req[p].pc = "idle"
    /\ req' = [req EXCEPT ![p] = [pc |-> "lock", op |-> op, window |-> w, item |-> item,
                                  target |-> target, current |-> 0]]
    /\ UNCHANGED <<playlist, lock, writes, nextItem>>

Appending(q) == req[q].pc \in {"lock", "edit"} /\ req[q].op = "append"

AcceptAppend(p, w) ==
    /\ nextItem + Cardinality({q \in Requests : Appending(q)}) <= MaxItems
    /\ Accept(p, "append", w, 0, 0)

AcceptRemove(p, w, item) == Accept(p, "remove", w, item, 0)

\* The service refuses a negative position before it reaches the repository.
AcceptMove(p, w, item, target) ==
    /\ target >= 0
    /\ Accept(p, "move", w, item, target)

\* Mutant: FOR UPDATE is missing.
ReadWindow(p) ==
    /\ req[p].pc = "lock"
    /\ lock' = [lock EXCEPT ![req[p].window] = p]
    /\ Goto(p, "edit")
    /\ UNCHANGED <<playlist, writes, nextItem>>

\* BEGIN; SELECT id FROM windows WHERE id = $1 FOR UPDATE
LockWindow(p) ==
    /\ req[p].pc = "lock"
    /\ lock[req[p].window] = NoRequest
    /\ lock' = [lock EXCEPT ![req[p].window] = p]
    /\ Goto(p, "edit")
    /\ UNCHANGED <<playlist, writes, nextItem>>

\* Append: the INSERT takes the next id and the position after the last.
InsertItem(p) ==
    /\ req[p].pc = "edit" /\ req[p].op = "append"
    /\ nextItem' = nextItem + 1
    /\ SetRow(p, nextItem, EndPosition(Seen(p)))
    /\ Goto(p, "commit")
    /\ UNCHANGED <<playlist, lock>>

\* Remove: DELETE ... RETURNING position, then the rows behind it close up.
DeleteItem(p) ==
    /\ req[p].pc = "edit" /\ req[p].op = "remove"
    /\ req[p].item \in DOMAIN Seen(p)
    /\ SetRow(p, req[p].item, Deleted)
    /\ req' = [req EXCEPT ![p] = [@ EXCEPT !.pc = "compact",
                                           !.current = Seen(p)[req[p].item]]]
    /\ UNCHANGED <<playlist, lock, nextItem>>

\* Mutant: the gap stays.
CompactNothing(p) ==
    /\ req[p].pc = "compact"
    /\ Goto(p, "commit")
    /\ UNCHANGED <<playlist, lock, writes, nextItem>>

CompactPositions(p) ==
    /\ req[p].pc = "compact"
    /\ ShiftRows(p, {i \in DOMAIN Seen(p) : Seen(p)[i] > req[p].current}, -1)
    /\ Goto(p, "commit")
    /\ UNCHANGED <<playlist, lock, nextItem>>

\* Move: the current position and the row count are read (two statements, one
\* step: the lock on the window keeps what they see), the target is clamped, and a move to where the item already is writes nothing.
LocateItem(p) ==
    LET current == Seen(p)[req[p].item]
        target == Clamp(req[p].target, 0, Cardinality(DOMAIN Seen(p)) - 1)
    IN  /\ req[p].pc = "edit" /\ req[p].op = "move"
        /\ req[p].item \in DOMAIN Seen(p)
        /\ req' = [req EXCEPT ![p] =
                     [@ EXCEPT !.pc = IF target = current THEN "commit" ELSE "shift",
                               !.current = current,
                               !.target = target]]
        /\ UNCHANGED <<playlist, lock, writes, nextItem>>

\* Mutant: rows always slide towards the front.
ShiftForward(p) ==
    LET low == IF req[p].target > req[p].current THEN req[p].current + 1 ELSE req[p].target
        high == IF req[p].target > req[p].current THEN req[p].target ELSE req[p].current - 1
    IN  /\ req[p].pc = "shift"
        /\ ShiftRows(p, {i \in DOMAIN Seen(p) : Seen(p)[i] \in low..high}, -1)
        /\ Goto(p, "place")
        /\ UNCHANGED <<playlist, lock, nextItem>>

\* Mutant: the item changes places with the one at its target.
ShiftBySwapping(p) ==
    LET other == {i \in DOMAIN Seen(p) : Seen(p)[i] = req[p].target}
    IN  /\ req[p].pc = "shift"
        /\ ShiftRows(p, other, req[p].current - req[p].target)
        /\ Goto(p, "place")
        /\ UNCHANGED <<playlist, lock, nextItem>>

\* The rows between the two positions slide one step towards the vacated one.
ShiftPositions(p) ==
    LET current == req[p].current
        target == req[p].target
        forward == {i \in DOMAIN Seen(p) : Seen(p)[i] > current /\ Seen(p)[i] <= target}
        backward == {i \in DOMAIN Seen(p) : Seen(p)[i] >= target /\ Seen(p)[i] < current}
    IN  /\ req[p].pc = "shift"
        /\ IF target > current THEN ShiftRows(p, forward, -1) ELSE ShiftRows(p, backward, 1)
        /\ Goto(p, "place")
        /\ UNCHANGED <<playlist, lock, nextItem>>

PlaceItem(p) ==
    /\ req[p].pc = "place"
    /\ SetRow(p, req[p].item, req[p].target)
    /\ Goto(p, "commit")
    /\ UNCHANGED <<playlist, lock, nextItem>>

\* The deferred unique constraint holds, and the writes become visible.
Commit(p) ==
    /\ req[p].pc = "commit"
    /\ Injective(Seen(p))
    /\ playlist' = [playlist EXCEPT ![req[p].window] = Seen(p)]
    /\ Close(p)
    /\ UNCHANGED nextItem

\* The item is not in this window: translateNoRows, and the rollback.
ItemNotFound(p) ==
    /\ req[p].pc = "edit" /\ req[p].op \in {"remove", "move"}
    /\ req[p].item \notin DOMAIN Seen(p)
    /\ Close(p)
    /\ UNCHANGED <<playlist, nextItem>>

\* Any statement may fail, the client may hang up and the backend may die:
\* the transaction rolls back.
Rollback(p) ==
    /\ req[p].pc # "idle"
    /\ Close(p)
    /\ UNCHANGED <<playlist, nextItem>>

-----------------------------------------------------------------------------
Statement(p) ==
    \/ InsertItem(p)
    \/ DeleteItem(p)
    \/ CompactPositions(p)
    \/ LocateItem(p)
    \/ ShiftPositions(p)
    \/ PlaceItem(p)
    \/ Commit(p)
    \/ ItemNotFound(p)

Next ==
    \E p \in Requests :
        \/ \E w \in Windows : AcceptAppend(p, w)
        \/ \E w \in Windows, i \in 1..MaxItems : AcceptRemove(p, w, i)
        \/ \E w \in Windows, i \in 1..MaxItems, t \in Targets : AcceptMove(p, w, i, t)
        \/ LockWindow(p)
        \/ Statement(p)
        \/ Rollback(p)

Spec == Init /\ [][Next]_vars

\* PostgreSQL grants a row lock in the order of arrival, so a request that
\* waits for it is not overtaken for ever; statements get their answers.
FairSpec ==
    /\ Spec
    /\ \A p \in Requests : SF_vars(LockWindow(p)) /\ WF_vars(Statement(p))

-----------------------------------------------------------------------------
(* Properties.                                                             *)

\* Every variable has its type.
TypeOK ==
    /\ DOMAIN playlist = Windows
    /\ \A w \in Windows : PartialMap(playlist[w], Nat)
    /\ lock \in [Windows -> Requests \cup {NoRequest}]
    /\ req \in [Requests -> Request]
    /\ writes = [p \in Requests |-> writes[p]]
    /\ \A p \in Requests : PartialMap(writes[p], Nat \cup {Deleted})
    /\ nextItem \in Nat

\* n items hold the positions 0..n-1, one each.
Contiguous(f) ==
    /\ Injective(f)
    /\ {f[i] : i \in DOMAIN f} = 0..(Cardinality(DOMAIN f) - 1)

\* The committed positions of every window are contiguous, whatever edits run
\* concurrently and wherever one of them fails.
PositionsContiguous == \A w \in Windows : Contiguous(playlist[w])

\* The collisions inside a transaction are gone when it commits: the deferred
\* unique constraint and the position check never turn an edit down.
CommitNeverRefused ==
    \A p \in Requests :
        req[p].pc = "commit" =>
            Injective(Seen(p)) /\ \A i \in DOMAIN Seen(p) : Seen(p)[i] >= 0

\* While a transaction holds the lock of a window, nobody else changes what it
\* has read there: the position, the count and the end of its playlist.
LockedWindowStable ==
    [][\A w \in Windows :
          lock[w] # NoRequest /\ lock'[w] = lock[w] => playlist'[w] = playlist[w]]_vars

\* Every edit that has begun ends, by a commit or a rollback.
EveryEditEnds == \A p \in Requests : req[p].pc # "idle" ~> req[p].pc = "idle"

\* The transactions implement the plain list operations: append, remove at an
\* index, move from one index to another.
Order(f) ==
    [k \in 1..Cardinality(DOMAIN f) |-> CHOOSE i \in DOMAIN f : f[i] = k - 1]

List == INSTANCE PlaylistOrder WITH
    order <- [w \in Windows |-> Order(playlist[w])],
    Items <- 1..MaxItems

EditsAreListEdits == List!Spec
=============================================================================
