------------------------ MODULE PlaylistStoreProofs ------------------------
(***************************************************************************)
(* What the playlist transactions guarantee, for any set of windows and of *)
(* concurrent edits.  PositionsContiguous is not inductive: a commit       *)
(* installs what the statements before it have computed, from rows they    *)
(* read in earlier steps.  Staged says, statement by statement, what a     *)
(* transaction has computed so far from the committed rows of its window;  *)
(* Locking says why those rows are still the ones it read.  At the end,    *)
(* the transactions are shown to be edits of lists.                        *)
(***************************************************************************)
EXTENDS PlaylistStore, FiniteSetTheorems, SequenceTheorems, TLAPS

USE WindowsAssumption, NoRequestAssumption, DeletedAssumption,
    TargetsAssumption, MaxItemsAssumption

\* From its first statement on, a transaction holds the row of its window.
Locking == \A p \in Requests : req[p].pc \in Statements => lock[req[p].window] = p

\* Every id in use comes from the identity sequence.
Fresh ==
    /\ \A w \in Windows : \A i \in DOMAIN playlist[w] : i < nextItem
    /\ \A p \in Requests : \A i \in DOMAIN writes[p] : i < nextItem

\* Where a row at position v ends up when the rows between current and target
\* slide one step towards current.
Slide(v, current, target) ==
    IF target > current
    THEN IF v > current /\ v <= target THEN v - 1 ELSE v
    ELSE IF v >= target /\ v < current THEN v + 1 ELSE v

\* f and g are the playlist of a window before and after an append, a removal
\* or a move.
Appended(f, g) ==
    \E x \in DOMAIN g \ DOMAIN f :
        /\ DOMAIN g = DOMAIN f \cup {x}
        /\ g[x] = Cardinality(DOMAIN f)
        /\ \A i \in DOMAIN f : g[i] = f[i]

Removed(f, g) ==
    \E x \in DOMAIN f :
        /\ DOMAIN g = DOMAIN f \ {x}
        /\ \A i \in DOMAIN f \ {x} : g[i] = IF f[i] > f[x] THEN f[i] - 1 ELSE f[i]

Moved(f, g) ==
    \E x \in DOMAIN f, target \in 0..(Cardinality(DOMAIN f) - 1) :
        /\ DOMAIN g = DOMAIN f
        /\ g[x] = target
        /\ \A i \in DOMAIN f \ {x} : g[i] = Slide(f[i], f[x], target)

\* What the uncommitted writes own of request r amount to, over the committed
\* rows of its window.
Stage(r, own, rows) ==
    /\ r.pc \in {"idle", "lock", "edit", "shift"} => own = NoWrites
    /\ r.pc \in {"compact", "shift", "place"} =>
          r.item \in DOMAIN rows /\ r.current = rows[r.item]
    /\ r.pc \in {"shift", "place"} =>
          r.target \in 0..(Cardinality(DOMAIN rows) - 1) /\ r.target # r.current
    /\ r.pc = "compact" => own = [i \in {r.item} |-> Deleted]
    /\ r.pc = "place" =>
          /\ DOMAIN own \subseteq DOMAIN rows
          /\ \A i \in DOMAIN own : own[i] \in Nat
          /\ \A i \in DOMAIN rows :
                Overlay(own, rows)[i] = Slide(rows[i], r.current, r.target)
    /\ r.pc = "commit" =>
          /\ PartialMap(Overlay(own, rows), Nat)
          /\ Contiguous(Overlay(own, rows))
          /\ \/ Appended(rows, Overlay(own, rows))
             \/ Removed(rows, Overlay(own, rows))
             \/ Moved(rows, Overlay(own, rows))

Staged == \A p \in Requests : Stage(req[p], writes[p], playlist[req[p].window])

IInv == TypeOK /\ Locking /\ Fresh /\ PositionsContiguous /\ Staged

-----------------------------------------------------------------------------
(* The list arithmetic of the three edits.                                 *)

\* Contiguous positions, place by place.
LEMMA ContiguousMeans ==
    ASSUME NEW f, PartialMap(f, Nat), Contiguous(f)
    PROVE  /\ Cardinality(DOMAIN f) \in Nat
           /\ \A i \in DOMAIN f : f[i] \in Nat /\ f[i] <= Cardinality(DOMAIN f) - 1
           /\ \A k \in Nat : k <= Cardinality(DOMAIN f) - 1 => \E i \in DOMAIN f : f[i] = k
           /\ \A i, j \in DOMAIN f : f[i] = f[j] => i = j
<1> DEFINE n == Cardinality(DOMAIN f)
<1>1. n \in Nat
  BY FS_CardinalityType DEF PartialMap
<1>2. {f[i] : i \in DOMAIN f} = 0..(n - 1)
  BY DEF Contiguous
<1>3. \A i \in DOMAIN f : f[i] \in 0..(n - 1)
  BY <1>2
<1>4. \A k \in 0..(n - 1) : \E i \in DOMAIN f : f[i] = k
  BY <1>2
<1>5. \A k \in Nat : k <= n - 1 => k \in 0..(n - 1)
  BY <1>1
<1>6. \A i, j \in DOMAIN f : f[i] = f[j] => i = j
  BY DEF Contiguous, Injective
<1> QED BY <1>1, <1>3, <1>4, <1>5, <1>6

LEMMA ContiguousIf ==
    ASSUME NEW n \in Nat, NEW D, IsFiniteSet(D), D \subseteq Nat, Cardinality(D) = n,
           NEW g \in [D -> Nat],
           \A i \in D : g[i] <= n - 1,
           \A k \in Nat : k <= n - 1 => \E i \in D : g[i] = k,
           \A i, j \in D : g[i] = g[j] => i = j
    PROVE  PartialMap(g, Nat) /\ Contiguous(g)
<1>1. DOMAIN g = D
  OBVIOUS
<1>2. PartialMap(g, Nat)
  BY <1>1 DEF PartialMap
<1>3. Injective(g)
  BY <1>1 DEF Injective
<1>4. \A i \in D : g[i] \in 0..(n - 1)
  OBVIOUS
<1>5. \A k \in 0..(n - 1) : \E i \in D : g[i] = k
  OBVIOUS
<1>6. {g[i] : i \in D} = 0..(n - 1)
  BY <1>4, <1>5
<1> QED BY <1>1, <1>2, <1>3, <1>6 DEF Contiguous

\* The position after the last is the number of rows.
LEMMA EndIsCount ==
    ASSUME NEW f, PartialMap(f, Nat), Contiguous(f)
    PROVE  EndPosition(f) = Cardinality(DOMAIN f)
<1> DEFINE n == Cardinality(DOMAIN f)
<1>1. n \in Nat
  BY ContiguousMeans
<1>2. CASE DOMAIN f = {}
  BY <1>2, FS_EmptySet DEF EndPosition
<1>3. CASE DOMAIN f # {}
  <2>1. n # 0
    BY <1>3, FS_EmptySet DEF PartialMap
  <2> DEFINE values == {f[i] : i \in DOMAIN f}
             last == CHOOSE m \in values : \A i \in DOMAIN f : f[i] <= m
  <2>2. \A v \in values : v \in Nat /\ v <= n - 1
    BY ContiguousMeans
  <2>3. PICK i \in DOMAIN f : f[i] = n - 1
    BY <1>1, <2>1, ContiguousMeans
  <2>4. n - 1 \in values /\ \A j \in DOMAIN f : f[j] <= n - 1
    BY <2>2, <2>3
  <2> HIDE DEF values
  <2>5. last \in values /\ \A j \in DOMAIN f : f[j] <= last
    BY <2>4
  <2>6. last \in Nat /\ last <= n - 1 /\ n - 1 <= last
    BY <2>2, <2>3, <2>5
  <2>7. EndPosition(f) = 1 + last
    BY <1>3 DEF EndPosition, values
  <2> HIDE DEF last
  <2> QED BY <1>1, <2>6, <2>7
<1> QED BY <1>2, <1>3

\* Append: a row at the end keeps the positions contiguous.
LEMMA AppendKeepsContiguous ==
    ASSUME NEW f, PartialMap(f, Nat), Contiguous(f), NEW x \in Nat \ DOMAIN f,
           NEW g \in [DOMAIN f \cup {x} -> Nat], g[x] = EndPosition(f),
           \A i \in DOMAIN f : g[i] = f[i]
    PROVE  PartialMap(g, Nat) /\ Contiguous(g)
<1> DEFINE n == Cardinality(DOMAIN f)
           D == DOMAIN f \cup {x}
<1>1. n \in Nat /\ IsFiniteSet(D) /\ Cardinality(D) = n + 1 /\ D \subseteq Nat
  BY FS_CardinalityType, FS_AddElement DEF PartialMap
<1>2. g[x] = n
  BY EndIsCount
<1>3. \A i \in D : g[i] <= n
  BY <1>1, <1>2, ContiguousMeans
<1>4. \A k \in Nat : k <= n => \E i \in D : g[i] = k
  <2>1. \A k \in Nat : k <= n - 1 => \E i \in D : g[i] = k
    BY ContiguousMeans
  <2> QED BY <1>1, <1>2, <2>1
<1>5. \A i, j \in D : g[i] = g[j] => i = j
  BY <1>1, <1>2, ContiguousMeans
<1>6. (n + 1) - 1 = n /\ n + 1 \in Nat
  BY <1>1
<1> QED BY <1>1, <1>3, <1>4, <1>5, <1>6, ContiguousIf

\* Remove: closing the gap keeps the positions contiguous.
LEMMA RemoveKeepsContiguous ==
    ASSUME NEW f, PartialMap(f, Nat), Contiguous(f), NEW x \in DOMAIN f,
           NEW g \in [DOMAIN f \ {x} -> Nat],
           \A i \in DOMAIN f \ {x} : g[i] = IF f[i] > f[x] THEN f[i] - 1 ELSE f[i]
    PROVE  PartialMap(g, Nat) /\ Contiguous(g)
<1> DEFINE n == Cardinality(DOMAIN f)
           D == DOMAIN f \ {x}
<1>1. n \in Nat /\ IsFiniteSet(D) /\ Cardinality(D) = n - 1 /\ D \subseteq Nat
  BY FS_CardinalityType, FS_RemoveElement DEF PartialMap
<1>2. n - 1 \in Nat
  BY <1>1, FS_CardinalityType
<1>3. \A i \in D : g[i] <= (n - 1) - 1
  BY <1>1, ContiguousMeans
<1>4. ASSUME NEW k \in Nat, k <= (n - 1) - 1 PROVE \E i \in D : g[i] = k
  <2>1. CASE k < f[x]
    <3>1. PICK i \in DOMAIN f : f[i] = k
      BY <1>1, <1>4, ContiguousMeans
    <3> QED BY <2>1, <3>1, ContiguousMeans
  <2>2. CASE ~(k < f[x])
    <3>1. k + 1 \in Nat /\ k + 1 <= n - 1
      BY <1>1, <1>4
    <3>2. PICK i \in DOMAIN f : f[i] = k + 1
      BY <3>1, ContiguousMeans
    <3> QED BY <2>2, <3>2, ContiguousMeans
  <2> QED BY <2>1, <2>2
<1>5. \A i, j \in D : g[i] = g[j] => i = j
  BY ContiguousMeans
<1> QED BY <1>1, <1>2, <1>3, <1>4, <1>5, ContiguousIf

\* Move: sliding the rows in between and placing the item keeps the positions
\* contiguous.
LEMMA MoveKeepsContiguous ==
    ASSUME NEW f, PartialMap(f, Nat), Contiguous(f), NEW x \in DOMAIN f,
           NEW target \in 0..(Cardinality(DOMAIN f) - 1),
           NEW g \in [DOMAIN f -> Nat], g[x] = target,
           \A i \in DOMAIN f \ {x} : g[i] = Slide(f[i], f[x], target)
    PROVE  PartialMap(g, Nat) /\ Contiguous(g)
<1> DEFINE n == Cardinality(DOMAIN f)
           D == DOMAIN f
<1>1. n \in Nat /\ IsFiniteSet(D) /\ D \subseteq Nat
  BY FS_CardinalityType DEF PartialMap
<1>2. \A i \in D : g[i] <= n - 1
  BY <1>1, ContiguousMeans DEF Slide
<1>3. ASSUME NEW k \in Nat, k <= n - 1 PROVE \E i \in D : g[i] = k
  <2> DEFINE from == IF k = target THEN f[x]
                     ELSE IF target > f[x]
                          THEN IF k >= f[x] /\ k < target THEN k + 1 ELSE k
                          ELSE IF k > target /\ k <= f[x] THEN k - 1 ELSE k
  <2>1. from \in Nat /\ from <= n - 1
    BY <1>1, <1>3, ContiguousMeans
  <2>2. PICK i \in DOMAIN f : f[i] = from
    BY <2>1, ContiguousMeans
  <2>3. CASE k = target
    BY <2>3
  <2>4. CASE k # target
    <3>1. from # f[x]
      BY <1>1, <2>4, ContiguousMeans
    <3>2. i # x /\ g[i] = Slide(from, f[x], target)
      BY <2>2, <3>1
    <3>3. Slide(from, f[x], target) = k
      BY <1>1, <2>4, ContiguousMeans DEF Slide
    <3> QED BY <3>2, <3>3
  <2> QED BY <2>3, <2>4
<1>4. \A i, j \in D : g[i] = g[j] => i = j
  BY <1>1, ContiguousMeans DEF Slide
<1> QED BY <1>1, <1>2, <1>3, <1>4, ContiguousIf

-----------------------------------------------------------------------------
(* What a transaction sees.                                                *)

LEMMA SeenThroughNoWrites ==
    ASSUME NEW rows, PartialMap(rows, Nat)
    PROVE  Overlay(NoWrites, rows) = rows
<1>1. DOMAIN NoWrites = {}
  BY DEF NoWrites
<1>2. \A i \in DOMAIN rows : Overlay(NoWrites, rows)[i] = rows[i]
  BY <1>1 DEF Overlay
<1>3. DOMAIN Overlay(NoWrites, rows) = DOMAIN rows
  BY <1>1 DEF Overlay
<1>4. Overlay(NoWrites, rows) = [i \in DOMAIN rows |-> Overlay(NoWrites, rows)[i]]
  BY <1>3 DEF Overlay
<1> QED BY <1>2, <1>4 DEF PartialMap

-----------------------------------------------------------------------------
THEOREM InitInvariant == Init => IInv
<1> SUFFICES ASSUME Init PROVE IInv
  OBVIOUS
<1>1. PartialMap(NoWrites, Nat) /\ PartialMap(NoWrites, Nat \cup {Deleted})
  BY FS_EmptySet DEF NoWrites, PartialMap
<1>2. NewRequest \in Request
  BY DEF NewRequest, Request
<1>3. TypeOK
  BY <1>1, <1>2 DEF TypeOK, Init
<1>4. Locking
  BY DEF Init, NewRequest, Locking, Statements
<1>5. Fresh
  BY DEF Init, Fresh, NoWrites
<1>6. Contiguous(NoWrites)
  <2>1. DOMAIN NoWrites = {} /\ Cardinality({}) = 0
    BY FS_EmptySet DEF NoWrites
  <2>2. {NoWrites[i] : i \in {}} = 0..(0 - 1)
    OBVIOUS
  <2> QED BY <2>1, <2>2 DEF Contiguous, Injective
<1>7. PositionsContiguous
  BY <1>6 DEF Init, PositionsContiguous
<1>8. Staged
  BY DEF Staged, Stage, Init, NewRequest
<1> QED BY <1>3, <1>4, <1>5, <1>7, <1>8 DEF IInv

\* A step of p that commits nothing leaves the other transactions staged.
LEMMA OthersStaged ==
    ASSUME IInv, NEW p \in Requests, UNCHANGED playlist,
           \A q \in Requests \ {p} : req'[q] = req[q] /\ writes'[q] = writes[q],
           Stage(req'[p], writes'[p], playlist[req'[p].window])
    PROVE  Staged'
BY DEF IInv, Staged

\* Closing transaction p keeps everything but what it may have committed.
LEMMA CloseKeeps ==
    ASSUME IInv, NEW p \in Requests, Close(p)
    PROVE  /\ lock' \in [Windows -> Requests \cup {NoRequest}]
           /\ req' \in [Requests -> Request]
           /\ DOMAIN writes' = Requests
           /\ \A q \in Requests : PartialMap(writes'[q], Nat \cup {Deleted})
           /\ \A q \in Requests : \A i \in DOMAIN writes'[q] : i < nextItem
           /\ Locking'
           /\ \A rows : Stage(req'[p], writes'[p], rows)
           /\ \A q \in Requests \ {p} : req'[q] = req[q] /\ writes'[q] = writes[q]
<1>1. PartialMap(NoWrites, Nat \cup {Deleted}) /\ DOMAIN NoWrites = {}
  BY FS_EmptySet DEF NoWrites, PartialMap
<1>2. NewRequest \in Request /\ NewRequest.pc = "idle"
  BY DEF NewRequest, Request
<1>3. req'[p] = NewRequest /\ writes'[p] = NoWrites
  BY DEF Close, IInv, TypeOK
<1>4. \A q \in Requests \ {p} : req'[q] = req[q] /\ writes'[q] = writes[q]
  BY DEF Close, IInv, TypeOK
<1>5. req' \in [Requests -> Request] /\ lock' \in [Windows -> Requests \cup {NoRequest}]
  BY <1>2 DEF Close, IInv, TypeOK
<1>6. DOMAIN writes' = Requests
  BY DEF Close, IInv, TypeOK
<1>7. \A q \in Requests : PartialMap(writes'[q], Nat \cup {Deleted})
  BY <1>1, <1>3, <1>4 DEF IInv, TypeOK
<1>8. \A q \in Requests : \A i \in DOMAIN writes'[q] : i < nextItem
  BY <1>1, <1>3, <1>4 DEF IInv, Fresh
<1>9. Locking'
  <2> SUFFICES ASSUME NEW q \in Requests, req'[q].pc \in Statements
               PROVE  lock'[req'[q].window] = q
    BY DEF Locking
  <2>1. q # p
    BY <1>2, <1>3 DEF Statements
  <2>2. lock[req[q].window] = q /\ req[q].window \in Windows /\ req'[q] = req[q]
    BY <1>4, <2>1 DEF IInv, Locking, TypeOK, Request
  <2> QED BY <2>1, <2>2 DEF Close
<1>10. \A rows : Stage(req'[p], writes'[p], rows)
  BY <1>2, <1>3 DEF Stage
<1> QED BY <1>4, <1>5, <1>6, <1>7, <1>8, <1>9, <1>10

\* A statement of p touches its own request and writes only.
LEMMA StatementKeeps ==
    ASSUME IInv, NEW p \in Requests, UNCHANGED <<playlist, lock>>,
           nextItem' \in Nat, nextItem <= nextItem',
           NEW r \in Request, req' = [req EXCEPT ![p] = r],
           r.window = req[p].window, r.pc \in Statements, req[p].pc \in Statements,
           NEW own, PartialMap(own, Nat \cup {Deleted}),
           writes' = [writes EXCEPT ![p] = own],
           \A i \in DOMAIN own : i < nextItem',
           Stage(r, own, playlist[r.window])
    PROVE  IInv'
<1>1. /\ req'[p] = r /\ writes'[p] = own
      /\ \A q \in Requests \ {p} : req'[q] = req[q] /\ writes'[q] = writes[q]
      /\ DOMAIN writes' = Requests
  BY DEF IInv, TypeOK
<1>2. TypeOK'
  <2>1. \A q \in Requests : PartialMap(writes'[q], Nat \cup {Deleted})
    BY <1>1 DEF IInv, TypeOK
  <2>2. req' \in [Requests -> Request]
    BY DEF IInv, TypeOK
  <2>3. /\ DOMAIN playlist' = Windows
        /\ \A w \in Windows : PartialMap(playlist'[w], Nat)
        /\ lock' \in [Windows -> Requests \cup {NoRequest}]
    BY DEF IInv, TypeOK
  <2> QED BY <1>1, <2>1, <2>2, <2>3 DEF TypeOK
<1>3. Locking'
  BY <1>1 DEF IInv, Locking
<1>4. Fresh'
  <2>1. \A w \in Windows : \A i \in DOMAIN playlist[w] : i \in Nat /\ i < nextItem
    BY DEF IInv, TypeOK, PartialMap, Fresh
  <2>2. \A q \in Requests : \A i \in DOMAIN writes[q] : i \in Nat /\ i < nextItem
    BY DEF IInv, TypeOK, PartialMap, Fresh
  <2>3. nextItem \in Nat
    BY DEF IInv, TypeOK
  <2> QED BY <1>1, <2>1, <2>2, <2>3 DEF Fresh
<1>5. PositionsContiguous'
  BY DEF IInv, PositionsContiguous
<1>6. Staged'
  BY <1>1, OthersStaged
<1> QED BY <1>2, <1>3, <1>4, <1>5, <1>6 DEF IInv

\* The state a statement of p starts from.
LEMMA AtStatement ==
    ASSUME IInv, NEW p \in Requests
    PROVE  /\ req[p] \in Request /\ req[p].window \in Windows /\ req[p].item \in Nat
           /\ PartialMap(playlist[req[p].window], Nat)
           /\ Contiguous(playlist[req[p].window])
           /\ PartialMap(writes[p], Nat \cup {Deleted})
           /\ Stage(req[p], writes[p], playlist[req[p].window])
           /\ \A i \in DOMAIN playlist[req[p].window] : i \in Nat /\ i < nextItem
           /\ nextItem \in Nat
<1>1. req[p] \in Request /\ req[p].window \in Windows /\ req[p].item \in Nat
  BY DEF IInv, TypeOK, Request
<1> QED BY <1>1 DEF IInv, TypeOK, PositionsContiguous, Staged, Fresh, PartialMap

LEMMA AcceptKeeps ==
    ASSUME IInv, NEW p \in Requests, NEW op \in {"append", "remove", "move"},
           NEW w \in Windows, NEW item \in Nat, NEW target \in Int,
           Accept(p, op, w, item, target)
    PROVE  IInv'
<1> DEFINE r == [pc |-> "lock", op |-> op, window |-> w, item |-> item,
                 target |-> target, current |-> 0]
<1>1. r \in Request
  BY DEF Request
<1>2. /\ req' = [req EXCEPT ![p] = r] /\ req[p].pc = "idle"
      /\ UNCHANGED <<playlist, lock, writes, nextItem>>
  BY DEF Accept
<1>3. req'[p] = r /\ \A q \in Requests \ {p} : req'[q] = req[q]
  BY <1>2 DEF IInv, TypeOK
<1>4. TypeOK'
  <2>1. req' \in [Requests -> Request]
    BY <1>1, <1>2 DEF IInv, TypeOK
  <2> QED BY <1>2, <2>1 DEF IInv, TypeOK
<1>5. Locking'
  BY <1>2, <1>3 DEF IInv, Locking, Statements
<1>6. writes[p] = NoWrites
  BY <1>2 DEF IInv, Staged, Stage
<1>7. Staged'
  <2>1. Stage(r, NoWrites, playlist[w])
    BY DEF Stage
  <2> QED BY <1>2, <1>3, <1>6, <2>1, OthersStaged
<1> QED BY <1>2, <1>4, <1>5, <1>7 DEF IInv, Fresh, PositionsContiguous

LEMMA LockWindowKeeps ==
    ASSUME IInv, NEW p \in Requests, LockWindow(p)
    PROVE  IInv'
<1> DEFINE r == [req[p] EXCEPT !.pc = "edit"]
<1>1. /\ req' = [req EXCEPT ![p] = r] /\ req[p].pc = "lock"
      /\ lock[req[p].window] = NoRequest
      /\ lock' = [lock EXCEPT ![req[p].window] = p]
      /\ UNCHANGED <<playlist, writes, nextItem>>
  BY DEF LockWindow, Goto
<1>2. r \in Request /\ r.pc = "edit" /\ r.window = req[p].window /\ r.window \in Windows
  BY AtStatement DEF Request, Statements
<1>3. req'[p] = r /\ \A q \in Requests \ {p} : req'[q] = req[q]
  BY <1>1 DEF IInv, TypeOK
<1>4. TypeOK'
  <2>1. req' \in [Requests -> Request]
    BY <1>1, <1>2 DEF IInv, TypeOK
  <2>2. lock' \in [Windows -> Requests \cup {NoRequest}]
    BY <1>1 DEF IInv, TypeOK
  <2> QED BY <1>1, <2>1, <2>2 DEF IInv, TypeOK
<1>5. Locking'
  <2> SUFFICES ASSUME NEW q \in Requests, req'[q].pc \in Statements
               PROVE  lock'[req'[q].window] = q
    BY DEF Locking
  <2>1. CASE q = p
    BY <1>1, <1>2, <1>3, <2>1 DEF IInv, TypeOK
  <2>2. CASE q # p
    <3>1. req'[q] = req[q] /\ lock[req[q].window] = q
      BY <1>3, <2>2 DEF IInv, Locking
    <3>2. req[q].window # req[p].window
      BY <1>1, <3>1
    <3> QED BY <1>1, <3>1, <3>2 DEF IInv, TypeOK
  <2> QED BY <2>1, <2>2
<1>6. Staged'
  <2>1. writes[p] = NoWrites
    BY <1>1 DEF IInv, Staged, Stage
  <2>2. Stage(r, NoWrites, playlist[r.window])
    BY <1>2 DEF Stage
  <2> QED BY <1>1, <1>2, <1>3, <2>1, <2>2, OthersStaged
<1> QED BY <1>1, <1>4, <1>5, <1>6 DEF IInv, Fresh, PositionsContiguous

LEMMA InsertItemKeeps ==
    ASSUME IInv, NEW p \in Requests, InsertItem(p)
    PROVE  IInv'
<1> DEFINE rows == playlist[req[p].window]
           r == [req[p] EXCEPT !.pc = "commit"]
           own == [i \in {nextItem} |-> EndPosition(rows)]
           g == Overlay(own, rows)
<1>1. req[p].pc = "edit" /\ req' = [req EXCEPT ![p] = r] /\ nextItem' = nextItem + 1
      /\ UNCHANGED <<playlist, lock>>
  BY DEF InsertItem, Goto
<1>2. writes[p] = NoWrites /\ Seen(p) = rows
  BY <1>1, AtStatement, SeenThroughNoWrites DEF Stage, Seen
<1>3. writes' = [writes EXCEPT ![p] = own]
  BY <1>2 DEF InsertItem, SetRow, NoWrites
<1>4. r \in Request /\ r.pc = "commit" /\ r.window = req[p].window
  BY AtStatement DEF Request, Statements
<1>5. EndPosition(rows) \in Nat
  BY AtStatement, EndIsCount, ContiguousMeans
<1>6. nextItem \in Nat \ DOMAIN rows
  BY AtStatement
<1>7. EndPosition(rows) # Deleted
  BY <1>5
<1>8. PartialMap(g, Nat) /\ Contiguous(g) /\ Appended(rows, g)
  <2>1. g \in [DOMAIN rows \cup {nextItem} -> Nat]
    BY <1>5, <1>7, AtStatement DEF Overlay, PartialMap
  <2>2. g[nextItem] = EndPosition(rows) /\ \A i \in DOMAIN rows : g[i] = rows[i]
    BY <1>6, <1>7 DEF Overlay
  <2> HIDE DEF g
  <2>3. PartialMap(g, Nat) /\ Contiguous(g)
    BY <1>6, <2>1, <2>2, AtStatement, AppendKeepsContiguous
  <2>4. Appended(rows, g)
    BY <1>6, <2>1, <2>2, AtStatement, EndIsCount DEF Appended
  <2> QED BY <2>3, <2>4
<1>9. PartialMap(own, Nat \cup {Deleted})
  BY <1>5, AtStatement, FS_Singleton DEF PartialMap
<1>10. Stage(r, own, rows)
  BY <1>4, <1>8 DEF Stage
<1>11. nextItem' \in Nat /\ nextItem <= nextItem' /\ \A i \in DOMAIN own : i < nextItem'
  BY <1>1, AtStatement
<1> HIDE DEF own, r
<1> QED BY <1>1, <1>3, <1>4, <1>9, <1>10, <1>11, StatementKeeps DEF Statements

LEMMA DeleteItemKeeps ==
    ASSUME IInv, NEW p \in Requests, DeleteItem(p)
    PROVE  IInv'
<1> DEFINE rows == playlist[req[p].window]
           item == req[p].item
           r == [req[p] EXCEPT !.pc = "compact", !.current = rows[item]]
           own == [i \in {item} |-> Deleted]
<1>1. req[p].pc = "edit" /\ item \in DOMAIN Seen(p) /\ UNCHANGED <<playlist, lock, nextItem>>
  BY DEF DeleteItem
<1>2. writes[p] = NoWrites /\ Seen(p) = rows
  BY <1>1, AtStatement, SeenThroughNoWrites DEF Stage, Seen
<1>3. req' = [req EXCEPT ![p] = r] /\ writes' = [writes EXCEPT ![p] = own]
  BY <1>2 DEF DeleteItem, SetRow, NoWrites
<1>4. rows[item] \in Nat
  BY <1>1, <1>2, AtStatement DEF PartialMap
<1>5. /\ r \in Request /\ r.pc = "compact" /\ r.window = req[p].window
      /\ r.item = item /\ r.current = rows[item]
  BY <1>4, AtStatement DEF Request, Statements
<1>6. PartialMap(own, Nat \cup {Deleted})
  BY AtStatement, FS_Singleton DEF PartialMap
<1>7. Stage(r, own, rows)
  BY <1>1, <1>2, <1>5 DEF Stage
<1>8. nextItem' \in Nat /\ nextItem <= nextItem' /\ \A i \in DOMAIN own : i < nextItem'
  BY <1>1, <1>2, AtStatement
<1> HIDE DEF own, r
<1> QED BY <1>1, <1>3, <1>5, <1>6, <1>7, <1>8, StatementKeeps DEF Statements

LEMMA CompactPositionsKeeps ==
    ASSUME IInv, NEW p \in Requests, CompactPositions(p)
    PROVE  IInv'
<1> DEFINE rows == playlist[req[p].window]
           item == req[p].item
           behind == {i \in DOMAIN rows \ {item} : rows[i] > rows[item]}
           r == [req[p] EXCEPT !.pc = "commit"]
           own == [i \in {item} \cup behind |-> IF i \in behind THEN rows[i] + (-1) ELSE Deleted]
           g == Overlay(own, rows)
<1>1. /\ req[p].pc = "compact" /\ req' = [req EXCEPT ![p] = r]
      /\ UNCHANGED <<playlist, lock, nextItem>>
  BY DEF CompactPositions, Goto
<1>2. /\ item \in DOMAIN rows /\ req[p].current = rows[item]
      /\ writes[p] = [i \in {item} |-> Deleted]
  BY <1>1, AtStatement DEF Stage
<1>3. /\ DOMAIN Seen(p) = DOMAIN rows \ {item}
      /\ \A i \in DOMAIN Seen(p) : Seen(p)[i] = rows[i]
  BY <1>2 DEF Seen, Overlay
<1>4. writes' = [writes EXCEPT ![p] = own]
  <2>1. {i \in DOMAIN Seen(p) : Seen(p)[i] > req[p].current} = behind
    BY <1>2, <1>3
  <2>2. \A i \in behind : Seen(p)[i] = rows[i]
    BY <1>3
  <2>3. [i \in DOMAIN writes[p] \cup behind |->
           IF i \in behind THEN Seen(p)[i] + (-1) ELSE writes[p][i]] = own
    BY <1>2, <2>2
  <2> HIDE DEF behind, own
  <2> QED BY <2>1, <2>3 DEF CompactPositions, ShiftRows
<1>5. r \in Request /\ r.pc = "commit" /\ r.window = req[p].window
  BY AtStatement DEF Request, Statements
<1>6. \A i \in DOMAIN rows : rows[i] \in Nat
  BY AtStatement DEF PartialMap
<1>7. \A i \in behind : rows[i] + (-1) \in Nat /\ rows[i] + (-1) # Deleted
  BY <1>2, <1>6
<1>8. PartialMap(g, Nat) /\ Contiguous(g) /\ Removed(rows, g)
  <2>1. DOMAIN g = DOMAIN rows \ {item}
    BY <1>2, <1>7 DEF Overlay
  <2>2. \A i \in DOMAIN rows \ {item} :
           g[i] = IF rows[i] > rows[item] THEN rows[i] - 1 ELSE rows[i]
    BY <1>6, <1>7 DEF Overlay
  <2>3. g \in [DOMAIN rows \ {item} -> Nat]
    <3>1. g = [i \in DOMAIN g |-> g[i]]
      BY DEF Overlay
    <3> HIDE DEF g, own, r, behind
    <3>2. \A i \in DOMAIN rows \ {item} : g[i] \in Nat
      BY <1>2, <1>6, <2>2
    <3> QED BY <2>1, <3>1, <3>2
  <2> HIDE DEF g
  <2>4. PartialMap(g, Nat) /\ Contiguous(g)
    BY <1>2, <2>2, <2>3, AtStatement, RemoveKeepsContiguous
  <2>5. Removed(rows, g)
    BY <1>2, <2>1, <2>2 DEF Removed
  <2> QED BY <2>4, <2>5
<1>9. PartialMap(own, Nat \cup {Deleted})
  <2>1. {item} \cup behind \in SUBSET DOMAIN rows
    BY <1>2
  <2>2. IsFiniteSet({item} \cup behind)
    BY <2>1, FS_Subset, AtStatement DEF PartialMap
  <2> QED BY <1>7, <2>1, <2>2, AtStatement DEF PartialMap
<1>10. Stage(r, own, rows)
  BY <1>5, <1>8 DEF Stage
<1>11. nextItem' \in Nat /\ nextItem <= nextItem' /\ \A i \in DOMAIN own : i < nextItem'
  BY <1>1, <1>2, AtStatement
<1> HIDE DEF own, r
<1> QED BY <1>1, <1>4, <1>5, <1>9, <1>10, <1>11, StatementKeeps DEF Statements

LEMMA LocateItemKeeps ==
    ASSUME IInv, NEW p \in Requests, LocateItem(p)
    PROVE  IInv'
<1> DEFINE rows == playlist[req[p].window]
           item == req[p].item
           n == Cardinality(DOMAIN rows)
           target == Clamp(req[p].target, 0, n - 1)
           pc == IF target = rows[item] THEN "commit" ELSE "shift"
           r == [req[p] EXCEPT !.pc = pc, !.current = rows[item], !.target = target]
<1>1. req[p].pc = "edit"
  BY DEF LocateItem
<1>2. writes[p] = NoWrites /\ Seen(p) = rows
  BY <1>1, AtStatement, SeenThroughNoWrites DEF Stage, Seen
<1>3. /\ item \in DOMAIN rows /\ req' = [req EXCEPT ![p] = r]
      /\ UNCHANGED <<playlist, lock, writes, nextItem>>
  BY <1>2 DEF LocateItem
<1>4. n \in Nat /\ n # 0 /\ rows[item] \in Nat
  BY <1>3, AtStatement, FS_CardinalityType, FS_EmptySet DEF PartialMap
<1>5. target \in 0..(n - 1)
  BY <1>4, AtStatement DEF Clamp, Request
<1>6. /\ r \in Request /\ r.window = req[p].window /\ r.item = item
      /\ r.target = target /\ r.current = rows[item] /\ r.pc = pc
  <2>1. target \in Int /\ pc \in Statements
    BY <1>4, <1>5 DEF Statements
  <2> HIDE DEF target, pc
  <2> QED BY <1>4, <2>1, AtStatement DEF Request
<1>7. Stage(r, NoWrites, rows)
  <2>1. pc \in {"commit", "shift"} /\ (pc = "shift" => target # rows[item])
    OBVIOUS
  <2>2. PartialMap(rows, Nat) /\ Contiguous(rows) /\ Overlay(NoWrites, rows) = rows
    BY AtStatement, SeenThroughNoWrites
  <2>3. target = rows[item] => Moved(rows, rows)
    <3>1. \A i \in DOMAIN rows : rows[i] = Slide(rows[i], rows[item], rows[item])
      BY <1>4, <2>2 DEF Slide, PartialMap
    <3> HIDE DEF target
    <3> QED BY <1>3, <1>5, <3>1 DEF Moved
  <2> HIDE DEF target, pc, r
  <2>4. pc = "commit" => target = rows[item]
    BY DEF pc
  <2> QED BY <1>3, <1>5, <1>6, <2>1, <2>2, <2>3, <2>4 DEF Stage
<1>8. /\ PartialMap(NoWrites, Nat \cup {Deleted})
      /\ writes' = [writes EXCEPT ![p] = NoWrites]
  BY <1>2, <1>3, AtStatement DEF IInv, TypeOK
<1>9. nextItem' \in Nat /\ nextItem <= nextItem' /\ \A i \in DOMAIN NoWrites : i < nextItem'
  BY <1>3, AtStatement DEF NoWrites
<1>10. r.pc \in Statements
  BY <1>6 DEF Statements
<1> HIDE DEF r
<1> QED BY <1>1, <1>3, <1>6, <1>7, <1>8, <1>9, <1>10, StatementKeeps DEF Statements

LEMMA ShiftPositionsKeeps ==
    ASSUME IInv, NEW p \in Requests, ShiftPositions(p)
    PROVE  IInv'
<1> DEFINE rows == playlist[req[p].window]
           current == req[p].current
           target == req[p].target
           S == {i \in DOMAIN rows : Slide(rows[i], current, target) # rows[i]}
           r == [req[p] EXCEPT !.pc = "place"]
           own == [i \in S |-> Slide(rows[i], current, target)]
<1>1. /\ req[p].pc = "shift" /\ req' = [req EXCEPT ![p] = r]
      /\ UNCHANGED <<playlist, lock, nextItem>>
  BY DEF ShiftPositions, Goto
<1>2. /\ writes[p] = NoWrites /\ Seen(p) = rows
      /\ req[p].item \in DOMAIN rows /\ current = rows[req[p].item]
      /\ target \in 0..(Cardinality(DOMAIN rows) - 1) /\ target # current
  BY <1>1, AtStatement, SeenThroughNoWrites DEF Stage, Seen
<1>3. /\ \A i \in DOMAIN rows : rows[i] \in Nat
      /\ Cardinality(DOMAIN rows) \in Nat
      /\ current \in Nat /\ target \in Nat
  <2> HIDE DEF S, r, own
  <2>1. (\A i \in DOMAIN rows : rows[i] \in Nat) /\ IsFiniteSet(DOMAIN rows)
    BY AtStatement DEF PartialMap
  <2>2. Cardinality(DOMAIN rows) \in Nat
    BY <2>1, FS_CardinalityType
  <2>3. current \in Nat
    BY <1>2, <2>1
  <2> HIDE DEF rows
  <2>4. target \in Nat
    BY <1>2, <2>2
  <2> QED BY <2>1, <2>2, <2>3, <2>4
<1>4. \A i \in DOMAIN rows : Slide(rows[i], current, target) \in Nat
  BY <1>3 DEF Slide
<1>5. writes' = [writes EXCEPT ![p] = own]
  <2> DEFINE forward == {i \in DOMAIN rows : rows[i] > current /\ rows[i] <= target}
             backward == {i \in DOMAIN rows : rows[i] >= target /\ rows[i] < current}
  <2>1. CASE target > current
    <3>1. forward = S
      BY <1>3, <2>1 DEF Slide
    <3>2. \A i \in S : rows[i] + (-1) = Slide(rows[i], current, target)
      BY <1>3, <2>1 DEF Slide
    <3>3. writes' = [writes EXCEPT ![p] =
                       [i \in DOMAIN NoWrites \cup forward |->
                          IF i \in forward THEN rows[i] + (-1) ELSE NoWrites[i]]]
      BY <1>2, <2>1 DEF ShiftPositions, ShiftRows
    <3>4. DOMAIN NoWrites = {}
      BY DEF NoWrites
    <3> HIDE DEF S, forward
    <3>5. [i \in DOMAIN NoWrites \cup forward |->
             IF i \in forward THEN rows[i] + (-1) ELSE NoWrites[i]] = own
      BY <3>1, <3>2, <3>4
    <3> QED BY <3>3, <3>5
  <2>2. CASE ~(target > current)
    <3>1. backward = S
      BY <1>3, <2>2 DEF Slide
    <3>2. \A i \in S : rows[i] + 1 = Slide(rows[i], current, target)
      BY <1>3, <2>2 DEF Slide
    <3>3. writes' = [writes EXCEPT ![p] =
                       [i \in DOMAIN NoWrites \cup backward |->
                          IF i \in backward THEN rows[i] + 1 ELSE NoWrites[i]]]
      BY <1>2, <2>2 DEF ShiftPositions, ShiftRows
    <3>4. DOMAIN NoWrites = {}
      BY DEF NoWrites
    <3> HIDE DEF S, backward
    <3>5. [i \in DOMAIN NoWrites \cup backward |->
             IF i \in backward THEN rows[i] + 1 ELSE NoWrites[i]] = own
      BY <3>1, <3>2, <3>4
    <3> QED BY <3>3, <3>5
  <2> QED BY <2>1, <2>2
<1>6. /\ r \in Request /\ r.pc = "place" /\ r.window = req[p].window
      /\ r.item = req[p].item /\ r.current = current /\ r.target = target
  BY AtStatement DEF Request, Statements
<1>7. PartialMap(own, Nat \cup {Deleted})
  <2>1. IsFiniteSet(S) /\ S \subseteq Nat
    BY AtStatement, FS_Subset DEF PartialMap
  <2> HIDE DEF S
  <2>2. \A i \in S : i \in DOMAIN rows
    BY DEF S
  <2> QED BY <1>4, <2>1, <2>2 DEF PartialMap
<1>8. Stage(r, own, rows)
  <2>1. DOMAIN own \subseteq DOMAIN rows /\ \A i \in DOMAIN own : own[i] \in Nat
    BY <1>4
  <2>2. ASSUME NEW i \in DOMAIN rows
        PROVE  Overlay(own, rows)[i] = Slide(rows[i], current, target)
    <3>1. \A j \in DOMAIN own : own[j] # Deleted
      BY <2>1
    <3>2. Overlay(own, rows)[i] = IF i \in DOMAIN own THEN own[i] ELSE rows[i]
      BY <3>1 DEF Overlay
    <3> QED BY <3>2
  <2> HIDE DEF own, r, S
  <2> QED BY <1>2, <1>6, <2>1, <2>2 DEF Stage
<1>9. nextItem' \in Nat /\ nextItem <= nextItem' /\ \A i \in DOMAIN own : i < nextItem'
  BY <1>1, AtStatement
<1> HIDE DEF own, r
<1> QED BY <1>1, <1>5, <1>6, <1>7, <1>8, <1>9, StatementKeeps DEF Statements

LEMMA PlaceItemKeeps ==
    ASSUME IInv, NEW p \in Requests, PlaceItem(p)
    PROVE  IInv'
<1> DEFINE rows == playlist[req[p].window]
           item == req[p].item
           target == req[p].target
           r == [req[p] EXCEPT !.pc = "commit"]
           own == [i \in DOMAIN writes[p] \cup {item} |->
                     IF i = item THEN target ELSE writes[p][i]]
           g == Overlay(own, rows)
<1>1. /\ req[p].pc = "place" /\ req' = [req EXCEPT ![p] = r]
      /\ writes' = [writes EXCEPT ![p] = own]
      /\ UNCHANGED <<playlist, lock, nextItem>>
  BY DEF PlaceItem, Goto, SetRow
<1>2. /\ item \in DOMAIN rows /\ req[p].current = rows[item]
      /\ target \in 0..(Cardinality(DOMAIN rows) - 1)
      /\ DOMAIN writes[p] \subseteq DOMAIN rows
      /\ \A i \in DOMAIN writes[p] : writes[p][i] \in Nat
      /\ \A i \in DOMAIN rows : Overlay(writes[p], rows)[i] = Slide(rows[i], rows[item], target)
  <2>1. Stage(req[p], writes[p], rows)
    BY AtStatement
  <2> HIDE DEF rows, r, own, g
  <2>2. /\ item \in DOMAIN rows /\ req[p].current = rows[item]
        /\ target \in 0..(Cardinality(DOMAIN rows) - 1)
        /\ DOMAIN writes[p] \subseteq DOMAIN rows
        /\ \A i \in DOMAIN writes[p] : writes[p][i] \in Nat
        /\ \A i \in DOMAIN rows :
              Overlay(writes[p], rows)[i] = Slide(rows[i], req[p].current, target)
    BY <1>1, <2>1 DEF Stage
  <2> QED BY <2>2
<1>3. /\ \A i \in DOMAIN rows : rows[i] \in Nat
      /\ Cardinality(DOMAIN rows) \in Nat /\ target \in Nat
  <2> HIDE DEF r, own, g
  <2>1. (\A i \in DOMAIN rows : rows[i] \in Nat) /\ IsFiniteSet(DOMAIN rows)
    BY AtStatement DEF PartialMap
  <2>2. Cardinality(DOMAIN rows) \in Nat
    BY <2>1, FS_CardinalityType
  <2> QED BY <1>2, <2>1, <2>2
<1>4. \A i \in DOMAIN own : own[i] \in Nat /\ own[i] # Deleted /\ i \in DOMAIN rows
  BY <1>2, <1>3
<1>5. r \in Request /\ r.pc = "commit" /\ r.window = req[p].window
  BY AtStatement DEF Request, Statements
<1>6. PartialMap(g, Nat) /\ Contiguous(g) /\ Moved(rows, g)
  <2>1. DOMAIN g = DOMAIN rows
    BY <1>4 DEF Overlay
  <2>2. g[item] = target
    BY <1>2, <1>4 DEF Overlay
  <2>3. ASSUME NEW i \in DOMAIN rows \ {item}
        PROVE  g[i] = Slide(rows[i], rows[item], target)
    <3>1. g[i] = IF i \in DOMAIN writes[p] THEN writes[p][i] ELSE rows[i]
      BY <1>4 DEF Overlay
    <3>2. Overlay(writes[p], rows)[i] = IF i \in DOMAIN writes[p] THEN writes[p][i] ELSE rows[i]
      BY <1>2 DEF Overlay
    <3> QED BY <1>2, <3>1, <3>2
  <2>4. g \in [DOMAIN rows -> Nat]
    <3>1. g = [i \in DOMAIN g |-> g[i]]
      BY DEF Overlay
    <3> HIDE DEF g, own, r
    <3>2. \A i \in DOMAIN rows \ {item} : Slide(rows[i], rows[item], target) \in Nat
      BY <1>2, <1>3 DEF Slide
    <3>3. \A i \in DOMAIN rows : g[i] \in Nat
      BY <1>3, <2>2, <2>3, <3>2
    <3> QED BY <2>1, <3>1, <3>3
  <2> HIDE DEF g
  <2>5. PartialMap(g, Nat) /\ Contiguous(g)
    BY <1>2, <2>2, <2>3, <2>4, AtStatement, MoveKeepsContiguous
  <2>6. Moved(rows, g)
    BY <1>2, <2>1, <2>2, <2>3 DEF Moved
  <2> QED BY <2>5, <2>6
<1>7. PartialMap(own, Nat \cup {Deleted})
  <2>1. IsFiniteSet(DOMAIN writes[p] \cup {item}) /\ DOMAIN writes[p] \cup {item} \subseteq Nat
    BY AtStatement, FS_AddElement DEF PartialMap
  <2> QED BY <1>4, <2>1 DEF PartialMap
<1>8. Stage(r, own, rows)
  BY <1>5, <1>6 DEF Stage
<1>9. nextItem' \in Nat /\ nextItem <= nextItem' /\ \A i \in DOMAIN own : i < nextItem'
  <2>1. \A i \in DOMAIN own : i < nextItem
    BY <1>4, AtStatement
  <2> HIDE DEF own
  <2> QED BY <1>1, <2>1, AtStatement
<1> HIDE DEF own, r
<1> QED BY <1>1, <1>5, <1>7, <1>8, <1>9, StatementKeeps DEF Statements

\* A commit leaves the rows of every window another transaction has locked.
LEMMA CommitElsewhere ==
    ASSUME IInv, NEW p \in Requests, Commit(p),
           NEW w \in Windows, lock[w] # p
    PROVE  playlist'[w] = playlist[w]
<1>1. lock[req[p].window] = p
  BY DEF IInv, Locking, Commit, Statements
<1> QED BY <1>1 DEF Commit, IInv, TypeOK

LEMMA CommitKeeps ==
    ASSUME IInv, NEW p \in Requests, Commit(p)
    PROVE  IInv'
<1> DEFINE v == req[p].window
<1>1. req[p].pc = "commit" /\ playlist' = [playlist EXCEPT ![v] = Seen(p)]
      /\ Close(p) /\ nextItem' = nextItem
  BY DEF Commit
<1>2. PartialMap(Seen(p), Nat) /\ Contiguous(Seen(p))
  BY <1>1, AtStatement DEF Stage, Seen
<1>3. DOMAIN playlist' = Windows /\ playlist'[v] = Seen(p)
      /\ \A w \in Windows \ {v} : playlist'[w] = playlist[w]
  BY <1>1, AtStatement DEF IInv, TypeOK
<1>4. TypeOK'
  <2>1. \A w \in Windows : PartialMap(playlist'[w], Nat)
    BY <1>2, <1>3 DEF IInv, TypeOK
  <2>2. writes' = [q \in Requests |-> writes'[q]]
    BY <1>1 DEF Close, IInv, TypeOK
  <2> QED BY <1>1, <1>3, <2>1, <2>2, CloseKeeps DEF IInv, TypeOK
<1>5. Locking'
  BY <1>1, CloseKeeps
<1>6. Fresh'
  <2>1. ASSUME NEW i \in DOMAIN Seen(p) PROVE i < nextItem
    <3>1. i \in DOMAIN writes[p] \cup DOMAIN playlist[v]
      BY DEF Seen, Overlay
    <3> QED BY <3>1, AtStatement DEF IInv, Fresh
  <2>2. \A w \in Windows : \A i \in DOMAIN playlist'[w] : i < nextItem
    BY <1>3, <2>1 DEF IInv, Fresh
  <2> QED BY <1>1, <2>2, CloseKeeps DEF Fresh
<1>7. PositionsContiguous'
  BY <1>2, <1>3 DEF IInv, PositionsContiguous
<1>8. Staged'
  <2> SUFFICES ASSUME NEW q \in Requests
               PROVE  Stage(req'[q], writes'[q], playlist'[req'[q].window])
    BY DEF Staged
  <2>1. CASE q = p
    BY <1>1, <2>1, CloseKeeps
  <2>2. CASE q # p
    <3>1. req'[q] = req[q] /\ writes'[q] = writes[q]
      BY <1>1, <2>2, CloseKeeps
    <3>2. Stage(req[q], writes[q], playlist[req[q].window]) /\ req[q].window \in Windows
      BY AtStatement
    <3>3. CASE req[q].pc \in {"idle", "lock"}
      BY <3>1, <3>2, <3>3 DEF Stage
    <3>4. CASE req[q].pc \notin {"idle", "lock"}
      <4>1. lock[req[q].window] = q
        BY <3>4, AtStatement DEF IInv, Locking, Request
      <4>2. playlist'[req[q].window] = playlist[req[q].window]
        BY <2>2, <3>2, <4>1, CommitElsewhere
      <4> QED BY <3>1, <3>2, <4>2
    <3> QED BY <3>3, <3>4
  <2> QED BY <2>1, <2>2
<1> QED BY <1>4, <1>5, <1>6, <1>7, <1>8 DEF IInv

\* A transaction that ends without a commit changes no committed row.
LEMMA RollbackKeeps ==
    ASSUME IInv, NEW p \in Requests, Close(p), UNCHANGED <<playlist, nextItem>>
    PROVE  IInv'
<1>1. TypeOK'
  <2>1. writes' = [q \in Requests |-> writes'[q]]
    BY DEF Close, IInv, TypeOK
  <2> QED BY <2>1, CloseKeeps DEF IInv, TypeOK
<1>2. Fresh' /\ Locking'
  BY CloseKeeps DEF IInv, Fresh
<1>3. PositionsContiguous'
  BY DEF IInv, PositionsContiguous
<1>4. Staged'
  BY CloseKeeps, OthersStaged
<1> QED BY <1>1, <1>2, <1>3, <1>4 DEF IInv

THEOREM NextKeepsInvariant == IInv /\ [Next]_vars => IInv'
<1> SUFFICES ASSUME IInv, [Next]_vars PROVE IInv'
  OBVIOUS
<1>1. CASE UNCHANGED vars
  BY <1>1 DEF vars, IInv, TypeOK, Locking, Fresh, PositionsContiguous, Staged
<1>2. CASE Next
  <2> PICK p \in Requests :
        \/ \E w \in Windows : AcceptAppend(p, w)
        \/ \E w \in Windows, i \in 1..MaxItems : AcceptRemove(p, w, i)
        \/ \E w \in Windows, i \in 1..MaxItems, t \in Targets : AcceptMove(p, w, i, t)
        \/ LockWindow(p)
        \/ Statement(p)
        \/ Rollback(p)
    BY <1>2 DEF Next
  <2>1. ASSUME NEW w \in Windows, AcceptAppend(p, w) PROVE IInv'
    BY <2>1, AcceptKeeps DEF AcceptAppend
  <2>2. ASSUME NEW w \in Windows, NEW i \in 1..MaxItems, AcceptRemove(p, w, i) PROVE IInv'
    BY <2>2, AcceptKeeps DEF AcceptRemove
  <2>3. ASSUME NEW w \in Windows, NEW i \in 1..MaxItems, NEW t \in Targets,
               AcceptMove(p, w, i, t)
        PROVE  IInv'
    BY <2>3, AcceptKeeps DEF AcceptMove
  <2>4. CASE LockWindow(p)
    BY <2>4, LockWindowKeeps
  <2>5. CASE Statement(p)
    <3>1. CASE InsertItem(p)
      BY <3>1, InsertItemKeeps
    <3>2. CASE DeleteItem(p)
      BY <3>2, DeleteItemKeeps
    <3>3. CASE CompactPositions(p)
      BY <3>3, CompactPositionsKeeps
    <3>4. CASE LocateItem(p)
      BY <3>4, LocateItemKeeps
    <3>5. CASE ShiftPositions(p)
      BY <3>5, ShiftPositionsKeeps
    <3>6. CASE PlaceItem(p)
      BY <3>6, PlaceItemKeeps
    <3>7. CASE Commit(p)
      BY <3>7, CommitKeeps
    <3>8. CASE ItemNotFound(p)
      BY <3>8, RollbackKeeps DEF ItemNotFound
    <3> QED BY <2>5, <3>1, <3>2, <3>3, <3>4, <3>5, <3>6, <3>7, <3>8 DEF Statement
  <2>6. CASE Rollback(p)
    BY <2>6, RollbackKeeps DEF Rollback
  <2> QED BY <2>1, <2>2, <2>3, <2>4, <2>5, <2>6
<1> QED BY <1>1, <1>2

THEOREM Invariance == Spec => []IInv
BY InitInvariant, NextKeepsInvariant, PTL DEF Spec

-----------------------------------------------------------------------------
(* What the transactions promise.                                          *)

\* Every reachable state is well typed.
THEOREM TypeCorrectness == Spec => []TypeOK
<1>1. IInv => TypeOK
  BY DEF IInv
<1> QED BY <1>1, Invariance, PTL

\* The positions of every window stay 0..n-1, one row each, whatever edits run
\* concurrently and wherever one of them fails (Append, Remove and Move of
\* PlaylistRepository).
THEOREM ContiguousAlways == Spec => []PositionsContiguous
<1>1. IInv => PositionsContiguous
  BY DEF IInv
<1> QED BY <1>1, Invariance, PTL

\* No edit that reaches COMMIT is turned down by the deferred unique
\* constraint or by the check on position.
THEOREM CommitsSucceed == Spec => []CommitNeverRefused
<1>1. IInv => CommitNeverRefused
  <2> SUFFICES ASSUME IInv, NEW p \in Requests, req[p].pc = "commit"
               PROVE  Injective(Seen(p)) /\ \A i \in DOMAIN Seen(p) : Seen(p)[i] >= 0
    BY DEF CommitNeverRefused
  <2>1. PartialMap(Seen(p), Nat) /\ Contiguous(Seen(p))
    BY AtStatement DEF Stage, Seen
  <2> QED BY <2>1 DEF PartialMap, Contiguous
<1> QED BY <1>1, Invariance, PTL

\* What a transaction has read of the window it has locked stays true until it
\* ends: the row lock of lockWindow serialises the edits of a window.
THEOREM LockProtectsWindow == Spec => LockedWindowStable
<1> DEFINE Stable == \A w \in Windows :
                       lock[w] # NoRequest /\ lock'[w] = lock[w] => playlist'[w] = playlist[w]
<1>1. IInv /\ [Next]_vars => [Stable]_vars
  <2> SUFFICES ASSUME IInv, Next PROVE Stable
    OBVIOUS
  <2>1. PICK p \in Requests :
          \/ \E w \in Windows : AcceptAppend(p, w)
          \/ \E w \in Windows, i \in 1..MaxItems : AcceptRemove(p, w, i)
          \/ \E w \in Windows, i \in 1..MaxItems, t \in Targets : AcceptMove(p, w, i, t)
          \/ LockWindow(p)
          \/ Statement(p)
          \/ Rollback(p)
    BY DEF Next
  <2>2. CASE Commit(p)
    <3>1. ASSUME NEW w \in Windows, lock[w] # NoRequest, lock'[w] = lock[w]
          PROVE  lock[w] # p
      BY <2>2, <3>1 DEF Commit, Close
    <3> QED BY <2>2, <3>1, CommitElsewhere
  <2>3. CASE ~Commit(p)
    <3>1. UNCHANGED playlist
      BY <2>1, <2>3 DEF AcceptAppend, AcceptRemove, AcceptMove, Accept, LockWindow,
           Statement, InsertItem, DeleteItem, CompactPositions, LocateItem, ShiftPositions,
           PlaceItem, ItemNotFound, Rollback
    <3> QED BY <3>1
  <2> QED BY <2>2, <2>3
<1>2. Spec => [][Stable]_vars
  BY <1>1, Invariance, PTL DEF Spec
<1> QED BY <1>2 DEF LockedWindowStable

-----------------------------------------------------------------------------
(* The list of items a window shows, and the list operations on it.        *)

\* The identity sequence never passes its bound, for the ids it has given out
\* and the ones the appends under way will still take.
Numbered ==
    /\ nextItem # 0
    /\ nextItem + Cardinality({q \in Requests : Appending(q)}) <= MaxItems + 1

\* The row that a transaction inserts is in no playlist, and it is the only
\* transaction that writes it.
Apart ==
    \A p \in Requests : \A i \in DOMAIN writes[p] \ DOMAIN playlist[req[p].window] :
        /\ i \in 1..MaxItems
        /\ \A w \in Windows : i \notin DOMAIN playlist[w]
        /\ \A q \in Requests \ {p} : i \notin DOMAIN writes[q]

NInv == Numbered /\ Apart

\* RemoveAt and InsertAt, place by place.
LEMMA RemoveAtIs ==
    ASSUME NEW s \in Seq(Nat), NEW p \in DOMAIN s
    PROVE  /\ List!RemoveAt(s, p) \in Seq(Nat) /\ Len(List!RemoveAt(s, p)) = Len(s) - 1
           /\ \A k \in 1..(Len(s) - 1) : List!RemoveAt(s, p)[k] = s[IF k < p THEN k ELSE k + 1]
<1> DEFINE a == SubSeq(s, 1, p - 1)
           b == SubSeq(s, p + 1, Len(s))
           t == a \o b
<1>1. p \in 1..Len(s) /\ Len(s) \in Nat /\ DOMAIN s = 1..Len(s)
  OBVIOUS
<1>2. a \in Seq(Nat) /\ Len(a) = p - 1 /\ \A k \in 1..(p - 1) : a[k] = s[k]
  BY <1>1, SubSeqProperties
<1>3. b \in Seq(Nat) /\ Len(b) = Len(s) - p /\ \A k \in 1..(Len(s) - p) : b[k] = s[p + k]
  <2>1. \A k \in (p + 1)..Len(s) : s[k] \in Nat
    BY <1>1
  <2>2. /\ b \in Seq(Nat) /\ Len(b) = IF p + 1 <= Len(s) THEN Len(s) - (p + 1) + 1 ELSE 0
        /\ \A k \in 1..(Len(s) - (p + 1) + 1) : b[k] = s[p + 1 + k - 1]
    BY <1>1, <2>1, SubSeqProperties, SMTT(30)
  <2> HIDE DEF b
  <2>3. \A k \in 1..(Len(s) - p) : k \in 1..(Len(s) - (p + 1) + 1) /\ p + 1 + k - 1 = p + k
    BY <1>1
  <2>4. Len(b) = Len(s) - p
    BY <1>1, <2>2
  <2> QED BY <2>2, <2>3, <2>4
<1> HIDE DEF a, b
<1>4. /\ t \in Seq(Nat) /\ Len(t) = Len(a) + Len(b)
      /\ \A k \in 1..Len(a) : t[k] = a[k]
      /\ \A k \in 1..Len(b) : t[Len(a) + k] = b[k]
  <2>1. a \in Seq(Nat) /\ b \in Seq(Nat)
    BY <1>2, <1>3
  <2> QED BY <2>1
<1> HIDE DEF t
<1>5. Len(t) = Len(s) - 1
  BY <1>1, <1>2, <1>3, <1>4
<1>6. ASSUME NEW k \in 1..(Len(s) - 1) PROVE t[k] = s[IF k < p THEN k ELSE k + 1]
  <2>1. CASE k < p
    <3>1. k \in 1..(p - 1) /\ k \in 1..Len(a)
      BY <1>1, <1>2, <2>1
    <3>2. t[k] = s[k]
      BY <1>2, <1>4, <3>1
    <3> QED BY <2>1, <3>2
  <2>2. CASE ~(k < p)
    <3> DEFINE j == k - (p - 1)
    <3>1. j \in 1..(Len(s) - p) /\ k = (p - 1) + j /\ p + j = k + 1
      BY <1>1, <2>2
    <3> HIDE DEF j
    <3>2. b[j] = s[p + j] /\ j \in 1..Len(b)
      BY <1>3, <3>1
    <3>3. t[(p - 1) + j] = b[j]
      BY <1>2, <1>4, <3>2
    <3>4. t[k] = s[k + 1]
      BY <3>1, <3>2, <3>3
    <3> QED BY <2>2, <3>4
  <2> QED BY <2>1, <2>2
<1>7. List!RemoveAt(s, p) = t
  BY DEF List!RemoveAt, t, a, b
<1> QED BY <1>4, <1>5, <1>6, <1>7

LEMMA InsertAtIs ==
    ASSUME NEW s \in Seq(Nat), NEW x \in Nat, NEW l \in 1..(Len(s) + 1)
    PROVE  /\ List!InsertAt(s, l, x) \in Seq(Nat) /\ Len(List!InsertAt(s, l, x)) = Len(s) + 1
           /\ \A k \in 1..(Len(s) + 1) :
                 List!InsertAt(s, l, x)[k] =
                    IF k = l THEN x ELSE s[IF k < l THEN k ELSE k - 1]
<1> DEFINE a == SubSeq(s, 1, l - 1)
           y == <<x>>
           b == a \o y
           c == SubSeq(s, l, Len(s))
           t == b \o c
<1>1. l \in Nat /\ l # 0 /\ l <= Len(s) + 1 /\ Len(s) \in Nat /\ DOMAIN s = 1..Len(s)
  OBVIOUS
<1>2. a \in Seq(Nat) /\ Len(a) = l - 1 /\ \A k \in 1..(l - 1) : a[k] = s[k]
  BY <1>1, SubSeqProperties
<1>3. c \in Seq(Nat) /\ Len(c) = Len(s) - l + 1 /\ \A k \in 1..(Len(s) - l + 1) : c[k] = s[l + k - 1]
  BY <1>1, SubSeqProperties
<1>4. y \in Seq(Nat) /\ Len(y) = 1 /\ y[1] = x
  OBVIOUS
<1> HIDE DEF a, c, y
<1>5. /\ b \in Seq(Nat) /\ Len(b) = Len(a) + Len(y)
      /\ \A k \in 1..Len(a) : b[k] = a[k]
      /\ \A k \in 1..Len(y) : b[Len(a) + k] = y[k]
  <2>1. a \in Seq(Nat) /\ y \in Seq(Nat)
    BY <1>2, <1>4
  <2> QED BY <2>1
<1> HIDE DEF b
<1>6. Len(b) = l /\ b[l] = x /\ \A k \in 1..(l - 1) : b[k] = s[k]
  <2>1. b[Len(a) + 1] = y[1]
    BY <1>4, <1>5
  <2>2. Len(a) + 1 = l
    BY <1>1, <1>2
  <2> QED BY <1>1, <1>2, <1>4, <1>5, <2>1, <2>2
<1>7. /\ t \in Seq(Nat) /\ Len(t) = Len(b) + Len(c)
      /\ \A k \in 1..Len(b) : t[k] = b[k]
      /\ \A k \in 1..Len(c) : t[Len(b) + k] = c[k]
  <2>1. b \in Seq(Nat) /\ c \in Seq(Nat)
    BY <1>3, <1>5
  <2> QED BY <2>1
<1> HIDE DEF t
<1>8. Len(t) = Len(s) + 1
  BY <1>1, <1>3, <1>6, <1>7
<1>9. ASSUME NEW k \in 1..(Len(s) + 1)
      PROVE  t[k] = IF k = l THEN x ELSE s[IF k < l THEN k ELSE k - 1]
  <2>1. CASE k < l
    BY <1>1, <1>6, <1>7, <2>1
  <2>2. CASE k = l
    BY <1>1, <1>6, <1>7, <2>2
  <2>3. CASE k > l
    <3> DEFINE j == k - l
    <3>1. j \in 1..(Len(s) - l + 1) /\ k = l + j /\ l + j - 1 = k - 1
      BY <1>1, <2>3
    <3> HIDE DEF j
    <3>2. t[l + j] = c[j] /\ c[j] = s[l + j - 1]
      BY <1>3, <1>6, <1>7, <3>1
    <3>3. k # l /\ ~(k < l)
      BY <1>1, <2>3
    <3> QED BY <3>1, <3>2, <3>3
  <2> QED BY <1>1, <2>1, <2>2, <2>3
<1>10. List!InsertAt(s, l, x) = t
  BY DEF List!InsertAt, t, b, a, c, y
<1> QED BY <1>7, <1>8, <1>9, <1>10

\* Order lists the items by their positions, and it is the only list that does.
LEMMA OrderIs ==
    ASSUME NEW f, PartialMap(f, Nat), Contiguous(f)
    PROVE  /\ Order(f) \in Seq(Nat) /\ Len(Order(f)) = Cardinality(DOMAIN f)
           /\ \A k \in 1..Cardinality(DOMAIN f) : Order(f)[k] \in DOMAIN f /\ f[Order(f)[k]] = k - 1
           /\ \A i \in DOMAIN f : f[i] + 1 \in 1..Cardinality(DOMAIN f) /\ Order(f)[f[i] + 1] = i
<1> DEFINE n == Cardinality(DOMAIN f)
           s == Order(f)
<1>1. n \in Nat /\ DOMAIN f \subseteq Nat
  BY ContiguousMeans DEF PartialMap
<1>2. ASSUME NEW k \in 1..n PROVE s[k] \in DOMAIN f /\ f[s[k]] = k - 1
  <2>1. k - 1 \in Nat /\ k - 1 <= n - 1
    BY <1>1
  <2>2. \E i \in DOMAIN f : f[i] = k - 1
    BY <2>1, ContiguousMeans
  <2> QED BY <2>2 DEF Order
<1>3. s \in [1..n -> Nat]
  BY <1>1, <1>2 DEF Order
<1> HIDE DEF s
<1>4. s \in Seq(Nat) /\ Len(s) = n
  BY <1>1, <1>3
<1>5. ASSUME NEW i \in DOMAIN f PROVE f[i] + 1 \in 1..n /\ s[f[i] + 1] = i
  <2>1. f[i] \in Nat /\ f[i] <= n - 1
    BY ContiguousMeans
  <2>2. f[i] + 1 \in 1..n /\ f[i] + 1 - 1 = f[i]
    BY <1>1, <2>1
  <2>3. s[f[i] + 1] \in DOMAIN f /\ f[s[f[i] + 1]] = f[i]
    <3> DEFINE k == f[i] + 1
    <3>1. k \in 1..n /\ k - 1 = f[i]
      BY <2>1, <2>2
    <3> HIDE DEF k
    <3>2. s[k] \in DOMAIN f /\ f[s[k]] = f[i]
      BY <1>2, <3>1
    <3> QED BY <3>2 DEF k
  <2> QED BY <2>2, <2>3, ContiguousMeans
<1> QED BY <1>2, <1>4, <1>5 DEF s

LEMMA OrderIfListed ==
    ASSUME NEW f, PartialMap(f, Nat), Contiguous(f),
           NEW s \in Seq(Nat), Len(s) = Cardinality(DOMAIN f),
           \A k \in 1..Len(s) : s[k] \in DOMAIN f /\ f[s[k]] = k - 1
    PROVE  Order(f) = s
<1> DEFINE n == Cardinality(DOMAIN f)
           o == Order(f)
<1>1. o \in Seq(Nat) /\ Len(o) = n /\ \A k \in 1..n : o[k] \in DOMAIN f /\ f[o[k]] = k - 1
  BY OrderIs
<1>2. n \in Nat
  BY ContiguousMeans
<1> HIDE DEF o
<1>3. \A k \in 1..n : o[k] = s[k]
  BY <1>1, ContiguousMeans
<1>4. o = s
  BY <1>1, <1>2, <1>3
<1> QED BY <1>4 DEF o

-----------------------------------------------------------------------------
(* The ids of the rows.                                                    *)

LEMMA ClosedWrites ==
    ASSUME IInv, NEW p \in Requests, Close(p)
    PROVE  /\ req'[p] = NewRequest /\ DOMAIN writes'[p] = {}
           /\ \A q \in Requests \ {p} : req'[q] = req[q] /\ writes'[q] = writes[q]
BY DEF Close, IInv, TypeOK, NoWrites

\* A step of p that commits nothing keeps Apart, when the rows p has added to
\* its writes are rows of its window, or the one the sequence has just named.
LEMMA ApartKept ==
    ASSUME IInv, Apart, NEW p \in Requests, UNCHANGED playlist,
           \A q \in Requests \ {p} : req'[q] = req[q] /\ writes'[q] = writes[q],
           \A i \in DOMAIN writes'[p] :
              \/ i \in DOMAIN writes[p] /\ req'[p].window = req[p].window
              \/ i \in DOMAIN playlist[req[p].window] /\ req'[p].window = req[p].window
              \/ i = nextItem /\ nextItem \in 1..MaxItems
    PROVE  Apart'
<1>1. /\ \A w \in Windows : nextItem \notin DOMAIN playlist[w]
      /\ \A q \in Requests : nextItem \notin DOMAIN writes[q]
      /\ \A q \in Requests : req[q].window \in Windows
  BY AtStatement DEF IInv, Fresh
<1>2. ASSUME NEW q \in Requests, NEW i \in DOMAIN writes'[q] \ DOMAIN playlist'[req'[q].window]
      PROVE  i \in 1..MaxItems /\ \A w \in Windows : i \notin DOMAIN playlist'[w]
  <2>1. CASE q # p
    BY <1>2, <2>1 DEF Apart
  <2>2. CASE q = p
    BY <1>1, <1>2, <2>2 DEF Apart
  <2> QED BY <2>1, <2>2
<1>3. ASSUME NEW q \in Requests, NEW i \in DOMAIN writes'[q] \ DOMAIN playlist'[req'[q].window],
             NEW r \in Requests \ {q}
      PROVE  i \notin DOMAIN writes'[r]
  <2>1. CASE q # p /\ r # p
    BY <1>3, <2>1 DEF Apart
  <2>2. CASE q = p
    BY <1>1, <1>3, <2>2 DEF Apart
  <2>3. CASE r = p
    <3>1. writes'[q] = writes[q] /\ i \in DOMAIN writes[q] \ DOMAIN playlist[req[q].window]
      BY <1>3, <2>3
    <3>2. i \notin DOMAIN writes[p] /\ i \notin DOMAIN playlist[req[p].window] /\ i # nextItem
      BY <1>1, <2>3, <3>1 DEF Apart
    <3> QED BY <2>3, <3>2
  <2> QED BY <2>1, <2>2, <2>3
<1> QED BY <1>2, <1>3 DEF Apart

\* The appends under way, after a step that leaves the other requests alone.
LEMMA AppendsCounted ==
    ASSUME NEW p \in Requests, \A q \in Requests \ {p} : req'[q] = req[q]
    PROVE  LET A == {q \in Requests : Appending(q)}
               B == {q \in Requests : Appending(q)'}
           IN  /\ Cardinality(A) \in Nat /\ Cardinality(B) \in Nat
               /\ Appending(p)' => Cardinality(B) <= Cardinality(A) + 1
               /\ Appending(p) \/ ~ Appending(p)' => Cardinality(B) <= Cardinality(A)
               /\ Appending(p) => Cardinality(A) >= 1
               /\ Appending(p) /\ ~ Appending(p)' => Cardinality(B) <= Cardinality(A) - 1
<1> DEFINE A == {q \in Requests : Appending(q)}
           B == {q \in Requests : Appending(q)'}
<1>1. IsFiniteSet(A) /\ IsFiniteSet(B)
  BY RequestsAssumption, FS_Subset
<1>2. \A q \in Requests \ {p} : Appending(q)' <=> Appending(q)
  BY DEF Appending
<1>3. B \subseteq A \cup {p}
  BY <1>2
<1>4. Appending(p) => p \in A
  OBVIOUS
<1>5. ~ Appending(p)' => B \subseteq A \ {p}
  BY <1>2
<1>6. Appending(p) \/ ~ Appending(p)' => B \subseteq A
  BY <1>2
<1> HIDE DEF A, B
<1>7. Cardinality(A) \in Nat /\ Cardinality(B) \in Nat
  BY <1>1, FS_CardinalityType
<1>8. IsFiniteSet(A \cup {p}) /\ Cardinality(A \cup {p}) <= Cardinality(A) + 1
  BY <1>1, <1>7, FS_AddElement
<1>9. Cardinality(B) <= Cardinality(A \cup {p}) /\ Cardinality(A \cup {p}) \in Nat
  BY <1>3, <1>8, FS_Subset, FS_CardinalityType
<1>10. p \in A => IsFiniteSet(A \ {p}) /\ Cardinality(A \ {p}) = Cardinality(A) - 1 /\ Cardinality(A \ {p}) \in Nat
  BY <1>1, FS_RemoveElement, FS_CardinalityType
<1>11. Appending(p) \/ ~ Appending(p)' => Cardinality(B) <= Cardinality(A)
  BY <1>1, <1>6, FS_Subset
<1>12. Appending(p) => Cardinality(A) >= 1
  BY <1>4, <1>7, <1>10
<1>13. Appending(p) /\ ~ Appending(p)' => Cardinality(B) <= Cardinality(A) - 1
  BY <1>4, <1>5, <1>10, FS_Subset
<1> QED BY <1>7, <1>8, <1>9, <1>11, <1>12, <1>13 DEF A, B

\* A step that takes no id and begins no append.
LEMMA NumberedKept ==
    ASSUME IInv, Numbered, NEW p \in Requests, \A q \in Requests \ {p} : req'[q] = req[q],
           UNCHANGED nextItem, Appending(p) \/ ~ Appending(p)'
    PROVE  Numbered'
<1> DEFINE A == {q \in Requests : Appending(q)}
           B == {q \in Requests : Appending(q)'}
<1>1. Cardinality(A) \in Nat /\ Cardinality(B) \in Nat /\ Cardinality(B) <= Cardinality(A)
  BY AppendsCounted
<1>2. nextItem # 0 /\ nextItem + Cardinality(A) <= MaxItems + 1
  BY DEF Numbered
<1>3. nextItem \in Nat
  BY DEF IInv, TypeOK
<1> HIDE DEF A, B
<1>4. nextItem' # 0 /\ nextItem' + Cardinality(B) <= MaxItems + 1
  BY <1>1, <1>2, <1>3
<1> QED BY <1>4 DEF Numbered, B

LEMMA AcceptNumbers ==
    ASSUME IInv, NInv, NEW p \in Requests,
           \/ \E w \in Windows : AcceptAppend(p, w)
           \/ \E w \in Windows, i \in 1..MaxItems : AcceptRemove(p, w, i)
           \/ \E w \in Windows, i \in 1..MaxItems, t \in Targets : AcceptMove(p, w, i, t)
    PROVE  NInv'
<1> DEFINE A == {q \in Requests : Appending(q)}
           B == {q \in Requests : Appending(q)'}
<1>1. /\ req[p].pc = "idle" /\ UNCHANGED <<playlist, lock, writes, nextItem>>
      /\ req'[p].pc = "lock"
      /\ req'[p].op = "append" => nextItem + Cardinality(A) <= MaxItems
      /\ \A q \in Requests \ {p} : req'[q] = req[q]
  BY DEF AcceptAppend, AcceptRemove, AcceptMove, Accept, IInv, TypeOK
<1>2. DOMAIN writes[p] = {}
  BY <1>1 DEF IInv, Staged, Stage, NoWrites
<1>3. Apart'
  BY <1>1, <1>2, ApartKept DEF NInv
<1>4. Numbered'
  <2>1. CASE req'[p].op = "append"
    <3>1. Appending(p)'
      BY <1>1, <2>1 DEF Appending
    <3>2. Cardinality(A) \in Nat /\ Cardinality(B) \in Nat /\ Cardinality(B) <= Cardinality(A) + 1
      BY <1>1, <3>1, AppendsCounted
    <3>3. nextItem # 0 /\ nextItem \in Nat /\ nextItem + Cardinality(A) <= MaxItems
      BY <1>1, <2>1 DEF NInv, Numbered, IInv, TypeOK
    <3> HIDE DEF A, B
    <3>4. nextItem' # 0 /\ nextItem' + Cardinality(B) <= MaxItems + 1
      BY <1>1, <3>2, <3>3
    <3> QED BY <3>4 DEF Numbered, B
  <2>2. CASE req'[p].op # "append"
    <3>1. ~ Appending(p)'
      BY <2>2 DEF Appending
    <3> QED BY <1>1, <3>1, NumberedKept DEF NInv
  <2> QED BY <2>1, <2>2
<1> QED BY <1>3, <1>4 DEF NInv

LEMMA InsertItemNumbers ==
    ASSUME IInv, NInv, NEW p \in Requests, InsertItem(p) PROVE NInv'
<1> DEFINE A == {q \in Requests : Appending(q)}
           B == {q \in Requests : Appending(q)'}
<1>1. /\ req[p].pc = "edit" /\ req[p].op = "append" /\ req'[p].pc = "commit"
      /\ req'[p].window = req[p].window
      /\ nextItem' = nextItem + 1 /\ UNCHANGED <<playlist, lock>>
      /\ DOMAIN writes'[p] = DOMAIN writes[p] \cup {nextItem}
      /\ \A q \in Requests \ {p} : req'[q] = req[q] /\ writes'[q] = writes[q]
  BY DEF InsertItem, Goto, SetRow, IInv, TypeOK, Request
<1>2. Appending(p) /\ ~ Appending(p)'
  BY <1>1 DEF Appending
<1>3. /\ Cardinality(A) \in Nat /\ Cardinality(B) \in Nat
      /\ Cardinality(A) >= 1 /\ Cardinality(B) <= Cardinality(A) - 1
  BY <1>1, <1>2, AppendsCounted
<1>4. nextItem \in Nat /\ nextItem # 0 /\ nextItem + Cardinality(A) <= MaxItems + 1
  BY DEF NInv, Numbered, IInv, TypeOK
<1> HIDE DEF A, B
<1>5. nextItem \in 1..MaxItems
  BY <1>3, <1>4
<1>6. Apart'
  BY <1>1, <1>5, ApartKept DEF NInv
<1>7. nextItem' # 0 /\ nextItem' + Cardinality(B) <= MaxItems + 1
  BY <1>1, <1>3, <1>4
<1>8. Numbered'
  BY <1>7 DEF Numbered, B
<1> QED BY <1>6, <1>8 DEF NInv

\* The other statements write rows their window has.
LEMMA EditNumbers ==
    ASSUME IInv, NInv, NEW p \in Requests,
           \/ LockWindow(p) \/ DeleteItem(p) \/ CompactPositions(p) \/ LocateItem(p)
           \/ ShiftPositions(p) \/ PlaceItem(p)
    PROVE  NInv'
<1> DEFINE rows == playlist[req[p].window]
<1>1. /\ UNCHANGED <<playlist, nextItem>>
      /\ \A q \in Requests \ {p} : req'[q] = req[q] /\ writes'[q] = writes[q]
      /\ req'[p].window = req[p].window
      /\ req'[p].op = req[p].op
      /\ req[p].pc \in {"lock", "edit", "compact", "shift", "place"}
      /\ req[p].pc = "lock" \/ req'[p].pc \notin {"edit", "lock"}
  <2>1. req \in [Requests -> Request] /\ DOMAIN writes = Requests
    BY DEF IInv, TypeOK
  <2>2. CASE LockWindow(p)
    BY <2>1, <2>2 DEF LockWindow, Goto, Request
  <2>3. CASE DeleteItem(p)
    BY <2>1, <2>3 DEF DeleteItem, SetRow, Request
  <2>4. CASE CompactPositions(p)
    BY <2>1, <2>4 DEF CompactPositions, Goto, ShiftRows, Request
  <2>5. CASE LocateItem(p)
    BY <2>1, <2>5 DEF LocateItem, Request
  <2>6. CASE ShiftPositions(p)
    BY <2>1, <2>6 DEF ShiftPositions, Goto, ShiftRows, Request
  <2>7. CASE PlaceItem(p)
    BY <2>1, <2>7 DEF PlaceItem, Goto, SetRow, Request
  <2> QED BY <2>2, <2>3, <2>4, <2>5, <2>6, <2>7
<1>2. Appending(p) \/ ~ Appending(p)'
  BY <1>1 DEF Appending
<1>3. Numbered'
  BY <1>1, <1>2, NumberedKept DEF NInv
<1>4. DOMAIN Seen(p) \subseteq DOMAIN rows \cup DOMAIN writes[p]
  BY DEF Seen, Overlay
<1>5. Stage(req[p], writes[p], rows)
  BY AtStatement
<1>6. /\ req[p].pc = "edit" => writes[p] = NoWrites /\ DOMAIN writes[p] = {}
      /\ req[p].pc = "place" => req[p].item \in DOMAIN rows
  BY <1>5 DEF Stage, NoWrites
<1>7. ASSUME NEW i \in DOMAIN writes'[p] PROVE i \in DOMAIN writes[p] \/ i \in DOMAIN rows
  <2>1. CASE LockWindow(p) \/ LocateItem(p)
    BY <1>7, <2>1 DEF LockWindow, LocateItem
  <2>2. CASE DeleteItem(p)
    <3>1. DOMAIN writes'[p] = DOMAIN writes[p] \cup {req[p].item} /\ req[p].item \in DOMAIN Seen(p)
      BY <2>2 DEF DeleteItem, SetRow, IInv, TypeOK
    <3> QED BY <1>4, <1>7, <3>1
  <2>3. CASE CompactPositions(p)
    <3>1. DOMAIN writes'[p] \subseteq DOMAIN writes[p] \cup DOMAIN Seen(p)
      BY <2>3 DEF CompactPositions, ShiftRows, IInv, TypeOK
    <3> QED BY <1>4, <1>7, <3>1
  <2>4. CASE ShiftPositions(p)
    <3>1. DOMAIN writes'[p] \subseteq DOMAIN writes[p] \cup DOMAIN Seen(p)
      BY <2>4 DEF ShiftPositions, ShiftRows, IInv, TypeOK
    <3> QED BY <1>4, <1>7, <3>1
  <2>5. CASE PlaceItem(p)
    <3>1. DOMAIN writes'[p] = DOMAIN writes[p] \cup {req[p].item} /\ req[p].pc = "place"
      BY <2>5 DEF PlaceItem, SetRow, IInv, TypeOK
    <3> QED BY <1>6, <1>7, <3>1
  <2> QED BY <2>1, <2>2, <2>3, <2>4, <2>5
<1>8. Apart'
  BY <1>1, <1>7, ApartKept DEF NInv
<1> QED BY <1>3, <1>8 DEF NInv

LEMMA CloseNumbers ==
    ASSUME IInv, NInv, NEW p \in Requests, Close(p), UNCHANGED nextItem, req[p].pc # "idle"
    PROVE  Numbered' /\ (UNCHANGED playlist => Apart')
<1>1. /\ req'[p] = NewRequest /\ DOMAIN writes'[p] = {}
      /\ \A q \in Requests \ {p} : req'[q] = req[q] /\ writes'[q] = writes[q]
  BY ClosedWrites
<1>2. ~ Appending(p)'
  BY <1>1 DEF Appending, NewRequest
<1>3. Numbered'
  BY <1>1, <1>2, NumberedKept DEF NInv
<1> QED BY <1>1, <1>3, ApartKept DEF NInv

\* A commit publishes the row of an append; no other transaction writes it.
LEMMA CommitNumbers ==
    ASSUME IInv, NInv, NEW p \in Requests, Commit(p) PROVE NInv'
<1> DEFINE v == req[p].window
<1>1. /\ req[p].pc = "commit" /\ playlist' = [playlist EXCEPT ![v] = Seen(p)]
      /\ Close(p) /\ nextItem' = nextItem
  BY DEF Commit
<1>2. /\ req'[p] = NewRequest /\ DOMAIN writes'[p] = {}
      /\ \A q \in Requests \ {p} : req'[q] = req[q] /\ writes'[q] = writes[q]
  BY <1>1, ClosedWrites
<1>3. /\ v \in Windows /\ playlist'[v] = Seen(p)
      /\ \A w \in Windows \ {v} : playlist'[w] = playlist[w]
      /\ DOMAIN Seen(p) \subseteq DOMAIN playlist[v] \cup DOMAIN writes[p]
  BY <1>1, AtStatement DEF IInv, TypeOK, Seen, Overlay
<1>4. ASSUME NEW q \in Requests, NEW i \in DOMAIN writes'[q] \ DOMAIN playlist'[req'[q].window]
      PROVE  /\ i \in 1..MaxItems /\ \A w \in Windows : i \notin DOMAIN playlist'[w]
             /\ \A r \in Requests \ {q} : i \notin DOMAIN writes'[r]
  <2>1. q # p /\ i \in DOMAIN writes[q] /\ req'[q] = req[q]
    BY <1>2, <1>4
  <2>2. req[q].pc \in Statements
    <3>1. writes[q] # NoWrites /\ Stage(req[q], writes[q], playlist[req[q].window])
      BY <2>1, AtStatement DEF NoWrites
    <3>2. req[q].pc \notin {"idle", "lock"}
      BY <3>1 DEF Stage
    <3> QED BY <3>2, AtStatement DEF Request
  <2>3. req[q].window # v /\ req[q].window \in Windows
    BY <1>1, <2>1, <2>2, AtStatement DEF IInv, Locking, Statements
  <2>4. i \notin DOMAIN playlist[req[q].window]
    BY <1>3, <1>4, <2>1, <2>3
  <2>5. /\ i \in 1..MaxItems /\ \A w \in Windows : i \notin DOMAIN playlist[w]
        /\ \A r \in Requests \ {q} : i \notin DOMAIN writes[r]
    BY <2>1, <2>4 DEF NInv, Apart
  <2>6. i \notin DOMAIN Seen(p)
    BY <1>3, <2>1, <2>5
  <2> QED BY <1>2, <1>3, <2>5, <2>6
<1>5. Apart'
  BY <1>4 DEF Apart
<1>6. Numbered'
  BY <1>1, CloseNumbers
<1> QED BY <1>5, <1>6 DEF NInv

LEMMA NextNumbers == IInv /\ NInv /\ [Next]_vars => NInv'
<1> SUFFICES ASSUME IInv, NInv, [Next]_vars PROVE NInv'
  OBVIOUS
<1>1. CASE UNCHANGED vars
  BY <1>1 DEF vars, NInv, Numbered, Apart, Appending
<1>2. CASE Next
  <2> PICK p \in Requests :
        \/ \E w \in Windows : AcceptAppend(p, w)
        \/ \E w \in Windows, i \in 1..MaxItems : AcceptRemove(p, w, i)
        \/ \E w \in Windows, i \in 1..MaxItems, t \in Targets : AcceptMove(p, w, i, t)
        \/ LockWindow(p)
        \/ Statement(p)
        \/ Rollback(p)
    BY <1>2 DEF Next
  <2>1. CASE \/ \E w \in Windows : AcceptAppend(p, w)
             \/ \E w \in Windows, i \in 1..MaxItems : AcceptRemove(p, w, i)
             \/ \E w \in Windows, i \in 1..MaxItems, t \in Targets : AcceptMove(p, w, i, t)
    BY <2>1, AcceptNumbers
  <2>2. CASE InsertItem(p)
    BY <2>2, InsertItemNumbers
  <2>3. CASE \/ LockWindow(p) \/ DeleteItem(p) \/ CompactPositions(p) \/ LocateItem(p)
             \/ ShiftPositions(p) \/ PlaceItem(p)
    BY <2>3, EditNumbers
  <2>4. CASE Commit(p)
    BY <2>4, CommitNumbers
  <2>5. CASE ItemNotFound(p) \/ Rollback(p)
    <3>1. Close(p) /\ UNCHANGED <<playlist, nextItem>> /\ req[p].pc # "idle"
      BY <2>5 DEF ItemNotFound, Rollback
    <3> QED BY <3>1, CloseNumbers DEF NInv
  <2> QED BY <2>1, <2>2, <2>3, <2>4, <2>5 DEF Statement
<1> QED BY <1>1, <1>2

LEMMA NumbersAlways == Spec => []NInv
<1>1. Init => NInv
  <2> SUFFICES ASSUME Init PROVE NInv
    OBVIOUS
  <2>1. {q \in Requests : Appending(q)} = {}
    BY DEF Init, NewRequest, Appending
  <2>2. Numbered
    BY <2>1, FS_EmptySet DEF Numbered, Init
  <2>3. Apart
    BY DEF Apart, Init, NoWrites
  <2> QED BY <2>2, <2>3 DEF NInv
<1> QED BY <1>1, Invariance, NextNumbers, PTL DEF Spec

-----------------------------------------------------------------------------
(* A commit is one edit of the list.                                       *)

LEMMA AppendedLists ==
    ASSUME NEW f, PartialMap(f, Nat), Contiguous(f), NEW g, PartialMap(g, Nat), Contiguous(g),
           NEW x \in DOMAIN g \ DOMAIN f,
           DOMAIN g = DOMAIN f \cup {x},
           g[x] = Cardinality(DOMAIN f),
           \A i \in DOMAIN f : g[i] = f[i]
    PROVE  Order(g) = Append(Order(f), x)
<1> DEFINE n == Cardinality(DOMAIN f)
           o == Order(f)
           s == Append(o, x)
<1>1. n \in Nat /\ x \in Nat /\ Cardinality(DOMAIN g) = n + 1
  BY FS_AddElement, ContiguousMeans DEF PartialMap
<1>2. o \in Seq(Nat) /\ Len(o) = n /\ \A k \in 1..n : o[k] \in DOMAIN f /\ f[o[k]] = k - 1
  BY OrderIs
<1> HIDE DEF o
<1>3. s \in Seq(Nat) /\ Len(s) = n + 1 /\ s[n + 1] = x /\ \A k \in 1..n : s[k] = o[k]
  BY <1>1, <1>2
<1> HIDE DEF s, n
<1>4. ASSUME NEW k \in 1..Len(s) PROVE s[k] \in DOMAIN g /\ g[s[k]] = k - 1
  <2>1. k \in 1..n \/ k = n + 1
    BY <1>1, <1>3
  <2>2. CASE k \in 1..n
    BY <1>2, <1>3, <2>2
  <2>3. CASE k = n + 1
    BY <1>1, <1>3, <2>3 DEF n
  <2> QED BY <2>1, <2>2, <2>3
<1>5. Order(g) = s
  BY <1>1, <1>3, <1>4, OrderIfListed
<1> QED BY <1>5 DEF s, o

LEMMA RemovedLists ==
    ASSUME NEW f, PartialMap(f, Nat), Contiguous(f), NEW g, PartialMap(g, Nat), Contiguous(g),
           NEW x \in DOMAIN f,
           DOMAIN g = DOMAIN f \ {x},
           \A i \in DOMAIN f \ {x} : g[i] = IF f[i] > f[x] THEN f[i] - 1 ELSE f[i]
    PROVE  f[x] + 1 \in DOMAIN Order(f) /\ Order(g) = List!RemoveAt(Order(f), f[x] + 1)
<1> DEFINE n == Cardinality(DOMAIN f)
           o == Order(f)
           p == f[x] + 1
           s == List!RemoveAt(o, p)
<1>1. n \in Nat /\ Cardinality(DOMAIN g) = n - 1 /\ f[x] \in Nat
  BY FS_RemoveElement, ContiguousMeans DEF PartialMap
<1>2. /\ o \in Seq(Nat) /\ Len(o) = n /\ \A k \in 1..n : o[k] \in DOMAIN f /\ f[o[k]] = k - 1
      /\ p \in 1..n
  BY OrderIs
<1> HIDE DEF o
<1>3. p \in DOMAIN o
  BY <1>2
<1>4. p = f[x] + 1
  OBVIOUS
<1> HIDE DEF p, n
<1>5. /\ s \in Seq(Nat) /\ Len(s) = n - 1
      /\ \A k \in 1..(n - 1) : s[k] = o[IF k < p THEN k ELSE k + 1]
  BY <1>2, <1>3, RemoveAtIs
<1> HIDE DEF s
<1>6. ASSUME NEW k \in 1..Len(s) PROVE s[k] \in DOMAIN g /\ g[s[k]] = k - 1
  <2>1. k \in 1..n /\ k + 1 \in 1..n /\ s[k] = o[IF k < p THEN k ELSE k + 1]
    BY <1>1, <1>5
  <2>2. CASE k < p
    <3>1. s[k] \in DOMAIN f /\ f[s[k]] = k - 1
      BY <1>2, <2>1, <2>2
    <3>2. f[s[k]] < f[x]
      BY <1>1, <1>4, <2>2, <3>1
    <3>3. s[k] # x /\ ~(f[s[k]] > f[x])
      BY <1>1, <3>1, <3>2
    <3> QED BY <3>1, <3>3
  <2>3. CASE ~(k < p)
    <3>1. s[k] \in DOMAIN f /\ f[s[k]] = k
      BY <1>2, <2>1, <2>3
    <3>2. f[s[k]] > f[x]
      BY <1>1, <1>4, <2>3, <3>1
    <3>3. s[k] # x
      BY <1>1, <3>2
    <3> QED BY <3>1, <3>2, <3>3
  <2> QED BY <2>2, <2>3
<1>7. Order(g) = s
  BY <1>1, <1>5, <1>6, OrderIfListed
<1> QED BY <1>3, <1>7 DEF s, o, p

LEMMA MovedLists ==
    ASSUME NEW f, PartialMap(f, Nat), Contiguous(f), NEW g, PartialMap(g, Nat), Contiguous(g),
           NEW x \in DOMAIN f, NEW target \in 0..(Cardinality(DOMAIN f) - 1),
           DOMAIN g = DOMAIN f,
           g[x] = target,
           \A i \in DOMAIN f \ {x} : g[i] = Slide(f[i], f[x], target)
    PROVE  /\ f[x] + 1 \in DOMAIN Order(f) /\ target + 1 \in DOMAIN Order(f)
           /\ Order(g) = List!InsertAt(List!RemoveAt(Order(f), f[x] + 1), target + 1,
                                       Order(f)[f[x] + 1])
<1> DEFINE n == Cardinality(DOMAIN f)
           o == Order(f)
           p == f[x] + 1
           l == target + 1
           t == List!RemoveAt(o, p)
           s == List!InsertAt(t, l, o[p])
<1>1. n \in Nat /\ f[x] \in Nat /\ x \in Nat
  BY ContiguousMeans DEF PartialMap
<1>2. /\ o \in Seq(Nat) /\ Len(o) = n /\ \A k \in 1..n : o[k] \in DOMAIN f /\ f[o[k]] = k - 1
      /\ p \in 1..n /\ o[p] = x
  BY OrderIs
<1> HIDE DEF o
<1>3. p \in DOMAIN o /\ l \in DOMAIN o /\ l \in 1..n /\ target \in Nat
  BY <1>1, <1>2
<1>4. p = f[x] + 1 /\ l = target + 1
  OBVIOUS
<1> HIDE DEF p, n, l
<1>5. /\ t \in Seq(Nat) /\ Len(t) = n - 1
      /\ \A k \in 1..(n - 1) : t[k] = o[IF k < p THEN k ELSE k + 1]
  BY <1>2, <1>3, RemoveAtIs
<1> HIDE DEF t
<1>6. /\ s \in Seq(Nat) /\ Len(s) = n
      /\ \A k \in 1..n : s[k] = IF k = l THEN x ELSE t[IF k < l THEN k ELSE k - 1]
  <2>1. l \in 1..(Len(t) + 1) /\ Len(t) + 1 = n
    BY <1>1, <1>3, <1>5
  <2>2. /\ s \in Seq(Nat) /\ Len(s) = Len(t) + 1
        /\ \A k \in 1..(Len(t) + 1) : s[k] = IF k = l THEN x ELSE t[IF k < l THEN k ELSE k - 1]
    <3>1. s = List!InsertAt(t, l, x)
      BY <1>2
    <3> HIDE DEF s
    <3>2. t \in Seq(Nat) /\ x \in Nat /\ l \in 1..(Len(t) + 1)
      BY <1>1, <1>5, <2>1
    <3> DEFINE u == List!InsertAt(t, l, x)
    <3>3. /\ u \in Seq(Nat) /\ Len(u) = Len(t) + 1
          /\ \A k \in 1..(Len(t) + 1) : u[k] = IF k = l THEN x ELSE t[IF k < l THEN k ELSE k - 1]
      BY <3>2, InsertAtIs
    <3> HIDE DEF u
    <3>4. s = u
      BY <3>1 DEF u
    <3> QED BY <3>3, <3>4
  <2> HIDE DEF s
  <2> QED BY <2>1, <2>2
<1> HIDE DEF s
<1>7. ASSUME NEW k \in 1..n PROVE s[k] \in DOMAIN g /\ g[s[k]] = k - 1
  <2> DEFINE j == IF k < l THEN k ELSE k - 1
             i == IF j < p THEN j ELSE j + 1
  <2>1. CASE k = l
    BY <1>1, <1>3, <1>4, <1>6, <2>1
  <2>2. CASE k # l
    <3>1. j \in 1..(n - 1) /\ i \in 1..n /\ i # p
      BY <1>1, <1>2, <1>3, <2>2
    <3>2. s[k] = t[j] /\ t[j] = o[i]
      BY <1>5, <1>6, <2>2, <3>1
    <3>3. i - 1 # f[x] /\ Slide(i - 1, f[x], target) = k - 1
      BY <1>1, <1>3, <1>4, <2>2, <3>1 DEF Slide
    <3> HIDE DEF i, j
    <3>4. o[i] \in DOMAIN f /\ f[o[i]] = i - 1
      BY <1>2, <3>1
    <3>5. o[i] # x
      BY <3>3, <3>4
    <3> QED BY <3>2, <3>3, <3>4, <3>5
  <2> QED BY <2>1, <2>2
<1>8. Order(g) = s
  BY <1>6, <1>7, OrderIfListed DEF n
<1> QED BY <1>3, <1>8 DEF s, t, o, p, l

LEMMA CommitEdits ==
    ASSUME IInv, IInv', NInv, NEW p \in Requests, Commit(p) PROVE List!Next
<1> DEFINE v == req[p].window
           f == playlist[v]
           g == playlist'[v]
<1>1. /\ v \in Windows /\ g = Seen(p)
      /\ \A w \in Windows \ {v} : playlist'[w] = playlist[w]
  BY AtStatement DEF Commit, IInv, TypeOK
<1>2. PartialMap(f, Nat) /\ Contiguous(f)
  BY AtStatement
<1>3. /\ PartialMap(g, Nat) /\ Contiguous(g)
      /\ Appended(f, g) \/ Removed(f, g) \/ Moved(f, g)
  BY <1>1, AtStatement DEF Commit, Stage, Seen
<1>4. \A s : Order(g) = s =>
        [w \in Windows |-> Order(playlist'[w])]
           = [[w \in Windows |-> Order(playlist[w])] EXCEPT ![v] = s]
  BY <1>1
<1>5. CASE Appended(f, g)
  <2>1. PICK x \in DOMAIN g \ DOMAIN f :
          /\ DOMAIN g = DOMAIN f \cup {x}
          /\ g[x] = Cardinality(DOMAIN f)
          /\ \A i \in DOMAIN f : g[i] = f[i]
    BY <1>5 DEF Appended
  <2>2. Order(g) = Append(Order(f), x)
    BY <1>2, <1>3, <2>1, AppendedLists
  <2>3. x \in DOMAIN writes[p] \ DOMAIN f
    BY <1>1 DEF Seen, Overlay
  <2>4. x \in 1..MaxItems /\ \A w \in Windows : x \notin DOMAIN playlist[w]
    BY <2>3 DEF NInv, Apart
  <2>5. ASSUME NEW w \in Windows PROVE ~ List!Contains(Order(playlist[w]), x)
    <3>1. PartialMap(playlist[w], Nat) /\ Contiguous(playlist[w])
      BY DEF IInv, TypeOK, PositionsContiguous
    <3>2. \A k \in 1..Len(Order(playlist[w])) : Order(playlist[w])[k] \in DOMAIN playlist[w]
      BY <3>1, OrderIs
    <3> QED BY <2>4, <3>2 DEF List!Contains
  <2>6. List!AppendItem(v, x)
    BY <1>1, <1>4, <2>2, <2>5 DEF List!AppendItem
  <2> QED BY <1>1, <2>4, <2>6 DEF List!Next
<1>6. CASE Removed(f, g)
  <2>1. PICK x \in DOMAIN f :
          /\ DOMAIN g = DOMAIN f \ {x}
          /\ \A i \in DOMAIN f \ {x} : g[i] = IF f[i] > f[x] THEN f[i] - 1 ELSE f[i]
    BY <1>6 DEF Removed
  <2>2. f[x] + 1 \in DOMAIN Order(f) /\ Order(g) = List!RemoveAt(Order(f), f[x] + 1)
    BY <1>2, <1>3, <2>1, RemovedLists
  <2>3. List!RemoveItem(v, f[x] + 1)
    BY <1>1, <1>4, <2>2 DEF List!RemoveItem
  <2> QED BY <1>1, <2>2, <2>3 DEF List!Next
<1>7. CASE Moved(f, g)
  <2>1. PICK x \in DOMAIN f, target \in 0..(Cardinality(DOMAIN f) - 1) :
          /\ DOMAIN g = DOMAIN f
          /\ g[x] = target
          /\ \A i \in DOMAIN f \ {x} : g[i] = Slide(f[i], f[x], target)
    BY <1>7 DEF Moved
  <2>2. /\ f[x] + 1 \in DOMAIN Order(f) /\ target + 1 \in DOMAIN Order(f)
        /\ Order(g) = List!InsertAt(List!RemoveAt(Order(f), f[x] + 1), target + 1,
                                    Order(f)[f[x] + 1])
    BY <1>2, <1>3, <2>1, MovedLists
  <2>3. List!MoveItem(v, f[x] + 1, target + 1)
    BY <1>1, <1>4, <2>2 DEF List!MoveItem
  <2> QED BY <1>1, <2>2, <2>3 DEF List!Next
<1> QED BY <1>3, <1>5, <1>6, <1>7

\* The transactions of PlaylistRepository, statement by statement and in any
\* interleaving, with their failures, do what edits of plain lists do: each
\* commit is one append, removal or move, and no other step shows.
THEOREM ImplementsLists == Spec => EditsAreListEdits
<1>1. Init => List!Init
  <2> SUFFICES ASSUME Init PROVE List!Init
    OBVIOUS
  <2>1. IInv
    BY InitInvariant
  <2>2. PartialMap(NoWrites, Nat) /\ Contiguous(NoWrites)
    BY <2>1, WindowsAssumption DEF Init, IInv, TypeOK, PositionsContiguous
  <2>3. Cardinality(DOMAIN NoWrites) = 0
    BY FS_EmptySet DEF NoWrites
  <2>4. Order(NoWrites) = <<>>
    BY <2>2, <2>3, OrderIs
  <2> QED BY <2>4 DEF Init, List!Init
<1>2. IInv /\ IInv' /\ NInv /\ [Next]_vars
      => [List!Next]_([w \in Windows |-> Order(playlist[w])])
  <2> SUFFICES ASSUME IInv, IInv', NInv, [Next]_vars
               PROVE  [List!Next]_([w \in Windows |-> Order(playlist[w])])
    OBVIOUS
  <2>1. CASE \E p \in Requests : Commit(p)
    BY <2>1, CommitEdits
  <2>2. CASE ~ \E p \in Requests : Commit(p)
    <3>1. UNCHANGED playlist
      BY <2>2 DEF Next, vars, AcceptAppend, AcceptRemove, AcceptMove, Accept, LockWindow,
           Statement, InsertItem, DeleteItem, CompactPositions, LocateItem, ShiftPositions,
           PlaceItem, ItemNotFound, Rollback
    <3> QED BY <3>1
  <2> QED BY <2>1, <2>2
<1> QED BY <1>1, <1>2, Invariance, NumbersAlways, PTL DEF Spec, EditsAreListEdits, List!Spec

=============================================================================
