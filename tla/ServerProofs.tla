---------------------------- MODULE ServerProofs ----------------------------
(***************************************************************************)
(* Any number of processes that boot, fail and die in any order.  First    *)
(* the migrations: each is committed once, in order, and is recorded.      *)
(* Then the constraints of the tables under every statement, what a boot   *)
(* finds in them, and how seedings beside each other leave one layout.     *)
(***************************************************************************)
EXTENDS Server, SequenceTheorems, FiniteSetTheorems, TLAPS

Fields == {"pc", "kind", "step", "row", "window", "library", "faulted", "crowded"}

\* Every place has a process record.
Shape == DOMAIN inst = Instances /\ \A i \in Instances : DOMAIN inst[i] = Fields

\* Only the holder of the advisory lock is in Migrate's critical section.
Exclusive == \A i \in Instances : inst[i].pc \in Migrating => holder = i

\* The loop has passed no migration that is not recorded; the one about to be
\* applied is the next one.
InOrder ==
    \A i \in Instances :
        /\ At(i, "check") => inst[i].step \in 1 .. Len(applied) + 1
        /\ At(i, "apply") => inst[i].step = Len(applied) + 1

IInv == Shape /\ Exclusive /\ InOrder /\ applied \in Seq(Nat) /\ MigrationsAppliedOnce

\* A process that is in Migrate after the step was there before, and holds the
\* lock that it held.
Keeps(j) == inst'[j].pc \in Migrating => /\ inst'[j].pc = inst[j].pc
                                         /\ inst'[j].step = inst[j].step
                                         /\ holder' = holder

-----------------------------------------------------------------------------
LEMMA Initially == Init => IInv
  BY DEF Init, IInv, Shape, Fields, Exclusive, InOrder, MigrationsAppliedOnce, NoProcess, Migrating, At

\* A step that applies nothing and moves no process forward in Migrate.
LEMMA Calm ==
    ASSUME IInv, Shape', UNCHANGED <<recorded, applied>>, \A j \in Instances : Keeps(j)
    PROVE  IInv'
  <1>1. Exclusive'
    BY DEF IInv, Exclusive, Keeps
  <1>2. InOrder'
    BY DEF IInv, InOrder, Keeps, At, Migrating
  <1> QED BY <1>1, <1>2 DEF IInv, MigrationsAppliedOnce

\* Process i becomes one that is not in Migrate, and everything else about the
\* processes is as before.
LEMMA Leaves ==
    ASSUME IInv, NEW i \in Instances, NEW process,
           DOMAIN process = Fields, process.pc \notin Migrating,
           inst' = [inst EXCEPT ![i] = process], UNCHANGED <<recorded, applied>>,
           holder' = holder \/ (holder = i /\ holder' = Nobody)
    PROVE  IInv'
  <1>1. Shape'
    BY DEF IInv, Shape
  <1>2. ASSUME NEW j \in Instances PROVE Keeps(j)
    BY DEF IInv, Shape, Exclusive, Keeps
  <1> QED BY <1>1, <1>2, Calm

LEMMA FailedIsOut ==
    ASSUME NEW i, NEW faulted PROVE DOMAIN Failed(i, faulted) = Fields /\ Failed(i, faulted).pc = "failed"
  BY DEF Failed, NoProcess, Fields

LEMMA FailPreserves ==
    ASSUME IInv, NEW i \in Instances, NEW faulted, Fail(i, faulted), UNCHANGED <<recorded, applied>>
    PROVE  IInv'
  <1>1. DOMAIN Failed(i, faulted) = Fields /\ Failed(i, faulted).pc \notin Migrating
    BY FailedIsOut DEF Migrating
  <1>2. inst' = [inst EXCEPT ![i] = Failed(i, faulted)]
    BY DEF Fail, Proceed
  <1>3. holder' = holder \/ (holder = i /\ holder' = Nobody)
    BY DEF Fail
  <1> QED BY <1>1, <1>2, <1>3, Leaves

-----------------------------------------------------------------------------
(* Migrate.                                                                *)

LEMMA AcquirePreserves == ASSUME IInv, NEW i \in Instances, AcquireLock(i) PROVE IInv'
  <1>1. Shape'
    BY DEF IInv, Shape, Fields, AcquireLock
  <1>2. inst'[i].pc = "check" /\ inst'[i].step = 1 /\ \A j \in Instances \ {i} : inst'[j] = inst[j]
    BY DEF IInv, Shape, Fields, AcquireLock
  <1>3. \A j \in Instances : inst[j].pc \notin Migrating
    BY NobodyAssumption DEF IInv, Exclusive, AcquireLock
  <1>4. Exclusive'
    BY <1>2, <1>3 DEF Exclusive, AcquireLock
  <1>5. Len(applied) \in Nat
    BY DEF IInv
  <1>6. applied' = applied /\ 1 \in 1 .. Len(applied) + 1
    BY <1>5 DEF AcquireLock
  <1>7. \A j \in Instances \ {i} : inst'[j].pc \notin {"check", "apply"}
    BY <1>2, <1>3 DEF Migrating
  <1>8. InOrder'
    BY <1>2, <1>6, <1>7 DEF InOrder, At
  <1> QED BY <1>1, <1>4, <1>8 DEF IInv, MigrationsAppliedOnce, AcquireLock

LEMMA CheckPreserves == ASSUME IInv, NEW i \in Instances, CheckMigration(i) PROVE IInv'
  <1> DEFINE n == Len(applied)
             step == inst[i].step
  <1>1. n \in Nat /\ recorded = 1 .. n
    BY DEF IInv, MigrationsAppliedOnce
  <1>2. step \in 1 .. n + 1 /\ holder = i
    BY DEF IInv, InOrder, Exclusive, CheckMigration, At, Migrating
  <1>3. UNCHANGED <<recorded, applied, holder>>
    BY DEF CheckMigration
  <1>4. CASE step > Migrations
    <2>1. inst' = [inst EXCEPT ![i] = [inst[i] EXCEPT !.pc = "unlock", !.step = 0]]
      BY <1>4 DEF CheckMigration, Proceed
    <2>2. Shape' /\ inst'[i].pc = "unlock" /\ \A j \in Instances \ {i} : inst'[j] = inst[j]
      BY <2>1 DEF IInv, Shape, Fields
    <2>3. Exclusive' /\ InOrder'
      BY <1>2, <1>3, <2>2 DEF IInv, Exclusive, InOrder, At, Migrating
    <2> QED BY <1>3, <2>2, <2>3 DEF IInv, MigrationsAppliedOnce
  <1>5. CASE ~(step > Migrations) /\ step \in recorded
    <2>1. inst' = [inst EXCEPT ![i] = [inst[i] EXCEPT !.step = @ + 1]]
      BY <1>5 DEF CheckMigration, Proceed
    <2>2. Shape' /\ inst'[i].pc = inst[i].pc /\ inst'[i].step = step + 1
            /\ \A j \in Instances \ {i} : inst'[j] = inst[j]
      BY <2>1 DEF IInv, Shape, Fields
    <2>3. Exclusive'
      BY <1>3, <2>2 DEF IInv, Exclusive
    <2>4. step + 1 \in 1 .. n + 1 /\ At(i, "check")
      BY <1>1, <1>5 DEF CheckMigration
    <2>5. InOrder'
      BY <1>3, <2>2, <2>4 DEF IInv, InOrder, At
    <2> QED BY <1>3, <2>2, <2>3, <2>5 DEF IInv, MigrationsAppliedOnce
  <1>6. CASE ~(step > Migrations) /\ step \notin recorded
    <2>1. inst' = [inst EXCEPT ![i] = [inst[i] EXCEPT !.pc = "apply"]]
      BY <1>6 DEF CheckMigration, Proceed
    <2>2. Shape' /\ inst'[i].pc = "apply" /\ inst'[i].step = step
            /\ \A j \in Instances \ {i} : inst'[j] = inst[j]
      BY <2>1 DEF IInv, Shape, Fields
    <2>3. step = n + 1
      BY <1>1, <1>2, <1>6
    <2>4. Exclusive'
      BY <1>2, <1>3, <2>2 DEF IInv, Exclusive
    <2>5. InOrder'
      BY <1>3, <2>2, <2>3 DEF IInv, InOrder, At
    <2> QED BY <1>3, <2>2, <2>4, <2>5 DEF IInv, MigrationsAppliedOnce
  <1> QED BY <1>4, <1>5, <1>6

\* The numbers from 1 to n with n + 1 after them.
LEMMA OneMore ==
    ASSUME NEW s \in Seq(Nat), s = [k \in 1 .. Len(s) |-> k]
    PROVE  LET t == Append(s, Len(s) + 1)
           IN  /\ t \in Seq(Nat) /\ Len(t) = Len(s) + 1
               /\ t = [k \in 1 .. Len(t) |-> k]
  <1> DEFINE n == Len(s)
             t == Append(s, n + 1)
  <1>1. n \in Nat /\ n + 1 \in Nat
    OBVIOUS
  <1>2. t \in Seq(Nat) /\ Len(t) = n + 1 /\ DOMAIN t = 1 .. n + 1
        /\ t[n + 1] = n + 1 /\ \A k \in 1 .. n : t[k] = s[k]
    BY <1>1, AppendProperties
  <1>3. \A k \in 1 .. n + 1 : t[k] = k
    BY <1>1, <1>2
  <1>4. t = [k \in DOMAIN t |-> t[k]]
    BY <1>2
  <1> HIDE DEF t
  <1>5. t = [k \in 1 .. Len(t) |-> k]
    BY <1>2, <1>3, <1>4
  <1> QED BY <1>2, <1>5 DEF t

LEMMA ApplyPreserves == ASSUME IInv, NEW i \in Instances, ApplyMigration(i) PROVE IInv'
  <1> DEFINE n == Len(applied)
  <1>1. n \in Nat /\ applied \in Seq(Nat) /\ applied = [k \in 1 .. n |-> k] /\ recorded = 1 .. n
    BY DEF IInv, MigrationsAppliedOnce
  <1>2. inst[i].step = n + 1 /\ inst[i].pc = "apply" /\ holder = i
    BY DEF IInv, InOrder, Exclusive, ApplyMigration, At, Migrating
  <1>3. n + 1 \notin recorded
    BY <1>1
  <1>4. applied' = Append(applied, n + 1) /\ recorded' = recorded \cup {n + 1}
    BY <1>2, <1>3 DEF ApplyMigration
  <1>5. applied' \in Seq(Nat) /\ Len(applied') = n + 1 /\ applied' = [k \in 1 .. Len(applied') |-> k]
    BY <1>1, <1>4, OneMore
  <1>6. MigrationsAppliedOnce'
    BY <1>1, <1>4, <1>5 DEF MigrationsAppliedOnce
  <1>7. \A j \in Instances \ {i} : inst[j].pc \notin Migrating
    BY <1>2 DEF IInv, Exclusive
  <1>8. CASE inst' = [inst EXCEPT ![i].pc = "check", ![i].step = @ + 1] /\ UNCHANGED <<holder, torn>>
    <2>1. Shape' /\ inst'[i].pc = "check" /\ inst'[i].step = inst[i].step + 1
            /\ \A j \in Instances \ {i} : inst'[j] = inst[j]
      BY <1>8 DEF IInv, Shape, Fields
    <2>2. Exclusive'
      BY <1>2, <1>7, <1>8, <2>1 DEF Exclusive
    <2>3. inst'[i].step \in 1 .. Len(applied') + 1
      BY <1>1, <1>2, <1>5, <2>1
    <2>4. \A j \in Instances \ {i} : inst'[j].pc \notin {"check", "apply"}
      BY <1>7, <2>1 DEF Migrating
    <2>5. InOrder'
      BY <2>1, <2>3, <2>4 DEF InOrder, At
    <2> QED BY <1>5, <1>6, <2>1, <2>2, <2>5 DEF IInv
  <1>9. CASE Fail(i, TRUE)
    <2>1. inst' = [inst EXCEPT ![i] = Failed(i, TRUE)]
      BY <1>9 DEF Fail, Proceed
    <2>2. Shape' /\ inst'[i].pc = "failed" /\ \A j \in Instances \ {i} : inst'[j] = inst[j]
      BY <2>1, FailedIsOut DEF IInv, Shape
    <2>3. \A j \in Instances : inst'[j].pc \notin Migrating
      BY <1>7, <2>2 DEF Migrating
    <2>4. Exclusive' /\ InOrder'
      BY <2>3 DEF Exclusive, InOrder, At, Migrating
    <2> QED BY <1>5, <1>6, <2>2, <2>4 DEF IInv
  <1> QED BY <1>2, <1>3, <1>8, <1>9 DEF ApplyMigration

LEMMA UnlockPreserves == ASSUME IInv, NEW i \in Instances, Unlock(i) PROVE IInv'
  <1> DEFINE next == IF inst[i].kind = "force" THEN "wipe items"
                     ELSE IF inst[i].kind = "seed" \/ env.autoSeed THEN "count" ELSE "restore"
             process == [inst[i] EXCEPT !.pc = next]
  <1>1. next \notin Migrating
    BY DEF Migrating
  <1>2. inst' = [inst EXCEPT ![i] = process]
    BY DEF Unlock, Proceed
  <1>3. DOMAIN process = Fields /\ process.pc = next
    BY DEF IInv, Shape, Fields
  <1>4. holder' = holder \/ (holder = i /\ holder' = Nobody)
    BY DEF Unlock
  <1>5. UNCHANGED <<recorded, applied>>
    BY DEF Unlock
  <1> HIDE DEF next, process
  <1> QED BY <1>1, <1>2, <1>3, <1>4, <1>5, Leaves

-----------------------------------------------------------------------------
(* The rest of a process.                                                  *)

\* Process i is no longer in Migrate, and writes to the tables.
LEMMA WritesPreserves ==
    ASSUME IInv, NEW i \in Instances, NEW process, Writes(i, process),
           DOMAIN process = Fields, process.pc \notin Migrating
    PROVE  IInv'
  <1> DEFINE Next1(j, lost) == IF j # i THEN inst[j] ELSE IF lost THEN Failed(i, TRUE) ELSE process
             Noted(j) == j \in Beside(i) \/ (j = i /\ Beside(i) # {})
  <1>1. PICK lost : inst' = [j \in Instances |-> IF Noted(j) THEN [Next1(j, lost) EXCEPT !.crowded = TRUE]
                                                ELSE Next1(j, lost)]
    BY DEF Writes
  <1>2. UNCHANGED <<holder, recorded, applied>>
    BY DEF Writes
  <1>3. DOMAIN Failed(i, TRUE) = Fields /\ Failed(i, TRUE).pc \notin Migrating
    BY FailedIsOut DEF Migrating
  <1>4. ASSUME NEW j \in Instances
        PROVE  DOMAIN Next1(j, lost) = Fields /\ (j = i => Next1(j, lost).pc \notin Migrating)
                 /\ (j # i => Next1(j, lost) = inst[j])
    BY <1>3 DEF IInv, Shape
  <1> HIDE DEF Next1, Noted
  <1>5. ASSUME NEW j \in Instances
        PROVE  /\ DOMAIN inst'[j] = Fields
               /\ inst'[j].pc = Next1(j, lost).pc /\ inst'[j].step = Next1(j, lost).step
    BY <1>1, <1>4 DEF Fields
  <1>6. Shape'
    BY <1>1, <1>5 DEF Shape
  <1>7. ASSUME NEW j \in Instances PROVE Keeps(j)
    BY <1>2, <1>4, <1>5 DEF Keeps
  <1> QED BY <1>2, <1>6, <1>7, Calm

\* What NextItem makes of a process is not in Migrate, nor clearing tables.
LEMMA NextItemIsOut ==
    ASSUME NEW i, NEW process, DOMAIN process = Fields
    PROVE  DOMAIN NextItem(i, process) = Fields /\ NextItem(i, process).pc \notin Migrating \cup Wiping
  <1>1. CASE process.row < Len(Layout[process.step].items)
    <2>1. NextItem(i, process) = [process EXCEPT !.pc = "seed item", !.row = @ + 1]
      BY <1>1 DEF NextItem
    <2> QED BY <2>1 DEF Fields, Migrating, Wiping
  <1>2. CASE ~(process.row < Len(Layout[process.step].items)) /\ process.step < Len(Layout)
    <2>1. NextItem(i, process) = [process EXCEPT !.pc = "seed window", !.step = @ + 1, !.row = 0]
      BY <1>2 DEF NextItem
    <2> QED BY <2>1 DEF Fields, Migrating, Wiping
  <1>3. CASE ~(process.row < Len(Layout[process.step].items)) /\ ~(process.step < Len(Layout))
    <2>1. NextItem(i, process) = [NoProcess EXCEPT !.pc = AfterSeed(i), !.kind = process.kind,
                                                   !.crowded = process.crowded]
      BY <1>3 DEF NextItem
    <2>2. AfterSeed(i) \notin Migrating \cup Wiping
      BY DEF AfterSeed, Migrating, Wiping
    <2> QED BY <2>1, <2>2 DEF Fields, NoProcess
  <1> QED BY <1>1, <1>2, <1>3

LEMMA StartPreserves ==
    ASSUME IInv, NEW i \in Instances, NEW kind, Start(i, kind) PROVE IInv'
  <1> DEFINE process == [NoProcess EXCEPT !.pc = "connect", !.kind = kind]
  <1>1. DOMAIN process = Fields /\ process.pc = "connect"
    BY DEF NoProcess, Fields
  <1>2. inst' = [inst EXCEPT ![i] = process] /\ UNCHANGED <<holder, recorded, applied>>
    BY DEF Start
  <1> HIDE DEF process
  <1> QED BY <1>1, <1>2, Leaves DEF Migrating

\* A step of process i that changes its program counter only, to one that is not in Migrate.
LEMMA MovesOut ==
    ASSUME IInv, NEW i \in Instances, NEW pc, pc \notin Migrating,
           inst' = [inst EXCEPT ![i] = [inst[i] EXCEPT !.pc = pc]],
           UNCHANGED <<holder, recorded, applied>>
    PROVE  IInv'
  <1> DEFINE process == [inst[i] EXCEPT !.pc = pc]
  <1>1. DOMAIN process = Fields /\ process.pc = pc
    BY DEF IInv, Shape, Fields
  <1> HIDE DEF process
  <1>2. inst' = [inst EXCEPT ![i] = process]
    BY DEF process
  <1> QED BY <1>1, <1>2, Leaves

\* The places of a process's way that are not in Migrate.
LEMMA OutsideMigrate == \A pc \in {"lock", "serving", "draining", "overrun"} : pc \notin Migrating
  BY DEF Migrating

LEMMA ConnectPreserves == ASSUME IInv, NEW i \in Instances, Connect(i) PROVE IInv'
  <1>1. inst' = [inst EXCEPT ![i] = [inst[i] EXCEPT !.pc = "lock"]]
    BY DEF Connect
  <1>2. UNCHANGED <<holder, recorded, applied>>
    BY DEF Connect
  <1> QED BY <1>1, <1>2, MovesOut, OutsideMigrate

LEMMA ServePreserves == ASSUME IInv, NEW i \in Instances, Serve(i) PROVE IInv'
  <1>1. inst' = [inst EXCEPT ![i] = [inst[i] EXCEPT !.pc = "serving"]]
    BY DEF Serve, Proceed
  <1>2. UNCHANGED <<holder, recorded, applied>>
    BY DEF Serve
  <1> QED BY <1>1, <1>2, MovesOut, OutsideMigrate

LEMMA CountPreserves == ASSUME IInv, NEW i \in Instances, CountWindows(i) PROVE IInv'
  <1>1. UNCHANGED <<holder, recorded, applied>>
    BY DEF CountWindows
  <1>2. CASE windows # <<>> /\ inst[i].kind # "force"
    <2>1. AfterSeed(i) \notin Migrating
      BY DEF AfterSeed, Migrating
    <2>2. inst' = [inst EXCEPT ![i] = [inst[i] EXCEPT !.pc = AfterSeed(i)]]
      BY <1>2 DEF CountWindows, Proceed
    <2> QED BY <1>1, <2>1, <2>2, MovesOut
  <1>3. CASE ~(windows # <<>> /\ inst[i].kind # "force")
    <2> DEFINE process == [inst[i] EXCEPT !.pc = "seed media", !.step = 1]
    <2>1. inst' = [inst EXCEPT ![i] = process]
      BY <1>3 DEF CountWindows, Proceed
    <2>2. DOMAIN process = Fields /\ process.pc \notin Migrating
      BY DEF IInv, Shape, Fields, Migrating
    <2> HIDE DEF process
    <2> QED BY <1>1, <2>1, <2>2, Leaves
  <1> QED BY <1>2, <1>3

\* A write of process i after which only its program counter differs.
LEMMA WritesOn ==
    ASSUME IInv, NEW i \in Instances, NEW pc, pc \notin Migrating, Writes(i, [inst[i] EXCEPT !.pc = pc])
    PROVE  IInv'
  <1> DEFINE process == [inst[i] EXCEPT !.pc = pc]
  <1>1. DOMAIN process = Fields /\ process.pc = pc
    BY DEF IInv, Shape, Fields
  <1>2. Writes(i, process)
    OBVIOUS
  <1> HIDE DEF process
  <1> QED BY <1>1, <1>2, WritesPreserves

LEMMA WipePreserves == ASSUME IInv, NEW i \in Instances, Wipe(i) PROVE IInv'
  <1>1. CASE \E pc \in {"wipe windows", "wipe media", "count"} : Writes(i, [inst[i] EXCEPT !.pc = pc])
    BY <1>1, WritesOn DEF Migrating
  <1>2. CASE Fail(i, FALSE) /\ UNCHANGED <<recorded, applied>>
    BY <1>2, FailPreserves
  <1> QED BY <1>1, <1>2 DEF Wipe

LEMMA SeedMediaPreserves == ASSUME IInv, NEW i \in Instances, SeedMedia(i) PROVE IInv'
  <1> DEFINE process == [inst[i] EXCEPT !.library = Append(@, serial.media)]
             next == IF process.step < Len(Library) THEN [process EXCEPT !.step = @ + 1]
                     ELSE [process EXCEPT !.pc = "seed window", !.step = 1]
  <1>1. Writes(i, next) /\ inst[i].pc = "seed media"
    BY DEF SeedMedia, At
  <1>2. DOMAIN process = Fields /\ process.pc = inst[i].pc
    BY DEF IInv, Shape, Fields
  <1> HIDE DEF process
  <1>3. CASE process.step < Len(Library)
    <2>1. next = [process EXCEPT !.step = @ + 1]
      BY <1>3
    <2> HIDE DEF next
    <2>2. DOMAIN next = Fields /\ next.pc \notin Migrating
      BY <1>1, <1>2, <2>1 DEF Fields, Migrating
    <2> QED BY <1>1, <2>2, WritesPreserves
  <1>4. CASE ~(process.step < Len(Library))
    <2>1. next = [process EXCEPT !.pc = "seed window", !.step = 1]
      BY <1>4
    <2> HIDE DEF next
    <2>2. DOMAIN next = Fields /\ next.pc \notin Migrating
      BY <1>2, <2>1 DEF Fields, Migrating
    <2> QED BY <1>1, <2>2, WritesPreserves
  <1> QED BY <1>3, <1>4

LEMMA SeedWindowPreserves == ASSUME IInv, NEW i \in Instances, SeedWindow(i) PROVE IInv'
  <1> DEFINE process == [inst[i] EXCEPT !.window = serial.window]
  <1>1. CASE Writes(i, NextItem(i, process))
    <2>1. DOMAIN process = Fields
      BY DEF IInv, Shape, Fields
    <2> HIDE DEF process
    <2> QED BY <1>1, <2>1, NextItemIsOut, WritesPreserves
  <1>2. CASE Fail(i, FALSE) /\ UNCHANGED <<recorded, applied>>
    BY <1>2, FailPreserves
  <1> QED BY <1>1, <1>2 DEF SeedWindow

LEMMA SeedItemPreserves == ASSUME IInv, NEW i \in Instances, SeedItem(i) PROVE IInv'
  <1>1. CASE Writes(i, NextItem(i, inst[i]))
    <2>1. DOMAIN inst[i] = Fields
      BY DEF IInv, Shape
    <2> QED BY <1>1, <2>1, NextItemIsOut, WritesPreserves
  <1>2. CASE Fail(i, FALSE) /\ UNCHANGED <<recorded, applied>>
    BY <1>2, FailPreserves
  <1> QED BY <1>1, <1>2 DEF SeedItem

-----------------------------------------------------------------------------
(* Requests, and the end of a process.                                     *)

\* A request that stores something is noted by the processes that are seeding.
LEMMA StoredPreserves ==
    ASSUME IInv, NEW r, NEW what, NEW handler, Stored(r, what, handler) PROVE IInv'
  <1>1. inst' = [j \in Instances |-> IF j \in Beside(req[r].at) THEN [inst[j] EXCEPT !.crowded = TRUE]
                                     ELSE inst[j]]
        /\ UNCHANGED <<holder, recorded, applied>>
    BY DEF Stored
  <1>2. ASSUME NEW j \in Instances
        PROVE  /\ DOMAIN inst'[j] = Fields
               /\ inst'[j].pc = inst[j].pc /\ inst'[j].step = inst[j].step
    BY <1>1 DEF IInv, Shape, Fields
  <1>3. Shape'
    BY <1>1, <1>2 DEF Shape
  <1>4. ASSUME NEW j \in Instances PROVE Keeps(j)
    BY <1>1, <1>2 DEF Keeps
  <1> QED BY <1>1, <1>3, <1>4, Calm

LEMMA UnchangedPreserves == ASSUME IInv, UNCHANGED bootVars PROVE IInv'
  BY DEF IInv, Shape, Exclusive, InOrder, At, MigrationsAppliedOnce, bootVars

LEMMA ServingPreserves == ASSUME IInv, NEW r \in Requests, Serving(r) PROVE IInv'
  <1>1. CASE CreateWindow(r)
    BY <1>1, StoredPreserves, UnchangedPreserves DEF CreateWindow, Looked
  <1>2. CASE CreateMedia(r)
    BY <1>2, StoredPreserves, UnchangedPreserves DEF CreateMedia, Looked
  <1>3. CASE EditPlaylist(r)
    BY <1>3, StoredPreserves, UnchangedPreserves DEF EditPlaylist, Looked
  <1>4. CASE PublishMedia(r) \/ Publish(r)
    BY <1>4, UnchangedPreserves DEF PublishMedia, Publish, Tell, Looked
  <1>5. CASE FindWindow(r) \/ FindMedia(r) \/ ReadWindow(r) \/ ReadItems(r) \/ ListWindows(r)
               \/ ListItems(r) \/ ListMedia(r) \/ LiveSync(r) \/ StatementFails(r)
    BY <1>5, UnchangedPreserves
       DEF FindWindow, FindMedia, ReadWindow, ReadItems, ListWindows, ListItems, ListMedia, LiveSync,
           StatementFails, Looked
  <1> QED BY <1>1, <1>2, <1>3, <1>4, <1>5 DEF Serving

LEMMA DonePreserves ==
    ASSUME IInv, NEW i \in Instances, inst' = [inst EXCEPT ![i] = [NoProcess EXCEPT !.pc = "done"]],
           UNCHANGED <<holder, recorded, applied>>
    PROVE  IInv'
  <1> DEFINE process == [NoProcess EXCEPT !.pc = "done"]
  <1>1. DOMAIN process = Fields /\ process.pc \notin Migrating
    BY DEF NoProcess, Fields, Migrating
  <1> HIDE DEF process
  <1>2. inst' = [inst EXCEPT ![i] = process]
    BY DEF process
  <1> QED BY <1>1, <1>2, Leaves

LEMMA BootStepPreserves == ASSUME IInv, NEW i \in Instances, BootStep(i) PROVE IInv'
  BY ConnectPreserves, AcquirePreserves, CheckPreserves, ApplyPreserves, UnlockPreserves, WipePreserves,
     CountPreserves, SeedMediaPreserves, SeedWindowPreserves, SeedItemPreserves, ServePreserves DEF BootStep

LEMMA ProcessPreserves == ASSUME IInv, NEW i \in Instances, Process(i) PROVE IInv'
  <1>1. CASE Booting(i)
    BY <1>1, BootStepPreserves DEF Booting
  <1>2. CASE \E kind \in env.kinds : Start(i, kind)
    BY <1>2, StartPreserves
  <1>3. CASE BootFails(i)
    BY <1>3, FailPreserves DEF BootFails
  <1>4. CASE Sigterm(i)
    <2>1. inst' = [inst EXCEPT ![i] = [inst[i] EXCEPT !.pc = "draining"]]
      BY <1>4 DEF Sigterm, Proceed
    <2>2. UNCHANGED <<holder, recorded, applied>>
      BY <1>4 DEF Sigterm
    <2> QED BY <2>1, <2>2, MovesOut, OutsideMigrate
  <1>5. CASE GraceOver(i) \/ ServeFails(i)
    <2>1. inst' = [inst EXCEPT ![i] = [inst[i] EXCEPT !.pc = "overrun"]]
      BY <1>5 DEF GraceOver, ServeFails, Overrun, Proceed
    <2>2. UNCHANGED <<holder, recorded, applied>>
      BY <1>5 DEF GraceOver, ServeFails, Overrun
    <2> QED BY <2>1, <2>2, MovesOut, OutsideMigrate
  <1>6. CASE Drained(i)
    BY <1>6, DonePreserves DEF Drained, Proceed
  <1>7. CASE Exit(i)
    BY <1>7, DonePreserves DEF Exit, Proceed
  <1>8. CASE Crash(i)
    BY <1>8, FailPreserves DEF Crash
  <1> QED BY <1>1, <1>2, <1>3, <1>4, <1>5, <1>6, <1>7, <1>8 DEF Process

LEMMA Invariance == Spec => []IInv
  <1>1. IInv /\ [Next]_vars => IInv'
    <2> SUFFICES ASSUME IInv, [Next]_vars PROVE IInv'
      OBVIOUS
    <2>1. CASE \E i \in Instances : Process(i)
      BY <2>1, ProcessPreserves
    <2>2. CASE \E r \in env.requests, i \in Instances, c \in env.calls : Arrive(r, i, c) /\ UNCHANGED env
      BY <2>2, UnchangedPreserves DEF Arrive
    <2>3. CASE \E r \in Requests : Serving(r) /\ UNCHANGED env
      BY <2>3, ServingPreserves
    <2>4. CASE UNCHANGED vars
      BY <2>4, UnchangedPreserves DEF vars
    <2> QED BY <2>1, <2>2, <2>3, <2>4 DEF Next
  <1> QED BY Initially, <1>1, PTL DEF Spec

\* Whatever processes boot beside each other, fail or die, every migration's
\* statements are committed once, in order, and recorded: the advisory lock and
\* the transaction of applyMigration see to it.
THEOREM MigrationsAlways == Spec => []MigrationsAppliedOnce
  <1>1. IInv => MigrationsAppliedOnce
    BY DEF IInv
  <1> QED BY Invariance, <1>1, PTL

-----------------------------------------------------------------------------
(* The tables.                                                             *)

Item == [id : Nat, media : Nat]

\* The items of one playlist show media of M, and have ids of their own below n.
ItemsOK(s, M, n) ==
    /\ s \in Seq(Item)
    /\ \A k \in DOMAIN s : s[k].media \in M /\ s[k].id < n
    /\ \A k, l \in DOMAIN s : s[k].id = s[l].id => k = l

TablesInv ==
    /\ serial \in [window : Nat \ {0}, media : Nat \ {0}, item : Nat \ {0}]
    /\ wipes \in Nat
    /\ \A w \in Rows(windows) :
          /\ w \in 1 .. serial.window - 1
          /\ DOMAIN windows[w] = {"name", "items"}
          /\ StorableName(windows[w].name)
          /\ \A v \in Rows(windows) : windows[v].name = windows[w].name => v = w
          /\ ItemsOK(windows[w].items, Rows(media), serial.item)
    /\ \A m \in Rows(media) : m \in 1 .. serial.media - 1 /\ StorableMedia(media[m])

\* Every window of W is in V, with its name.
NamesKept(W, V) == DOMAIN W \subseteq DOMAIN V /\ \A w \in DOMAIN W : V[w].name = W[w].name

\* Unless a table is cleared, windows and media stay.
Grows ==
    \/ wipes' = wipes + 1
    \/ wipes' = wipes /\ NamesKept(windows, windows') /\ Rows(media) \subseteq Rows(media')

LEMMA ItemFields ==
    ASSUME NEW s, NEW M, NEW n, ItemsOK(s, M, n), NEW k \in DOMAIN s
    PROVE  /\ s[k] \in Item /\ s[k].id \in Nat /\ s[k].media \in Nat
           /\ s[k].id < n /\ s[k].media \in M
  <1>1. s \in Seq(Item) /\ s[k].id < n /\ s[k].media \in M
    BY DEF ItemsOK
  <1>2. s[k] \in Item
    BY <1>1
  <1> QED BY <1>1, <1>2 DEF Item

LEMMA ItemsGrow ==
    ASSUME NEW s, NEW M, NEW N, NEW n \in Nat, NEW m \in Nat, ItemsOK(s, M, n), M \subseteq N, n <= m
    PROVE  ItemsOK(s, N, m)
  <1>1. \A k \in DOMAIN s : s[k].id \in Nat /\ s[k].id < n /\ s[k].media \in M
    BY ItemFields
  <1>2. \A k \in DOMAIN s : s[k].id < m /\ s[k].media \in N
    BY <1>1
  <1> QED BY <1>2 DEF ItemsOK

LEMMA AppendedItems ==
    ASSUME NEW s, NEW M, NEW n \in Nat, NEW m \in M, M \subseteq Nat, ItemsOK(s, M, n)
    PROVE  ItemsOK(Append(s, [id |-> n, media |-> m]), M, n + 1)
  <1> DEFINE x == [id |-> n, media |-> m]
             t == Append(s, x)
  <1>1. x \in Item /\ x.id = n /\ x.media = m /\ s \in Seq(Item)
    BY DEF Item, ItemsOK
  <1> HIDE DEF x
  <1>2. /\ t \in Seq(Item) /\ DOMAIN t = 1 .. Len(s) + 1 /\ DOMAIN s = 1 .. Len(s) /\ Len(s) \in Nat
        /\ \A k \in 1 .. Len(s) : t[k] = s[k]
        /\ t[Len(s) + 1] = x
    BY <1>1, AppendProperties
  <1> HIDE DEF t
  <1>3. \A k \in DOMAIN s : s[k].id \in Nat /\ s[k].id < n /\ s[k].media \in M
    BY ItemFields
  <1>4. \A k \in DOMAIN t : k = Len(s) + 1 \/ k \in DOMAIN s
    BY <1>2
  <1>5. \A k \in DOMAIN t : t[k].media \in M /\ t[k].id < n + 1
    BY <1>1, <1>2, <1>3, <1>4
  <1>6. ASSUME NEW k \in DOMAIN t, NEW l \in DOMAIN t, t[k].id = t[l].id PROVE k = l
    <2>1. CASE k \in DOMAIN s /\ l \in DOMAIN s
      BY <1>2, <1>6, <2>1 DEF ItemsOK
    <2>2. CASE k = Len(s) + 1 /\ l = Len(s) + 1
      BY <2>2
    <2>3. CASE k \in DOMAIN s /\ l = Len(s) + 1
      BY <1>1, <1>2, <1>3, <1>6, <2>3
    <2>4. CASE k = Len(s) + 1 /\ l \in DOMAIN s
      BY <1>1, <1>2, <1>3, <1>6, <2>4
    <2> QED BY <1>4, <2>1, <2>2, <2>3, <2>4
  <1> QED BY <1>2, <1>5, <1>6 DEF ItemsOK, t, x

\* Items taken from s, each from a place of its own, are as s is.
LEMMA PickedItems ==
    ASSUME NEW s, NEW M, NEW n, ItemsOK(s, M, n), NEW t \in Seq(Item), NEW f,
           \A k \in DOMAIN t : f[k] \in DOMAIN s /\ t[k] = s[f[k]],
           \A k, l \in DOMAIN t : f[k] = f[l] => k = l
    PROVE  ItemsOK(t, M, n)
  BY DEF ItemsOK

LEMMA WithoutItem ==
    ASSUME NEW s \in Seq(Item), NEW p \in DOMAIN s
    PROVE  LET t == SubSeq(s, 1, p - 1) \o SubSeq(s, p + 1, Len(s))
           IN  /\ t \in Seq(Item) /\ Len(t) = Len(s) - 1
               /\ \A k \in 1 .. Len(s) - 1 : t[k] = s[IF k < p THEN k ELSE k + 1]
  <1> DEFINE a == SubSeq(s, 1, p - 1)
             b == SubSeq(s, p + 1, Len(s))
             t == a \o b
  <1>1. p \in 1 .. Len(s) /\ Len(s) \in Nat /\ DOMAIN s = 1 .. Len(s)
    OBVIOUS
  <1>2. a \in Seq(Item) /\ Len(a) = p - 1 /\ \A k \in 1 .. p - 1 : a[k] = s[k]
    BY <1>1, SubSeqProperties
  <1>3. b \in Seq(Item) /\ Len(b) = Len(s) - p /\ \A k \in 1 .. Len(s) - p : b[k] = s[p + k]
    BY <1>1, SubSeqProperties
  <1> HIDE DEF a, b
  <1>4. /\ t \in Seq(Item) /\ Len(t) = Len(a) + Len(b)
        /\ \A k \in 1 .. Len(a) : t[k] = a[k]
        /\ \A k \in 1 .. Len(b) : t[Len(a) + k] = b[k]
    <2>1. a \in Seq(Item) /\ b \in Seq(Item)
      BY <1>2, <1>3
    <2> QED BY <2>1
  <1> HIDE DEF t
  <1>5. Len(t) = Len(s) - 1
    BY <1>1, <1>2, <1>3, <1>4
  <1>6. ASSUME NEW k \in 1 .. Len(s) - 1 PROVE t[k] = s[IF k < p THEN k ELSE k + 1]
    <2>1. CASE k < p
      BY <1>1, <1>2, <1>4, <2>1
    <2>2. CASE ~ (k < p)
      <3> DEFINE j == k - (p - 1)
      <3>1. j \in 1 .. Len(s) - p /\ k = (p - 1) + j /\ p + j = k + 1
        BY <1>1, <2>2
      <3> HIDE DEF j
      <3>2. t[(p - 1) + j] = b[j] /\ b[j] = s[p + j]
        BY <1>2, <1>3, <1>4, <3>1
      <3> QED BY <2>2, <3>1, <3>2
    <2> QED BY <2>1, <2>2
  <1> QED BY <1>4, <1>5, <1>6 DEF t, a, b

\* An item put back behind the first q of the others.
LEMMA InsertedItem ==
    ASSUME NEW t \in Seq(Item), NEW x \in Item, NEW q \in 0 .. Len(t)
    PROVE  LET u == SubSeq(t, 1, q) \o <<x>> \o SubSeq(t, q + 1, Len(t))
           IN  /\ u \in Seq(Item) /\ Len(u) = Len(t) + 1
               /\ \A k \in 1 .. Len(t) + 1 :
                     u[k] = IF k = q + 1 THEN x ELSE t[IF k <= q THEN k ELSE k - 1]
  <1> DEFINE a == SubSeq(t, 1, q)
             c == SubSeq(t, q + 1, Len(t))
             b == a \o <<x>>
             u == b \o c
  <1>1. q \in Nat /\ Len(t) \in Nat /\ q <= Len(t) /\ DOMAIN t = 1 .. Len(t)
    OBVIOUS
  <1>2. a \in Seq(Item) /\ Len(a) = q /\ \A k \in 1 .. q : a[k] = t[k]
    BY <1>1, SubSeqProperties
  <1>3. c \in Seq(Item) /\ Len(c) = Len(t) - q /\ \A k \in 1 .. Len(t) - q : c[k] = t[q + k]
    <2> DEFINE o == q + 1
               l == Len(t)
    <2>1. o \in 1 .. l + 1 /\ l \in Nat /\ o = q + 1
      BY <1>1
    <2>2. \A k \in o .. l : t[k] \in Item
      BY <1>1
    <2> HIDE DEF o, l
    <2>3. /\ SubSeq(t, o, l) \in Seq(Item) /\ Len(SubSeq(t, o, l)) = l - q
          /\ \A k \in 1 .. l - q : SubSeq(t, o, l)[k] = t[q + k]
      BY <1>1, <2>1, <2>2, SubSeqProperties
    <2> QED BY <2>3 DEF o, l
  <1> HIDE DEF a, c
  <1>4. /\ b \in Seq(Item) /\ Len(b) = q + 1
        /\ \A k \in 1 .. q : b[k] = t[k]
        /\ b[q + 1] = x
    <2>1. /\ <<x>> \in Seq(Item) /\ Len(<<x>>) = 1 /\ <<x>>[1] = x /\ 1 \in 1 .. 1
      OBVIOUS
    <2> DEFINE y == <<x>>
    <2>2. y \in Seq(Item) /\ Len(y) = 1 /\ y[1] = x
      BY <2>1
    <2> HIDE DEF y
    <2> DEFINE d == a \o y
    <2>3. /\ d \in Seq(Item) /\ Len(d) = Len(a) + Len(y)
          /\ \A k \in 1 .. Len(a) : d[k] = a[k]
          /\ \A k \in 1 .. Len(y) : d[Len(a) + k] = y[k]
      <3>1. a \in Seq(Item) /\ y \in Seq(Item)
        BY <1>2, <2>2
      <3> QED BY <3>1
    <2> HIDE DEF d
    <2>4. d[q + 1] = x
      <3>1. d[Len(a) + 1] = y[1]
        BY <2>2, <2>3
      <3> QED BY <1>2, <2>2, <3>1
    <2>5. d \in Seq(Item) /\ Len(d) = q + 1 /\ \A k \in 1 .. q : d[k] = t[k]
      BY <1>2, <2>2, <2>3
    <2> QED BY <2>4, <2>5 DEF d, y
  <1> HIDE DEF b
  <1>5. /\ u \in Seq(Item) /\ Len(u) = Len(b) + Len(c)
        /\ \A k \in 1 .. Len(b) : u[k] = b[k]
        /\ \A k \in 1 .. Len(c) : u[Len(b) + k] = c[k]
    <2>1. b \in Seq(Item) /\ c \in Seq(Item)
      BY <1>3, <1>4
    <2> QED BY <2>1
  <1> HIDE DEF u
  <1>6. Len(u) = Len(t) + 1
    BY <1>1, <1>3, <1>4, <1>5
  <1>7. ASSUME NEW k \in 1 .. Len(t) + 1
        PROVE  u[k] = IF k = q + 1 THEN x ELSE t[IF k <= q THEN k ELSE k - 1]
    <2>1. CASE k <= q
      BY <1>1, <1>4, <1>5, <2>1
    <2>2. CASE k = q + 1
      BY <1>1, <1>4, <1>5, <2>2
    <2>3. CASE k > q + 1
      <3> DEFINE j == k - (q + 1)
      <3>1. j \in 1 .. Len(t) - q /\ k = (q + 1) + j /\ q + j = k - 1
        BY <1>1, <2>3
      <3> HIDE DEF j
      <3>2. u[(q + 1) + j] = c[j] /\ c[j] = t[q + j]
        BY <1>3, <1>4, <1>5, <3>1
      <3>3. k # q + 1 /\ ~ (k <= q)
        BY <1>1, <2>3
      <3> QED BY <3>1, <3>2, <3>3
    <2> QED BY <1>1, <2>1, <2>2, <2>3
  <1> QED BY <1>5, <1>6, <1>7 DEF u, b, a, c

\* What Move makes of the items.
LEMMA MovedItems ==
    ASSUME NEW s, NEW M, NEW n, ItemsOK(s, M, n), NEW p \in DOMAIN s,
           NEW t \in Seq(Item), Len(t) = Len(s) - 1,
           \A k \in 1 .. Len(s) - 1 : t[k] = s[IF k < p THEN k ELSE k + 1],
           NEW q \in 0 .. Len(t)
    PROVE  ItemsOK(SubSeq(t, 1, q) \o <<s[p]>> \o SubSeq(t, q + 1, Len(t)), M, n)
  <1> DEFINE u == SubSeq(t, 1, q) \o <<s[p]>> \o SubSeq(t, q + 1, Len(t))
             g == [k \in 1 .. Len(s) |-> IF k <= q THEN k ELSE k - 1]
             f == [k \in 1 .. Len(s) |-> IF k = q + 1 THEN p ELSE IF g[k] < p THEN g[k] ELSE g[k] + 1]
  <1>1. /\ Len(s) \in Nat /\ p \in 1 .. Len(s) /\ DOMAIN s = 1 .. Len(s) /\ s[p] \in Item
        /\ q \in Nat /\ q <= Len(s) - 1
    BY ItemFields DEF ItemsOK
  <1>2. /\ u \in Seq(Item) /\ Len(u) = Len(t) + 1
        /\ \A k \in 1 .. Len(t) + 1 : u[k] = IF k = q + 1 THEN s[p] ELSE t[IF k <= q THEN k ELSE k - 1]
    <2> DEFINE x == s[p]
    <2>1. x \in Item
      BY <1>1
    <2> HIDE DEF x
    <2>2. LET v == SubSeq(t, 1, q) \o <<x>> \o SubSeq(t, q + 1, Len(t))
          IN  /\ v \in Seq(Item) /\ Len(v) = Len(t) + 1
              /\ \A k \in 1 .. Len(t) + 1 : v[k] = IF k = q + 1 THEN x ELSE t[IF k <= q THEN k ELSE k - 1]
      BY <2>1, InsertedItem
    <2> QED BY <2>2, Zenon DEF x
  <1> HIDE DEF u
  <1>3. Len(u) = Len(s) /\ DOMAIN u = 1 .. Len(s)
    BY <1>1, <1>2
  <1>4. \A k \in 1 .. Len(s) : k # q + 1 => g[k] \in 1 .. Len(s) - 1 /\ u[k] = t[g[k]]
    BY <1>1, <1>2
  <1>5. ASSUME NEW k \in 1 .. Len(s) PROVE f[k] \in 1 .. Len(s) /\ u[k] = s[f[k]]
    <2>1. CASE k = q + 1
      <3>1. f[k] = p /\ k \in 1 .. Len(t) + 1
        BY <1>1, <2>1
      <3> QED BY <1>1, <1>2, <2>1, <3>1
    <2>2. CASE k # q + 1
      <3> DEFINE j == g[k]
      <3>1. j \in 1 .. Len(s) - 1 /\ u[k] = t[j]
        BY <1>4, <2>2
      <3>2. f[k] = IF j < p THEN j ELSE j + 1
        BY <2>2
      <3> HIDE DEF j, f, g
      <3>3. t[j] = s[IF j < p THEN j ELSE j + 1]
        BY <3>1
      <3> QED BY <1>1, <3>1, <3>2, <3>3
    <2> QED BY <2>1, <2>2
  <1>6. \A k, l \in 1 .. Len(s) : f[k] = f[l] => k = l
    BY <1>1
  <1> HIDE DEF f, g
  <1>7. ItemsOK(u, M, n)
    <2>1. \A k \in DOMAIN u : f[k] \in DOMAIN s /\ u[k] = s[f[k]]
      BY <1>1, <1>3, <1>5
    <2>2. \A k, l \in DOMAIN u : f[k] = f[l] => k = l
      BY <1>3, <1>6
    <2>3. u \in Seq(Item)
      BY <1>2
    <2> QED BY <2>1, <2>2, <2>3 DEF ItemsOK
  <1> QED BY <1>7 DEF u

LEMMA RemainingItems ==
    ASSUME NEW s, NEW M, NEW n, ItemsOK(s, M, n), NEW p \in DOMAIN s,
           NEW t \in Seq(Item), Len(t) = Len(s) - 1,
           \A k \in 1 .. Len(s) - 1 : t[k] = s[IF k < p THEN k ELSE k + 1]
    PROVE  ItemsOK(t, M, n)
  <1> DEFINE f == [k \in 1 .. Len(s) - 1 |-> IF k < p THEN k ELSE k + 1]
  <1>1. Len(s) \in Nat /\ p \in 1 .. Len(s) /\ DOMAIN s = 1 .. Len(s)
    BY DEF ItemsOK
  <1>2. DOMAIN t = 1 .. Len(s) - 1
    BY <1>1
  <1>3. \A k \in DOMAIN t : f[k] \in DOMAIN s /\ t[k] = s[f[k]]
    BY <1>1, <1>2
  <1>4. \A k, l \in DOMAIN t : f[k] = f[l] => k = l
    BY <1>1, <1>2
  <1> HIDE DEF f
  <1> QED BY <1>3, <1>4, PickedItems

\* A window of the tables.
WindowOK(w) ==
    /\ w \in 1 .. serial.window - 1
    /\ DOMAIN windows[w] = {"name", "items"}
    /\ StorableName(windows[w].name)
    /\ ItemsOK(windows[w].items, Rows(media), serial.item)

LEMMA TablesAre ==
    TablesInv <=>
       /\ serial \in [window : Nat \ {0}, media : Nat \ {0}, item : Nat \ {0}]
       /\ wipes \in Nat
       /\ \A w \in Rows(windows) : WindowOK(w)
       /\ \A v, w \in Rows(windows) : windows[v].name = windows[w].name => v = w
       /\ \A m \in Rows(media) : m \in 1 .. serial.media - 1 /\ StorableMedia(media[m])
  BY DEF TablesInv, WindowOK

\* The items of a window.
LEMMA ItemsOfWindow ==
    ASSUME TablesInv, NEW w
    PROVE  ItemsOK(Items(w), Rows(media), serial.item) /\ (w \in Rows(windows) => Items(w) = windows[w].items)
  <1>1. CASE w \in Rows(windows)
    BY <1>1 DEF TablesInv, Items
  <1>2. CASE w \notin Rows(windows)
    <2>1. Items(w) = <<>>
      BY <1>2 DEF Items
    <2> QED BY <1>2, <2>1 DEF ItemsOK
  <1> QED BY <1>1, <1>2

LEMMA InsertWindowKeeps ==
    ASSUME TablesInv, NEW name, StorableName(name), ~ NameTaken(name), InsertWindow(name)
    PROVE  /\ TablesInv' /\ Grows /\ wipes' = wipes /\ Rows(media)' = Rows(media)
           /\ Rows(windows)' = Rows(windows) \cup {serial.window}
           /\ windows'[serial.window].name = name
           /\ \A w \in Rows(windows) : windows'[w] = windows[w]
  <1> DEFINE n == serial.window
             row == [name |-> name, items |-> <<>>]
  <1>1. /\ n \in Nat \ {0} /\ serial.media \in Nat \ {0} /\ serial.item \in Nat \ {0}
        /\ serial'.window = n + 1 /\ serial'.media = serial.media /\ serial'.item = serial.item
        /\ serial' \in [window : Nat \ {0}, media : Nat \ {0}, item : Nat \ {0}]
    BY DEF TablesInv, InsertWindow
  <1>2. n \notin Rows(windows) /\ n \in 1 .. serial'.window - 1
    BY <1>1 DEF TablesInv
  <1>3. row.name = name /\ row.items = <<>> /\ DOMAIN row = {"name", "items"}
    OBVIOUS
  <1> HIDE DEF row
  <1>4. windows' = With(windows, n, row) /\ UNCHANGED <<media, wipes>>
    BY DEF InsertWindow, row
  <1> HIDE DEF n
  <1>5. /\ Rows(windows)' = Rows(windows) \cup {n} /\ windows'[n] = row
        /\ \A w \in Rows(windows) : windows'[w] = windows[w]
    <2>1. /\ DOMAIN windows' = DOMAIN windows \cup {n} /\ windows'[n] = row
          /\ \A w \in DOMAIN windows \ {n} : windows'[w] = windows[w]
      BY <1>4 DEF With
    <2> QED BY <1>2, <2>1 DEF Rows
  <1>6. ItemsOK(<<>>, Rows(media)', serial'.item)
    BY DEF ItemsOK
  <1>7. ASSUME NEW w \in Rows(windows)' PROVE WindowOK(w)'
    <2>1. CASE w = n
      <3>1. windows'[w] = row
        BY <1>5, <2>1
      <3>2. StorableName(windows'[w].name) /\ DOMAIN windows'[w] = {"name", "items"}
        BY <1>3, <3>1
      <3>3. ItemsOK(windows'[w].items, Rows(media)', serial'.item)
        BY <1>3, <1>6, <3>1
      <3>4. w \in 1 .. serial'.window - 1
        BY <1>2, <2>1
      <3> QED BY <3>2, <3>3, <3>4 DEF WindowOK
    <2>2. CASE w \in Rows(windows)
      <3>1. windows'[w] = windows[w] /\ WindowOK(w)
        BY <1>5, <2>2 DEF TablesInv, WindowOK
      <3>2. Rows(media)' = Rows(media)
        BY <1>4 DEF Rows
      <3>3. w \in 1 .. serial'.window - 1
        BY <1>1, <3>1 DEF WindowOK, n
      <3> QED BY <1>1, <3>1, <3>2, <3>3 DEF WindowOK
    <2> QED BY <1>5, <2>1, <2>2
  <1>8. ASSUME NEW v \in Rows(windows)', NEW w \in Rows(windows)', windows'[v].name = windows'[w].name
        PROVE  v = w
    <2>1. \A u \in Rows(windows) : windows[u].name # name
      BY DEF NameTaken
    <2>2. CASE v \in Rows(windows) /\ w \in Rows(windows)
      BY <1>5, <1>8, <2>2 DEF TablesInv
    <2> QED BY <1>3, <1>5, <1>8, <2>1, <2>2
  <1>9. \A m \in Rows(media)' : m \in 1 .. serial'.media - 1 /\ StorableMedia(media'[m])
    BY <1>1, <1>4 DEF TablesInv, Rows
  <1>10. wipes' \in Nat
    BY <1>4 DEF TablesInv
  <1>11. TablesInv'
    BY <1>1, <1>7, <1>8, <1>9, <1>10 DEF TablesInv, WindowOK
  <1> QED BY <1>3, <1>4, <1>5, <1>11 DEF Grows, NamesKept, Rows, n

LEMMA InsertMediaKeeps ==
    ASSUME TablesInv, NEW in, StorableMedia(in), InsertMedia(in)
    PROVE  /\ TablesInv' /\ Grows /\ wipes' = wipes /\ windows' = windows
           /\ Rows(media)' = Rows(media) \cup {serial.media} /\ serial.media \in Nat
  <1> DEFINE n == serial.media
  <1>1. /\ n \in Nat \ {0} /\ serial.window \in Nat \ {0} /\ serial.item \in Nat \ {0}
        /\ serial'.media = n + 1 /\ serial'.window = serial.window /\ serial'.item = serial.item
        /\ serial' \in [window : Nat \ {0}, media : Nat \ {0}, item : Nat \ {0}]
    BY DEF TablesInv, InsertMedia
  <1>2. n \notin Rows(media) /\ n \in 1 .. serial'.media - 1
    BY <1>1 DEF TablesInv
  <1>3. media' = With(media, n, in) /\ UNCHANGED <<windows, wipes>>
    BY DEF InsertMedia
  <1> HIDE DEF n
  <1>4. /\ Rows(media)' = Rows(media) \cup {n} /\ media'[n] = in
        /\ \A m \in Rows(media) : media'[m] = media[m]
    <2>1. /\ DOMAIN media' = DOMAIN media \cup {n} /\ media'[n] = in
          /\ \A m \in DOMAIN media \ {n} : media'[m] = media[m]
      BY <1>3 DEF With
    <2> QED BY <1>2, <2>1 DEF Rows
  <1>5. \A m \in Rows(media)' : m \in 1 .. serial'.media - 1 /\ StorableMedia(media'[m])
    <2> TAKE m \in Rows(media)'
    <2>1. CASE m = n
      BY <1>2, <1>4, <2>1
    <2>2. CASE m \in Rows(media)
      <3>1. m \in 1 .. n - 1 /\ StorableMedia(media[m]) /\ media'[m] = media[m]
        BY <1>4, <2>2 DEF TablesInv, n
      <3> QED BY <1>1, <3>1
    <2> QED BY <1>4, <2>1, <2>2
  <1>6. ASSUME NEW w \in Rows(windows)' PROVE WindowOK(w)'
    <2>1. w \in Rows(windows) /\ windows'[w] = windows[w]
      BY <1>3 DEF Rows
    <2>2. WindowOK(w)
      BY <2>1 DEF TablesInv, WindowOK
    <2>3. ItemsOK(windows[w].items, Rows(media)', serial'.item)
      BY <1>1, <1>4, <2>2, ItemsGrow DEF WindowOK
    <2> QED BY <1>1, <2>1, <2>2, <2>3 DEF WindowOK
  <1>7. \A v, w \in Rows(windows)' : windows'[v].name = windows'[w].name => v = w
    BY <1>3 DEF TablesInv, Rows
  <1>8. wipes' \in Nat
    BY <1>3 DEF TablesInv
  <1>9. TablesInv'
    BY <1>1, <1>5, <1>6, <1>7, <1>8 DEF TablesInv, WindowOK
  <1> QED BY <1>1, <1>3, <1>4, <1>9 DEF Grows, NamesKept, Rows, n

\* The items of one window change.
LEMMA SetItemsKeeps ==
    ASSUME TablesInv, NEW w \in Rows(windows), NEW items, SetItems(w, items),
           serial' = serial \/ (serial' = [serial EXCEPT !.item = @ + 1]),
           ItemsOK(items, Rows(media), serial'.item), UNCHANGED <<media, wipes>>
    PROVE  /\ TablesInv' /\ Grows /\ wipes' = wipes /\ Rows(media)' = Rows(media)
           /\ Rows(windows)' = Rows(windows)
           /\ \A v \in Rows(windows) : windows'[v].name = windows[v].name
  <1>1. /\ serial.item \in Nat /\ serial'.item \in Nat \ {0} /\ serial.item <= serial'.item
        /\ serial'.media = serial.media /\ serial'.window = serial.window
        /\ serial' \in [window : Nat \ {0}, media : Nat \ {0}, item : Nat \ {0}]
    BY DEF TablesInv
  <1>2. windows' = [windows EXCEPT ![w] = [windows[w] EXCEPT !.items = items]]
    BY DEF SetItems
  <1>3. Rows(windows)' = Rows(windows) /\ Rows(media)' = Rows(media)
    BY <1>2 DEF Rows
  <1>4. \A v \in Rows(windows) \ {w} : windows'[v] = windows[v]
    BY <1>2
  <1>5. DOMAIN windows'[w] = {"name", "items"} /\ windows'[w].name = windows[w].name /\ windows'[w].items = items
    BY <1>2 DEF TablesInv, Rows
  <1>6. ASSUME NEW v \in Rows(windows)' PROVE WindowOK(v)' /\ windows'[v].name = windows[v].name
    <2>1. WindowOK(v)
      BY <1>3 DEF TablesInv, WindowOK
    <2>2. CASE v = w
      BY <1>1, <1>3, <1>5, <2>1, <2>2 DEF WindowOK
    <2>3. CASE v # w
      <3>1. windows'[v] = windows[v]
        BY <1>3, <1>4, <2>3
      <3>2. ItemsOK(windows[v].items, Rows(media)', serial'.item)
        BY <1>1, <1>3, <2>1, ItemsGrow DEF WindowOK
      <3> QED BY <1>1, <2>1, <3>1, <3>2 DEF WindowOK
    <2> QED BY <2>2, <2>3
  <1>7. \A u, v \in Rows(windows)' : windows'[u].name = windows'[v].name => u = v
    BY <1>3, <1>6 DEF TablesInv
  <1>8. \A m \in Rows(media)' : m \in 1 .. serial'.media - 1 /\ StorableMedia(media'[m])
    BY <1>1 DEF TablesInv, Rows
  <1>9. wipes' \in Nat
    BY DEF TablesInv
  <1>10. TablesInv'
    BY <1>1, <1>6, <1>7, <1>8, <1>9 DEF TablesInv, WindowOK
  <1> QED BY <1>3, <1>6, <1>10 DEF Grows, NamesKept, Rows

LEMMA MediaIds == ASSUME TablesInv PROVE Rows(media) \subseteq Nat /\ Rows(windows) \subseteq Nat
  BY DEF TablesInv

LEMMA AppendItemKeeps ==
    ASSUME TablesInv, NEW w \in Rows(windows), NEW m \in Rows(media), AppendItem(w, m)
    PROVE  /\ TablesInv' /\ Grows /\ wipes' = wipes /\ Rows(media)' = Rows(media)
           /\ Rows(windows)' = Rows(windows)
           /\ \A v \in Rows(windows) : windows'[v].name = windows[v].name
  <1> DEFINE n == serial.item
             items == Append(Items(w), [id |-> n, media |-> m])
  <1>1. n \in Nat /\ serial' = [serial EXCEPT !.item = @ + 1] /\ serial'.item = n + 1
    BY DEF TablesInv, AppendItem
  <1>2. ItemsOK(Items(w), Rows(media), n)
    BY ItemsOfWindow
  <1>3. SetItems(w, items) /\ UNCHANGED <<media, wipes>>
    BY DEF AppendItem
  <1> HIDE DEF n
  <1>4. ItemsOK(items, Rows(media), n + 1)
    BY <1>1, <1>2, MediaIds, AppendedItems
  <1> HIDE DEF items
  <1> QED BY <1>1, <1>3, <1>4, SetItemsKeeps

\* An item of a window is in its place.
LEMMA Placed ==
    ASSUME TablesInv, NEW w, NEW item, HasItem(w, item)
    PROVE  /\ w \in Rows(windows) /\ Place(Items(w), item) \in DOMAIN Items(w)
           /\ Items(w) \in Seq(Item)
  <1>1. PICK k \in DOMAIN Items(w) : Items(w)[k].id = item
    BY DEF HasItem
  <1>2. Place(Items(w), item) \in DOMAIN Items(w)
    BY <1>1 DEF Place
  <1>3. w \in Rows(windows)
    <2> SUFFICES ASSUME w \notin Rows(windows) PROVE FALSE
      OBVIOUS
    <2>1. Items(w) = <<>>
      BY DEF Items
    <2> QED BY <1>1, <2>1
  <1>4. Items(w) \in Seq(Item)
    BY ItemsOfWindow DEF ItemsOK
  <1> QED BY <1>2, <1>3, <1>4

\* What is left without it.
LEMMA WithoutIs ==
    ASSUME TablesInv, NEW w, NEW item, HasItem(w, item)
    PROVE  LET s == Items(w)
               p == Place(s, item)
               t == Without(s, item)
           IN  /\ t \in Seq(Item) /\ Len(t) = Len(s) - 1
               /\ \A k \in 1 .. Len(s) - 1 : t[k] = s[IF k < p THEN k ELSE k + 1]
  <1> DEFINE s == Items(w)
             p == Place(s, item)
  <1>1. s \in Seq(Item) /\ p \in DOMAIN s
    BY Placed
  <1>2. Without(s, item) = SubSeq(s, 1, p - 1) \o SubSeq(s, p + 1, Len(s))
    BY DEF Without
  <1> HIDE DEF s, p
  <1>3. LET t == SubSeq(s, 1, p - 1) \o SubSeq(s, p + 1, Len(s))
        IN  /\ t \in Seq(Item) /\ Len(t) = Len(s) - 1
            /\ \A k \in 1 .. Len(s) - 1 : t[k] = s[IF k < p THEN k ELSE k + 1]
    BY <1>1, WithoutItem
  <1>4. /\ Without(s, item) \in Seq(Item) /\ Len(Without(s, item)) = Len(s) - 1
        /\ \A k \in 1 .. Len(s) - 1 : Without(s, item)[k] = s[IF k < p THEN k ELSE k + 1]
    BY <1>2, <1>3
  <1> QED BY <1>4 DEF s, p

LEMMA RemoveItemKeeps ==
    ASSUME TablesInv, NEW w, NEW item, HasItem(w, item), RemoveItem(w, item)
    PROVE  /\ TablesInv' /\ Grows /\ wipes' = wipes /\ Rows(media)' = Rows(media)
           /\ Rows(windows)' = Rows(windows)
           /\ \A v \in Rows(windows) : windows'[v].name = windows[v].name
  <1> DEFINE s == Items(w)
             p == Place(s, item)
             t == Without(s, item)
  <1>1. w \in Rows(windows) /\ p \in DOMAIN s /\ ItemsOK(s, Rows(media), serial.item)
    BY Placed, ItemsOfWindow
  <1>2. /\ t \in Seq(Item) /\ Len(t) = Len(s) - 1
        /\ \A k \in 1 .. Len(s) - 1 : t[k] = s[IF k < p THEN k ELSE k + 1]
    BY WithoutIs
  <1>3. SetItems(w, t) /\ UNCHANGED <<media, serial, wipes>>
    BY DEF RemoveItem
  <1> HIDE DEF s, p, t
  <1>4. ItemsOK(t, Rows(media), serial'.item)
    BY <1>1, <1>2, <1>3, RemainingItems
  <1> QED BY <1>1, <1>3, <1>4, SetItemsKeeps

LEMMA MoveItemKeeps ==
    ASSUME TablesInv, NEW w, NEW item, HasItem(w, item), NEW target \in Nat, MoveItem(w, item, target)
    PROVE  /\ TablesInv' /\ Grows /\ wipes' = wipes /\ Rows(media)' = Rows(media)
           /\ Rows(windows)' = Rows(windows)
           /\ \A v \in Rows(windows) : windows'[v].name = windows[v].name
  <1> DEFINE s == Items(w)
             p == Place(s, item)
             t == Without(s, item)
             q == IF target > Len(t) THEN Len(t) ELSE target
             u == SubSeq(t, 1, q) \o <<s[p]>> \o SubSeq(t, q + 1, Len(t))
  <1>1. w \in Rows(windows) /\ p \in DOMAIN s /\ ItemsOK(s, Rows(media), serial.item)
    BY Placed, ItemsOfWindow
  <1>2. /\ t \in Seq(Item) /\ Len(t) = Len(s) - 1
        /\ \A k \in 1 .. Len(s) - 1 : t[k] = s[IF k < p THEN k ELSE k + 1]
    BY WithoutIs
  <1>3. SetItems(w, u) /\ UNCHANGED <<media, serial, wipes>>
    BY Zenon DEF MoveItem
  <1> HIDE DEF s, p, t
  <1>4. q \in 0 .. Len(t)
    <2>1. Len(t) \in Nat
      BY <1>2
    <2> QED BY <2>1
  <1> HIDE DEF q
  <1>5. ItemsOK(u, Rows(media), serial.item)
    BY <1>1, <1>2, <1>4, MovedItems
  <1> HIDE DEF u
  <1> QED BY <1>1, <1>3, <1>5, SetItemsKeeps

\* A table is cleared; that of the media only when nothing shows them.
LEMMA DeleteAllKeeps ==
    ASSUME TablesInv, NEW table, DeleteAll(table), table = "media" => \A m \in Rows(media) : ~ InUse(m)
    PROVE  /\ TablesInv' /\ Grows /\ wipes' = wipes + 1
           /\ table = "windows" => Rows(windows)' = {}
           /\ table = "media" => Rows(windows)' = Rows(windows)
  <1>1. serial' = serial /\ wipes' = wipes + 1 /\ wipes' \in Nat
    BY DEF DeleteAll, TablesInv
  <1>2. CASE table = "playlist_items"
    <2>1. windows' = [w \in Rows(windows) |-> [windows[w] EXCEPT !.items = <<>>]] /\ UNCHANGED media
      BY <1>2 DEF DeleteAll
    <2>2. Rows(windows)' = Rows(windows) /\ Rows(media)' = Rows(media)
      BY <2>1 DEF Rows
    <2>3. ASSUME NEW w \in Rows(windows)'
          PROVE  WindowOK(w)' /\ windows'[w].name = windows[w].name
      <3>1. WindowOK(w) /\ windows'[w] = [windows[w] EXCEPT !.items = <<>>]
        BY <2>1, <2>2 DEF TablesInv, WindowOK
      <3>2. /\ DOMAIN windows'[w] = {"name", "items"} /\ windows'[w].name = windows[w].name
            /\ windows'[w].items = <<>>
        BY <3>1 DEF WindowOK
      <3>3. ItemsOK(windows'[w].items, Rows(media)', serial'.item)
        BY <3>2 DEF ItemsOK
      <3> QED BY <1>1, <3>1, <3>2, <3>3 DEF WindowOK
    <2>4. \A u, v \in Rows(windows)' : windows'[u].name = windows'[v].name => u = v
      BY <2>2, <2>3 DEF TablesInv
    <2>5. \A m \in Rows(media)' : m \in 1 .. serial'.media - 1 /\ StorableMedia(media'[m])
      BY <1>1, <2>1 DEF TablesInv, Rows
    <2>6. TablesInv'
      BY <1>1, <2>3, <2>4, <2>5 DEF TablesInv, WindowOK
    <2> QED BY <1>1, <1>2, <2>6 DEF Grows
  <1>3. CASE table = "windows"
    <2>1. windows' = <<>> /\ UNCHANGED media
      BY <1>3 DEF DeleteAll
    <2>2. Rows(windows)' = {}
      BY <2>1 DEF Rows
    <2>3. \A m \in Rows(media)' : m \in 1 .. serial'.media - 1 /\ StorableMedia(media'[m])
      BY <1>1, <2>1 DEF TablesInv, Rows
    <2>4. TablesInv'
      BY <1>1, <2>2, <2>3 DEF TablesInv
    <2> QED BY <1>1, <1>3, <2>2, <2>4 DEF Grows
  <1>4. CASE table = "media"
    <2>1. media' = <<>> /\ UNCHANGED windows /\ \A m \in Rows(media) : ~ InUse(m)
      BY <1>4 DEF DeleteAll
    <2>2. Rows(media)' = {} /\ Rows(windows)' = Rows(windows)
      BY <2>1 DEF Rows
    <2>3. ASSUME NEW w \in Rows(windows)' PROVE WindowOK(w)'
      <3>1. WindowOK(w) /\ w \in Rows(windows)
        BY <2>2 DEF TablesInv, WindowOK
      <3>2. \A k \in DOMAIN windows[w].items : windows[w].items[k].media \in Rows(media)
        BY <3>1 DEF WindowOK, ItemsOK
      <3>3. Items(w) = windows[w].items
        BY <3>1 DEF Items
      <3>4. \A k \in DOMAIN windows[w].items : FALSE
        BY <2>1, <3>1, <3>2, <3>3 DEF InUse
      <3>5. ItemsOK(windows[w].items, Rows(media)', serial.item)
        BY <3>1, <3>4 DEF WindowOK, ItemsOK
      <3> QED BY <1>1, <2>1, <3>1, <3>5 DEF WindowOK
    <2>4. \A u, v \in Rows(windows)' : windows'[u].name = windows'[v].name => u = v
      BY <2>1 DEF TablesInv, Rows
    <2>5. TablesInv'
      BY <1>1, <2>2, <2>3, <2>4 DEF TablesInv, WindowOK
    <2> QED BY <1>1, <1>4, <2>2, <2>5 DEF Grows
  <1> QED BY <1>2, <1>3, <1>4 DEF DeleteAll

LEMMA TablesStay ==
    ASSUME TablesInv, UNCHANGED tables PROVE TablesInv' /\ Grows /\ wipes' = wipes /\ windows' = windows /\ media' = media
  <1>1. windows' = windows /\ media' = media /\ serial' = serial /\ wipes' = wipes
    BY DEF tables
  <1>2. TablesInv'
    BY <1>1 DEF TablesInv, Rows
  <1>3. Grows
    BY <1>1 DEF Grows, NamesKept, Rows
  <1> QED BY <1>1, <1>2, <1>3

-----------------------------------------------------------------------------
(* A process that boots, and the tables it finds.                          *)

\* Where the loops of Migrate and of seed.Run are, and what a process has stored
\* so far.
Loops(p) ==
    /\ p.pc \in {"off", "done", "failed", "connect", "lock", "check", "apply", "unlock", "count",
                 "restore", "serving", "draining", "overrun"} \cup Wiping \cup Seeding
    /\ p.pc = "apply" => p.step <= Migrations
    /\ p.pc \notin {"check", "apply"} \cup Seeding => p.step = 0
    /\ p.pc \notin Seeding => p.library = <<>>
    /\ p.library \in Seq(Nat)
    /\ p.pc = "seed media" => p.step \in 1 .. Len(Library) /\ Len(p.library) = p.step - 1
    /\ p.pc \in {"seed window", "seed item"} =>
          p.step \in 1 .. Len(Layout) /\ Len(p.library) = Len(Library)
    /\ IF p.pc = "seed item" THEN p.row \in 1 .. Len(Layout[p.step].items) ELSE p.row = 0

\* The windows of W have names of the first n of the layout.
NamesUpTo(W, n) == \A w \in DOMAIN W : \E k \in 1 .. n : W[w].name = Layout[k].name

\* A process finds the tables W and M as nobody else has touched them.
Alone(p, W, M) ==
    /\ p.pc \in {"wipe media", "seed media"} \/ (p.pc = "count" /\ p.kind = "force") => DOMAIN W = {}
    /\ p.pc = "seed window" => NamesUpTo(W, p.step - 1)
    /\ p.pc = "seed item" => NamesUpTo(W, p.step) /\ p.window \in DOMAIN W
    /\ p.pc \in Seeding => \A k \in DOMAIN p.library : p.library[k] \in M
    /\ p.pc = "failed" => p.faulted

Fit(p, W, M) == Loops(p) /\ (~ p.crowded => Alone(p, W, M))

BInv ==
    /\ Len(applied) <= Migrations
    /\ holder \in Instances \cup {Nobody}
    /\ \A i \in Instances : Fit(inst[i], windows, Rows(media))

\* A process that does not care what the tables hold.
Aloof(p) == p.pc \notin Wiping \cup Seeding /\ ~ (p.pc = "count" /\ p.kind = "force")

LEMMA AloofFits ==
    ASSUME NEW p, NEW W, NEW M, NEW V, NEW N, Aloof(p)
    PROVE  (Fit(p, W, M) => Fit(p, V, N)) /\ (p.pc # "failed" => Alone(p, W, M))
  BY DEF Fit, Alone, Aloof, Wiping, Seeding

LEMMA CrowdedFits ==
    ASSUME NEW p, DOMAIN p = Fields, Loops(p), NEW V, NEW N
    PROVE  Fit([p EXCEPT !.crowded = TRUE], V, N)
  <1> DEFINE q == [p EXCEPT !.crowded = TRUE]
  <1>1. /\ q.pc = p.pc /\ q.kind = p.kind /\ q.step = p.step /\ q.row = p.row /\ q.library = p.library
        /\ q.crowded
    BY DEF Fields
  <1> HIDE DEF q
  <1>2. Loops(q)
    BY <1>1 DEF Loops
  <1>3. Fit(q, V, N)
    BY <1>1, <1>2 DEF Fit
  <1> QED BY <1>3 DEF q

\* Process i becomes another, and the tables stay.
LEMMA OneFits ==
    ASSUME IInv, BInv, NEW i \in Instances, NEW p, inst' = [inst EXCEPT ![i] = p],
           UNCHANGED tables, Fit(p, windows, Rows(media)),
           Len(applied') <= Migrations, holder' \in Instances \cup {Nobody}
    PROVE  BInv'
  <1>1. windows' = windows /\ Rows(media)' = Rows(media)
    BY DEF tables, Rows
  <1>2. inst'[i] = p /\ \A j \in Instances \ {i} : inst'[j] = inst[j]
    BY DEF IInv, Shape
  <1>3. \A j \in Instances : Fit(inst'[j], windows', Rows(media)')
    BY <1>1, <1>2 DEF BInv
  <1> QED BY <1>3 DEF BInv, Rows

LEMMA FailedFits ==
    ASSUME NEW i, NEW faulted, faulted \/ inst[i].crowded, NEW W, NEW M
    PROVE  Fit(Failed(i, faulted), W, M)
  <1> DEFINE p == Failed(i, faulted)
  <1>1. /\ p.pc = "failed" /\ p.step = 0 /\ p.row = 0 /\ p.library = <<>> /\ p.faulted = faulted
        /\ p.crowded = inst[i].crowded
    BY DEF Failed, NoProcess
  <1> HIDE DEF p
  <1>2. Loops(p)
    BY <1>1 DEF Loops, Seeding
  <1>3. ~ p.crowded => Alone(p, W, M)
    BY <1>1 DEF Alone, Seeding
  <1>4. Fit(p, W, M)
    BY <1>2, <1>3 DEF Fit
  <1> QED BY <1>4 DEF p

LEMMA FailFits ==
    ASSUME IInv, BInv, NEW i \in Instances, NEW faulted, Fail(i, faulted), UNCHANGED tables,
           faulted \/ inst[i].crowded, Len(applied') <= Migrations
    PROVE  BInv'
  <1>1. inst' = [inst EXCEPT ![i] = Failed(i, faulted)] /\ holder' \in Instances \cup {Nobody}
    BY DEF Fail, Proceed, BInv
  <1>2. Fit(Failed(i, faulted), windows, Rows(media))
    BY FailedFits
  <1> QED BY <1>1, <1>2, OneFits

\* Process i writes to the tables, and those that are beside it are crowded.
LEMMA WritesFit ==
    ASSUME IInv, BInv, NEW i \in Instances, NEW process, Writes(i, process),
           DOMAIN process = Fields, Loops(process),
           ~ process.crowded /\ Beside(i) = {} => Alone(process, windows', Rows(media)')
    PROVE  BInv'
  <1> DEFINE Next1(j, lost) == IF j # i THEN inst[j] ELSE IF lost THEN Failed(i, TRUE) ELSE process
             Noted(j) == j \in Beside(i) \/ (j = i /\ Beside(i) # {})
             W == windows'
             M == Rows(media)'
  <1>1. PICK lost : inst' = [j \in Instances |-> IF Noted(j) THEN [Next1(j, lost) EXCEPT !.crowded = TRUE]
                                                ELSE Next1(j, lost)]
    BY DEF Writes
  <1>2. UNCHANGED <<holder, recorded, applied>>
    BY DEF Writes
  <1>3. DOMAIN Failed(i, TRUE) = Fields /\ Fit(Failed(i, TRUE), W, M)
    BY FailedIsOut, FailedFits
  <1>4. ASSUME NEW j \in Instances PROVE Fit(inst'[j], W, M)
    <2> DEFINE p == Next1(j, lost)
    <2>1. DOMAIN p = Fields /\ Loops(p)
      <3>1. CASE j # i
        BY <3>1 DEF IInv, Shape, BInv, Fit
      <3>2. CASE j = i /\ lost
        BY <1>3, <3>2 DEF Fit
      <3>3. CASE j = i /\ ~ lost
        BY <3>3
      <3> QED BY <3>1, <3>2, <3>3
    <2>2. CASE Noted(j)
      <3>1. inst'[j] = [p EXCEPT !.crowded = TRUE]
        BY <1>1, <2>2
      <3> HIDE DEF p
      <3> QED BY <2>1, <3>1, CrowdedFits
    <2>3. CASE ~ Noted(j)
      <3>1. inst'[j] = p
        BY <1>1, <2>3
      <3>2. CASE j # i
        <4>1. Aloof(inst[j])
          BY <2>3, <3>2 DEF Beside, Aloof, At
        <4>2. Fit(inst[j], W, M)
          BY <4>1, AloofFits DEF BInv
        <4> QED BY <3>1, <3>2, <4>2
      <3>3. CASE j = i /\ lost
        BY <1>3, <3>1, <3>3
      <3>4. CASE j = i /\ ~ lost
        <4>1. p = process /\ Beside(i) = {}
          BY <2>3, <3>4
        <4> QED BY <3>1, <4>1 DEF Fit
      <3> QED BY <3>2, <3>3, <3>4
    <2> QED BY <2>2, <2>3
  <1> QED BY <1>2, <1>4 DEF BInv, Rows

\* A request stores something, in a process that serves.
LEMMA StoredFits ==
    ASSUME IInv, BInv, NEW r, NEW what, NEW handler, Stored(r, what, handler), PoolOpen(req[r].at)
    PROVE  BInv'
  <1> DEFINE W == windows'
             M == Rows(media)'
             Noted(j) == j \in Beside(req[r].at)
  <1>1. /\ inst' = [j \in Instances |-> IF Noted(j) THEN [inst[j] EXCEPT !.crowded = TRUE] ELSE inst[j]]
        /\ UNCHANGED <<holder, recorded, applied>>
    BY DEF Stored
  <1>2. ASSUME NEW j \in Instances PROVE Fit(inst'[j], W, M)
    <2>1. DOMAIN inst[j] = Fields /\ Loops(inst[j])
      BY DEF IInv, Shape, BInv, Fit
    <2>2. CASE Noted(j)
      <3>1. inst'[j] = [inst[j] EXCEPT !.crowded = TRUE]
        BY <1>1, <2>2
      <3> QED BY <2>1, <3>1, CrowdedFits
    <2>3. CASE ~ Noted(j)
      <3>1. inst'[j] = inst[j]
        BY <1>1, <2>3
      <3>2. Aloof(inst[j])
        <4>1. CASE j = req[r].at
          BY <4>1 DEF PoolOpen, Aloof, Wiping, Seeding
        <4>2. CASE j # req[r].at
          BY <2>3, <4>2 DEF Beside, Aloof, At
        <4> QED BY <4>1, <4>2
      <3>3. Fit(inst[j], W, M)
        BY <3>2, AloofFits DEF BInv
      <3> QED BY <3>1, <3>3
    <2> QED BY <2>2, <2>3
  <1> QED BY <1>1, <1>2 DEF BInv, Rows

\* Only where process i is has changed, to a place where the tables do not matter.
LEMMA MovesFit ==
    ASSUME IInv, BInv, NEW i \in Instances, NEW pc,
           inst' = [inst EXCEPT ![i] = [inst[i] EXCEPT !.pc = pc]],
           pc \in {"lock", "unlock", "count", "restore", "done", "serving", "draining", "overrun"}
                    \cup {"wipe items"},
           inst[i].pc \notin {"check", "apply"} \cup Seeding, pc = "count" => inst[i].kind # "force",
           UNCHANGED tables, UNCHANGED applied, holder' \in Instances \cup {Nobody}
    PROVE  BInv'
  <1> DEFINE p == [inst[i] EXCEPT !.pc = pc]
  <1>1. /\ p.pc = pc /\ p.kind = inst[i].kind /\ p.step = inst[i].step /\ p.row = inst[i].row
        /\ p.library = inst[i].library
    BY DEF IInv, Shape, Fields
  <1>2. inst' = [inst EXCEPT ![i] = p]
    OBVIOUS
  <1> HIDE DEF p
  <1>3. Loops(inst[i]) /\ Len(applied) <= Migrations
    BY DEF BInv, Fit
  <1>4. Loops(p)
    BY <1>1, <1>3 DEF Loops, Seeding, Wiping
  <1>5. Alone(p, windows, Rows(media))
    BY <1>1 DEF Alone, Seeding
  <1>6. Fit(p, windows, Rows(media))
    BY <1>4, <1>5 DEF Fit
  <1> QED BY <1>2, <1>3, <1>6, OneFits

LEMMA ConnectFits == ASSUME IInv, BInv, NEW i \in Instances, Connect(i) PROVE BInv'
  <1>1. inst' = [inst EXCEPT ![i] = [inst[i] EXCEPT !.pc = "lock"]]
    BY DEF Connect
  <1>2. UNCHANGED tables /\ UNCHANGED <<holder, applied>> /\ inst[i].pc = "connect"
    BY DEF Connect, At
  <1>3. holder' \in Instances \cup {Nobody} /\ inst[i].pc \notin {"check", "apply"} \cup Seeding
    BY <1>2 DEF BInv, Seeding
  <1> QED BY <1>1, <1>2, <1>3, MovesFit

LEMMA AcquireFits == ASSUME IInv, BInv, NEW i \in Instances, AcquireLock(i) PROVE BInv'
  <1> DEFINE p == [[inst[i] EXCEPT !.pc = "check"] EXCEPT !.step = 1]
  <1>1. inst' = [inst EXCEPT ![i] = p]
    <2>1. inst' = [inst EXCEPT ![i].pc = "check", ![i].step = 1] /\ DOMAIN inst[i] = Fields /\ DOMAIN inst = Instances
      BY DEF AcquireLock, IInv, Shape
    <2> QED BY <2>1
  <1>2. UNCHANGED tables /\ applied' = applied /\ inst[i].pc = "lock" /\ holder' = i
    BY DEF AcquireLock, At
  <1>3. p.pc = "check" /\ p.row = inst[i].row /\ p.library = inst[i].library
    BY DEF IInv, Shape, Fields
  <1> HIDE DEF p
  <1>4. Loops(inst[i]) /\ Len(applied) <= Migrations
    BY DEF BInv, Fit
  <1>5. Loops(p)
    BY <1>2, <1>3, <1>4 DEF Loops, Seeding
  <1>6. Fit(p, windows, Rows(media))
    BY <1>3, <1>5 DEF Fit, Alone, Seeding
  <1> QED BY <1>1, <1>2, <1>4, <1>6, OneFits

LEMMA CheckFits == ASSUME IInv, BInv, NEW i \in Instances, CheckMigration(i) PROVE BInv'
  <1>1. /\ UNCHANGED tables /\ applied' = applied /\ inst[i].pc = "check" /\ holder' \in Instances \cup {Nobody}
    BY DEF CheckMigration, At, BInv
  <1>2. /\ Loops(inst[i]) /\ Len(applied) <= Migrations /\ DOMAIN inst[i] = Fields
    BY DEF BInv, Fit, IInv, Shape
  <1>3. ASSUME NEW p, inst' = [inst EXCEPT ![i] = p],
               p.row = inst[i].row, p.library = inst[i].library,
               \/ p.pc = "unlock" /\ p.step = 0
               \/ p.pc = "check"
               \/ p.pc = "apply" /\ p.step <= Migrations
        PROVE  BInv'
    <2>1. Loops(p)
      BY <1>1, <1>2, <1>3 DEF Loops, Seeding
    <2>2. Fit(p, windows, Rows(media))
      BY <1>3, <2>1 DEF Fit, Alone, Seeding
    <2> QED BY <1>1, <1>2, <1>3, <2>2, OneFits
  <1>4. CASE inst[i].step > Migrations
    <2> DEFINE p == [inst[i] EXCEPT !.pc = "unlock", !.step = 0]
    <2>1. inst' = [inst EXCEPT ![i] = p]
      BY <1>4 DEF CheckMigration, Proceed
    <2>2. p.row = inst[i].row /\ p.library = inst[i].library /\ p.pc = "unlock" /\ p.step = 0
      BY <1>2 DEF Fields
    <2> HIDE DEF p
    <2> QED BY <1>3, <2>1, <2>2
  <1>5. CASE ~ (inst[i].step > Migrations) /\ inst[i].step \in recorded
    <2> DEFINE p == [inst[i] EXCEPT !.step = @ + 1]
    <2>1. inst' = [inst EXCEPT ![i] = p]
      BY <1>5 DEF CheckMigration, Proceed
    <2>2. p.row = inst[i].row /\ p.library = inst[i].library /\ p.pc = "check"
      BY <1>1, <1>2 DEF Fields
    <2> HIDE DEF p
    <2> QED BY <1>3, <2>1, <2>2
  <1>6. CASE ~ (inst[i].step > Migrations) /\ inst[i].step \notin recorded
    <2> DEFINE p == [inst[i] EXCEPT !.pc = "apply"]
    <2>1. inst' = [inst EXCEPT ![i] = p]
      BY <1>6 DEF CheckMigration, Proceed
    <2>2. inst[i].step <= Migrations
      BY <1>1, <1>6, MigrationsAssumption DEF IInv, InOrder, At
    <2>3. p.row = inst[i].row /\ p.library = inst[i].library /\ p.pc = "apply" /\ p.step <= Migrations
      BY <1>2, <2>2 DEF Fields
    <2> HIDE DEF p
    <2> QED BY <1>3, <2>1, <2>3
  <1> QED BY <1>4, <1>5, <1>6

LEMMA ApplyFits == ASSUME IInv, BInv, NEW i \in Instances, ApplyMigration(i) PROVE BInv'
  <1> DEFINE n == Len(applied)
  <1>1. n \in Nat /\ applied \in Seq(Nat) /\ recorded = 1 .. n
    BY DEF IInv, MigrationsAppliedOnce
  <1>2. /\ inst[i].step = n + 1 /\ inst[i].pc = "apply" /\ holder = i /\ UNCHANGED tables
        /\ Loops(inst[i]) /\ DOMAIN inst[i] = Fields /\ DOMAIN inst = Instances
    BY DEF IInv, InOrder, Exclusive, Shape, BInv, Fit, ApplyMigration, At, Migrating
  <1>3. n + 1 \notin recorded /\ n + 1 <= Migrations
    BY <1>1, <1>2 DEF Loops
  <1>4. applied' = Append(applied, n + 1)
    BY <1>2, <1>3 DEF ApplyMigration
  <1>5. Len(applied') = n + 1
    BY <1>1, <1>4, AppendProperties
  <1>6. CASE inst' = [inst EXCEPT ![i].pc = "check", ![i].step = @ + 1] /\ UNCHANGED <<holder, torn>>
    <2> DEFINE p == [[inst[i] EXCEPT !.pc = "check"] EXCEPT !.step = @ + 1]
    <2>1. inst' = [inst EXCEPT ![i] = p]
      BY <1>2, <1>6
    <2>2. p.row = inst[i].row /\ p.library = inst[i].library /\ p.pc = "check"
      BY <1>2 DEF Fields
    <2> HIDE DEF p
    <2>3. Fit(p, windows, Rows(media))
      BY <1>2, <2>2 DEF Fit, Loops, Alone, Seeding
    <2>4. holder' \in Instances \cup {Nobody}
      BY <1>2, <1>6
    <2> QED BY <1>2, <1>3, <1>5, <2>1, <2>3, <2>4, OneFits
  <1>7. CASE Fail(i, TRUE)
    BY <1>2, <1>3, <1>5, <1>7, FailFits
  <1> QED BY <1>2, <1>3, <1>6, <1>7 DEF ApplyMigration

LEMMA UnlockFits == ASSUME IInv, BInv, NEW i \in Instances, Unlock(i) PROVE BInv'
  <1> DEFINE next == IF inst[i].kind = "force" THEN "wipe items"
                     ELSE IF inst[i].kind = "seed" \/ env.autoSeed THEN "count" ELSE "restore"
  <1>1. inst' = [inst EXCEPT ![i] = [inst[i] EXCEPT !.pc = next]]
    BY DEF Unlock, Proceed
  <1>2. /\ UNCHANGED tables /\ UNCHANGED applied /\ holder' \in Instances \cup {Nobody}
        /\ inst[i].pc \notin {"check", "apply"} \cup Seeding
    BY DEF Unlock, At, Seeding, BInv
  <1>3. /\ next \in {"wipe items", "count", "restore"} /\ (next = "count" => inst[i].kind # "force")
    OBVIOUS
  <1> HIDE DEF next
  <1> QED BY <1>1, <1>2, <1>3, MovesFit

LEMMA ServeFits == ASSUME IInv, BInv, NEW i \in Instances, Serve(i) PROVE BInv'
  <1>1. inst' = [inst EXCEPT ![i] = [inst[i] EXCEPT !.pc = "serving"]]
    BY DEF Serve, Proceed
  <1>2. UNCHANGED tables /\ UNCHANGED <<holder, applied>> /\ inst[i].pc = "restore"
    BY DEF Serve, At
  <1>3. holder' \in Instances \cup {Nobody} /\ inst[i].pc \notin {"check", "apply"} \cup Seeding
    BY <1>2 DEF BInv, Seeding
  <1> QED BY <1>1, <1>2, <1>3, MovesFit

LEMMA CountFits == ASSUME IInv, BInv, NEW i \in Instances, CountWindows(i) PROVE BInv'
  <1>1. /\ UNCHANGED tables /\ UNCHANGED <<holder, applied>> /\ inst[i].pc = "count"
        /\ holder' \in Instances \cup {Nobody} /\ inst[i].pc \notin {"check", "apply"} \cup Seeding
    BY DEF CountWindows, At, Seeding, BInv
  <1>2. /\ Loops(inst[i]) /\ Len(applied) <= Migrations /\ DOMAIN inst[i] = Fields
        /\ ~ inst[i].crowded => Alone(inst[i], windows, Rows(media))
    BY DEF BInv, Fit, IInv, Shape
  <1>3. CASE windows # <<>> /\ inst[i].kind # "force"
    <2>1. AfterSeed(i) \in {"restore", "done"}
      BY DEF AfterSeed
    <2>2. inst' = [inst EXCEPT ![i] = [inst[i] EXCEPT !.pc = AfterSeed(i)]]
      BY <1>3 DEF CountWindows, Proceed
    <2> QED BY <1>1, <2>1, <2>2, MovesFit
  <1>4. CASE ~ (windows # <<>> /\ inst[i].kind # "force")
    <2> DEFINE p == [inst[i] EXCEPT !.pc = "seed media", !.step = 1]
    <2>1. inst' = [inst EXCEPT ![i] = p]
      BY <1>4 DEF CountWindows, Proceed
    <2>2. /\ p.pc = "seed media" /\ p.step = 1 /\ p.row = inst[i].row /\ p.library = inst[i].library
          /\ p.crowded = inst[i].crowded
      BY <1>2 DEF Fields
    <2> HIDE DEF p
    <2>3. p.row = 0 /\ p.library = <<>>
      BY <1>1, <1>2, <2>2 DEF Loops, Seeding
    <2>3a. p.library \in Seq(Nat) /\ Len(p.library) = 0 /\ \A k \in DOMAIN p.library : FALSE
      BY <2>3
    <2>3b. p.step \in 1 .. Len(Library) /\ Len(p.library) = p.step - 1
      <3>1. 1 \in 1 .. Len(Library) /\ 0 = 1 - 1
        BY LibraryAssumption
      <3> QED BY <2>2, <2>3a, <3>1, Zenon
    <2>3c. p.pc = "seed media" /\ p.row = 0
      BY <2>2, <2>3
    <2>4. Loops(p)
      BY <2>3a, <2>3b, <2>3c DEF Loops, Seeding
    <2>5. ASSUME ~ p.crowded PROVE Alone(p, windows, Rows(media))
      <3>1. DOMAIN windows = {}
        <4>1. CASE windows = <<>>
          BY <4>1
        <4>2. CASE inst[i].kind = "force"
          BY <1>1, <1>2, <2>2, <2>5, <4>2 DEF Alone
        <4> QED BY <1>4, <4>1, <4>2
      <3> QED BY <2>2, <2>3a, <3>1 DEF Alone
    <2>6. Fit(p, windows, Rows(media))
      BY <2>4, <2>5 DEF Fit
    <2> QED BY <1>1, <1>2, <2>1, <2>6, OneFits
  <1> QED BY <1>3, <1>4

LEMMA WipeFits ==
    ASSUME IInv, TablesInv, BInv, NEW i \in Instances, Wipe(i)
    PROVE  TablesInv' /\ Grows /\ BInv'
  <1>1. /\ Loops(inst[i]) /\ Len(applied) <= Migrations /\ DOMAIN inst[i] = Fields
        /\ ~ inst[i].crowded => Alone(inst[i], windows, Rows(media))
    BY DEF BInv, Fit, IInv, Shape
  <1>2. ASSUME NEW pc \in {"wipe windows", "wipe media", "count"}, inst[i].pc \in Wiping,
               Writes(i, [inst[i] EXCEPT !.pc = pc]),
               pc # "wipe windows" /\ ~ inst[i].crowded => DOMAIN windows' = {}
        PROVE  BInv'
    <2> DEFINE p == [inst[i] EXCEPT !.pc = pc]
    <2>1. /\ p.pc = pc /\ p.step = inst[i].step /\ p.row = inst[i].row /\ p.library = inst[i].library
          /\ p.crowded = inst[i].crowded /\ DOMAIN p = Fields
      BY <1>1 DEF Fields
    <2>2. Writes(i, p)
      BY <1>2
    <2> HIDE DEF p
    <2>3. Loops(p)
      BY <1>1, <1>2, <2>1 DEF Loops, Wiping, Seeding
    <2>4. ~ p.crowded => Alone(p, windows', Rows(media)')
      BY <1>2, <2>1 DEF Alone, Seeding
    <2> QED BY <2>1, <2>2, <2>3, <2>4, WritesFit
  <1>3. CASE At(i, "wipe items") /\ DeleteAll("playlist_items")
               /\ Writes(i, [inst[i] EXCEPT !.pc = "wipe windows"])
    BY <1>2, <1>3, DeleteAllKeeps DEF At, Wiping
  <1>4. CASE At(i, "wipe windows") /\ DeleteAll("windows")
               /\ Writes(i, [inst[i] EXCEPT !.pc = "wipe media"])
    <2>1. TablesInv' /\ Grows /\ DOMAIN windows' = {}
      BY <1>4, DeleteAllKeeps DEF Rows
    <2> QED BY <1>2, <1>4, <2>1 DEF At, Wiping
  <1>5. CASE At(i, "wipe media") /\ (\A m \in Rows(media) : ~ InUse(m)) /\ DeleteAll("media")
               /\ Writes(i, [inst[i] EXCEPT !.pc = "count"])
    <2>1. TablesInv' /\ Grows /\ DOMAIN windows' = DOMAIN windows
      BY <1>5, DeleteAllKeeps DEF Rows
    <2>2. ~ inst[i].crowded => DOMAIN windows = {}
      BY <1>1, <1>5 DEF Alone, At
    <2> QED BY <1>2, <1>5, <2>1, <2>2 DEF At, Wiping
  <1>6. CASE At(i, "wipe media") /\ (\E m \in Rows(media) : InUse(m)) /\ Fail(i, FALSE)
               /\ UNCHANGED <<tables, recorded, applied, boots>>
    <2>1. inst[i].crowded
      <3> SUFFICES ASSUME ~ inst[i].crowded PROVE FALSE
        OBVIOUS
      <3>1. Rows(windows) = {}
        BY <1>1, <1>6 DEF Alone, At, Rows
      <3> QED BY <1>6, <3>1 DEF InUse
    <2>2. BInv'
      BY <1>1, <1>6, <2>1, FailFits
    <2> QED BY <1>6, <2>2, TablesStay
  <1> QED BY <1>3, <1>4, <1>5, <1>6 DEF Wipe

LEMMA SeedMediaFits ==
    ASSUME IInv, TablesInv, BInv, NEW i \in Instances, SeedMedia(i)
    PROVE  TablesInv' /\ Grows /\ BInv'
  <1> DEFINE in == Normalize(Library[inst[i].step])
             m == serial.media
             l == inst[i].library
             q == [inst[i] EXCEPT !.library = Append(@, m)]
             p == IF q.step < Len(Library) THEN [q EXCEPT !.step = @ + 1]
                  ELSE [q EXCEPT !.pc = "seed window", !.step = 1]
  <1>1. /\ Loops(inst[i]) /\ DOMAIN inst[i] = Fields /\ inst[i].pc = "seed media"
        /\ ~ inst[i].crowded => Alone(inst[i], windows, Rows(media))
    BY DEF BInv, Fit, IInv, Shape, SeedMedia, At
  <1>2. inst[i].step \in 1 .. Len(Library) /\ l \in Seq(Nat) /\ Len(l) = inst[i].step - 1 /\ inst[i].row = 0
    BY <1>1 DEF Loops
  <1>3. StorableMedia(in) /\ InsertMedia(in)
    BY <1>2, LibraryAssumption DEF SeedMedia
  <1> HIDE DEF in
  <1>4. /\ TablesInv' /\ Grows /\ windows' = windows
        /\ Rows(media)' = Rows(media) \cup {m} /\ m \in Nat
    BY <1>3, InsertMediaKeeps
  <1>5. Writes(i, p)
    BY DEF SeedMedia
  <1>6. /\ q.library = Append(l, m) /\ q.step = inst[i].step /\ q.pc = "seed media" /\ q.row = 0
        /\ q.crowded = inst[i].crowded /\ DOMAIN q = Fields
    BY <1>1, <1>2 DEF Fields
  <1> DEFINE a == Append(l, m)
  <1>7. a \in Seq(Nat) /\ Len(a) = inst[i].step /\ \A k \in DOMAIN a : (k \in DOMAIN l /\ a[k] = l[k]) \/ a[k] = m
    BY <1>2, <1>4, AppendProperties
  <1> HIDE DEF a, l, m, q
  <1>9. Len(Library) \in Nat /\ inst[i].step \in Nat /\ inst[i].step >= 1 /\ inst[i].step <= Len(Library)
    <2>1. Len(Library) \in Nat
      BY LibraryAssumption
    <2> QED BY <1>2, <2>1
  <1>8. /\ p.library = a /\ p.row = 0 /\ p.crowded = inst[i].crowded /\ DOMAIN p = Fields
        /\ \/ p.pc = "seed media" /\ p.step \in 1 .. Len(Library) /\ Len(a) = p.step - 1
           \/ p.pc = "seed window" /\ p.step = 1 /\ Len(a) = Len(Library)
    <2>1. CASE q.step < Len(Library)
      <3>1. p = [q EXCEPT !.step = @ + 1]
        BY <2>1
      <3> HIDE DEF p
      <3>2. /\ p.library = a /\ p.row = 0 /\ p.crowded = inst[i].crowded /\ DOMAIN p = Fields
            /\ p.pc = "seed media" /\ p.step = inst[i].step + 1
        BY <1>6, <3>1 DEF Fields, a
      <3>3. inst[i].step + 1 \in 1 .. Len(Library) /\ inst[i].step = (inst[i].step + 1) - 1
        <4>1. inst[i].step < Len(Library)
          BY <1>6, <2>1
        <4> QED BY <1>9, <4>1
      <3> QED BY <1>7, <3>2, <3>3
    <2>2. CASE ~ (q.step < Len(Library))
      <3>1. p = [q EXCEPT !.pc = "seed window", !.step = 1]
        BY <2>2
      <3> HIDE DEF p
      <3>2. /\ p.library = a /\ p.row = 0 /\ p.crowded = inst[i].crowded /\ DOMAIN p = Fields
            /\ p.pc = "seed window" /\ p.step = 1
        BY <1>6, <3>1 DEF Fields, a
      <3>3. inst[i].step = Len(Library)
        <4>1. ~ (inst[i].step < Len(Library))
          BY <1>6, <2>2
        <4> QED BY <1>9, <4>1
      <3> QED BY <1>7, <3>2, <3>3
    <2> QED BY <2>1, <2>2
  <1> HIDE DEF p
  <1>12. 1 \in 1 .. Len(Layout)
    BY LayoutAssumption
  <1>10. Loops(p)
    BY <1>7, <1>8, <1>12 DEF Loops, Seeding
  <1>11. ASSUME ~ p.crowded PROVE Alone(p, windows', Rows(media)')
    <2>1. Alone(inst[i], windows, Rows(media))
      BY <1>1, <1>8, <1>11
    <2>2. DOMAIN windows = {} /\ \A k \in DOMAIN l : l[k] \in Rows(media)
      BY <1>1, <2>1 DEF Alone, Seeding, l
    <2>3. \A k \in DOMAIN a : a[k] \in Rows(media)'
      BY <1>4, <1>7, <2>2
    <2>4. DOMAIN windows' = {} /\ \A n : NamesUpTo(windows', n)
      BY <1>4, <2>2 DEF NamesUpTo
    <2> QED BY <1>8, <2>3, <2>4 DEF Alone
  <1> QED BY <1>4, <1>5, <1>8, <1>10, <1>11, WritesFit

\* What NextItem makes of a process that has stored a window or an item.
LEMMA NextPlace == ASSUME NEW k \in Nat, NEW n \in Nat, k < n PROVE k + 1 \in 1 .. n /\ (k + 1) - 1 = k
  OBVIOUS

LEMMA OnePlace == ASSUME NEW n \in Nat PROVE 0 <= n /\ \A k \in 1 .. n : k \in Nat \ {0} /\ k <= n
  OBVIOUS

LEMMA LayoutLengths ==
    /\ Len(Layout) \in Nat /\ DOMAIN Layout = 1 .. Len(Layout)
    /\ \A n \in DOMAIN Layout : n \in Nat /\ n >= 1 /\ n <= Len(Layout) /\ Len(Layout[n].items) \in Nat
  BY LayoutAssumption

LEMMA NextItemFits ==
    ASSUME NEW i, NEW q, DOMAIN q = Fields, q.library \in Seq(Nat), Len(q.library) = Len(Library),
           NEW step \in DOMAIN Layout, q.step = step,
           NEW row \in Nat, row <= Len(Layout[step].items), q.row = row
    PROVE  LET p == NextItem(i, q)
           IN  /\ DOMAIN p = Fields /\ Loops(p) /\ p.crowded = q.crowded
               /\ \A W, M : NamesUpTo(W, step) /\ q.window \in DOMAIN W
                              /\ (\A k \in DOMAIN q.library : q.library[k] \in M)
                              => Alone(p, W, M)
  <1> DEFINE p == NextItem(i, q)
             n == Len(Layout[step].items)
  <1>1. n \in Nat /\ step \in Nat /\ Len(Layout) \in Nat /\ step >= 1
    BY LayoutLengths
  <1>2. CASE row < n
    <2>1. p = [q EXCEPT !.pc = "seed item", !.row = @ + 1]
      BY <1>2 DEF NextItem
    <2> HIDE DEF p
    <2>2. /\ p.pc = "seed item" /\ p.row = row + 1 /\ p.step = step /\ p.library = q.library
          /\ p.crowded = q.crowded /\ p.window = q.window /\ DOMAIN p = Fields
      BY <2>1 DEF Fields
    <2>3. row + 1 \in 1 .. n
      <3>1. n \in Nat /\ row < n
        BY <1>1, <1>2
      <3> QED BY <3>1, NextPlace
    <2>3a. step \in 1 .. Len(Layout)
      BY LayoutLengths
    <2> HIDE DEF n
    <2>4. p.row \in 1 .. Len(Layout[p.step].items)
      BY <2>2, <2>3 DEF n
    <2>5. Loops(p)
      BY <2>2, <2>3a, <2>4 DEF Loops, Seeding
    <2>6. \A W, M : NamesUpTo(W, step) /\ q.window \in DOMAIN W
                      /\ (\A k \in DOMAIN q.library : q.library[k] \in M) => Alone(p, W, M)
      BY <2>2 DEF Alone
    <2> QED BY <2>2, <2>5, <2>6 DEF p
  <1>3. CASE ~ (row < n) /\ step < Len(Layout)
    <2>1. p = [q EXCEPT !.pc = "seed window", !.step = @ + 1, !.row = 0]
      BY <1>3 DEF NextItem
    <2> HIDE DEF p
    <2>2. /\ p.pc = "seed window" /\ p.row = 0 /\ p.step = step + 1 /\ p.library = q.library
          /\ p.crowded = q.crowded /\ DOMAIN p = Fields
      BY <2>1 DEF Fields
    <2>3. step + 1 \in 1 .. Len(Layout) /\ (step + 1) - 1 = step
      <3>1. Len(Layout) \in Nat /\ step \in Nat /\ step < Len(Layout)
        BY <1>1, <1>3
      <3> QED BY <3>1, NextPlace
    <2>4. p.step \in 1 .. Len(Layout) /\ p.step - 1 = step
      BY <2>2, <2>3
    <2>5. Loops(p)
      BY <2>2, <2>4 DEF Loops, Seeding
    <2>6. \A W, M : NamesUpTo(W, step) /\ q.window \in DOMAIN W
                      /\ (\A k \in DOMAIN q.library : q.library[k] \in M) => Alone(p, W, M)
      BY <2>2, <2>4 DEF Alone
    <2> QED BY <2>2, <2>5, <2>6 DEF p
  <1>4. CASE ~ (row < n) /\ ~ (step < Len(Layout))
    <2>1. p = [NoProcess EXCEPT !.pc = AfterSeed(i), !.kind = q.kind, !.crowded = q.crowded]
      BY <1>4 DEF NextItem
    <2>2. AfterSeed(i) \in {"restore", "done"}
      BY DEF AfterSeed
    <2> HIDE DEF p
    <2>3. /\ p.pc = AfterSeed(i) /\ p.row = 0 /\ p.step = 0 /\ p.library = <<>>
          /\ p.crowded = q.crowded /\ DOMAIN p = Fields
      BY <2>1 DEF NoProcess, Fields
    <2>4. Loops(p)
      <3>1. p.pc \in {"restore", "done"} /\ p.library \in Seq(Nat)
        BY <2>2, <2>3
      <3> QED BY <2>3, <3>1 DEF Loops, Seeding
    <2>5. \A W, M : Alone(p, W, M)
      BY <2>2, <2>3 DEF Alone, Seeding
    <2> QED BY <2>3, <2>4, <2>5 DEF p
  <1> QED BY <1>2, <1>3, <1>4

\* A process between two statements of its seeding.
LEMMA SeedingIs ==
    ASSUME IInv, BInv, NEW i \in Instances, inst[i].pc \in {"seed window", "seed item"}
    PROVE  /\ DOMAIN inst[i] = Fields /\ inst[i].step \in DOMAIN Layout
           /\ inst[i].library \in Seq(Nat) /\ Len(inst[i].library) = Len(Library)
           /\ inst[i].pc = "seed window" => inst[i].row = 0
           /\ inst[i].pc = "seed item" => inst[i].row \in 1 .. Len(Layout[inst[i].step].items)
           /\ ~ inst[i].crowded => Alone(inst[i], windows, Rows(media))
  <1>1. DOMAIN inst[i] = Fields /\ Loops(inst[i]) /\ (~ inst[i].crowded => Alone(inst[i], windows, Rows(media)))
    BY DEF BInv, Fit, IInv, Shape
  <1> QED BY <1>1, LayoutLengths DEF Loops

LEMMA SeedWindowFits ==
    ASSUME IInv, TablesInv, BInv, NEW i \in Instances, SeedWindow(i)
    PROVE  TablesInv' /\ Grows /\ BInv'
  <1> DEFINE step == inst[i].step
             name == Layout[step].name
  <1>1. /\ DOMAIN inst[i] = Fields /\ step \in DOMAIN Layout /\ inst[i].row = 0
        /\ inst[i].library \in Seq(Nat) /\ Len(inst[i].library) = Len(Library)
        /\ ~ inst[i].crowded => Alone(inst[i], windows, Rows(media))
        /\ inst[i].pc = "seed window"
    BY SeedingIs DEF SeedWindow, At
  <1>2. StorableName(name) /\ step \in Nat /\ step >= 1 /\ \A k \in DOMAIN Layout : Layout[k].name = name => k = step
    BY <1>1, LayoutAssumption, LayoutLengths
  <1>3. ASSUME ~ inst[i].crowded
        PROVE  /\ \A w \in DOMAIN windows : \E k \in 1 .. step - 1 : windows[w].name = Layout[k].name
               /\ \A k \in DOMAIN inst[i].library : inst[i].library[k] \in Rows(media)
    BY <1>1, <1>3 DEF Alone, NamesUpTo, Seeding
  <1>4. CASE NameTaken(name) /\ Fail(i, FALSE) /\ UNCHANGED <<tables, recorded, applied, boots>>
    <2>1. inst[i].crowded
      <3> SUFFICES ASSUME ~ inst[i].crowded PROVE FALSE
        OBVIOUS
      <3>1. PICK w \in DOMAIN windows : windows[w].name = name
        BY <1>4 DEF NameTaken, Rows
      <3>2. PICK k \in 1 .. step - 1 : Layout[k].name = name
        BY <1>3, <3>1
      <3>3. k \in DOMAIN Layout /\ k # step
        <4>1. DOMAIN Layout = 1 .. Len(Layout) /\ Len(Layout) \in Nat /\ step <= Len(Layout)
          BY <1>1, LayoutLengths
        <4> QED BY <1>2, <4>1
      <3> QED BY <1>2, <3>2, <3>3
    <2>2. Len(applied') <= Migrations
      BY <1>4 DEF BInv
    <2>3. BInv'
      BY <1>4, <2>1, <2>2, FailFits
    <2> QED BY <1>4, <2>3, TablesStay
  <1>5. CASE ~ NameTaken(name) /\ InsertWindow(name)
               /\ Writes(i, NextItem(i, [inst[i] EXCEPT !.window = serial.window]))
    <2> DEFINE n == serial.window
               q == [inst[i] EXCEPT !.window = n]
               p == NextItem(i, q)
    <2>1. /\ TablesInv' /\ Grows /\ Rows(media)' = Rows(media)
          /\ Rows(windows)' = Rows(windows) \cup {n} /\ windows'[n].name = name
          /\ \A w \in Rows(windows) : windows'[w] = windows[w]
      BY <1>2, <1>5, InsertWindowKeeps
    <2>2. /\ q.window = n /\ q.step = step /\ q.row = 0 /\ q.library = inst[i].library
          /\ q.crowded = inst[i].crowded /\ DOMAIN q = Fields
      BY <1>1 DEF Fields
    <2>3. 0 <= Len(Layout[step].items)
      BY <1>1, LayoutLengths, OnePlace
    <2> HIDE DEF q, n
    <2>4. /\ DOMAIN p = Fields /\ Loops(p) /\ p.crowded = q.crowded
          /\ \A W, M : NamesUpTo(W, step) /\ q.window \in DOMAIN W
                         /\ (\A k \in DOMAIN q.library : q.library[k] \in M) => Alone(p, W, M)
      <3>1. DOMAIN q = Fields /\ q.library \in Seq(Nat) /\ Len(q.library) = Len(Library)
        BY <1>1, <2>2
      <3> QED BY <1>1, <2>2, <2>3, <3>1, NextItemFits
    <2>5. Writes(i, p)
      BY <1>5 DEF q, n
    <2> HIDE DEF p
    <2>6. ASSUME ~ p.crowded PROVE Alone(p, windows', Rows(media)')
      <3>1. ~ inst[i].crowded
        BY <2>2, <2>4, <2>6
      <3>2. q.window \in DOMAIN windows' /\ \A k \in DOMAIN q.library : q.library[k] \in Rows(media)'
        BY <1>3, <2>1, <2>2, <3>1 DEF Rows
      <3>3. NamesUpTo(windows', step)
        <4> SUFFICES ASSUME NEW w \in DOMAIN windows'
                     PROVE  \E k \in 1 .. step : windows'[w].name = Layout[k].name
          BY DEF NamesUpTo
        <4>1. CASE w = n
          BY <1>2, <2>1, <4>1
        <4>2. CASE w \in DOMAIN windows
          <5>1. PICK k \in 1 .. step - 1 : windows[w].name = Layout[k].name
            BY <1>3, <3>1, <4>2
          <5>2. k \in 1 .. step
            BY <1>2
          <5> QED BY <2>1, <4>2, <5>1, <5>2 DEF Rows
        <4> QED BY <2>1, <4>1, <4>2 DEF Rows
      <3> QED BY <2>4, <3>2, <3>3
    <2>7. BInv'
      BY <2>4, <2>5, <2>6, WritesFit
    <2> QED BY <2>1, <2>7
  <1> QED BY <1>4, <1>5 DEF SeedWindow

LEMMA SeedItemFits ==
    ASSUME IInv, TablesInv, BInv, NEW i \in Instances, SeedItem(i)
    PROVE  TablesInv' /\ Grows /\ BInv'
  <1> DEFINE step == inst[i].step
             row == inst[i].row
             w == inst[i].window
             m == inst[i].library[Layout[step].items[row]]
             p == NextItem(i, inst[i])
  <1>1. /\ DOMAIN inst[i] = Fields /\ step \in DOMAIN Layout /\ row \in 1 .. Len(Layout[step].items)
        /\ inst[i].library \in Seq(Nat) /\ Len(inst[i].library) = Len(Library)
        /\ ~ inst[i].crowded => Alone(inst[i], windows, Rows(media))
        /\ inst[i].pc = "seed item"
    BY SeedingIs DEF SeedItem, At
  <1>2. row \in DOMAIN Layout[step].items /\ row \in Nat /\ row <= Len(Layout[step].items)
    <2>1. DOMAIN Layout[step].items = 1 .. Len(Layout[step].items) /\ Len(Layout[step].items) \in Nat
      BY <1>1, LayoutAssumption
    <2> HIDE DEF row, step
    <2> QED BY <1>1, <2>1, OnePlace
  <1>3. Layout[step].items[row] \in DOMAIN inst[i].library
    <2>1. Layout[step].items[row] \in DOMAIN Library
      BY <1>1, <1>2, LayoutAssumption
    <2>2. DOMAIN inst[i].library = DOMAIN Library
      <3> DEFINE l == inst[i].library
      <3>1. l \in Seq(Nat) /\ Len(l) = Len(Library)
        BY <1>1
      <3> HIDE DEF l
      <3>2. DOMAIN l = 1 .. Len(l)
        BY <3>1
      <3>3. DOMAIN l = 1 .. Len(Library) /\ DOMAIN Library = 1 .. Len(Library)
        BY <3>1, <3>2, LibraryAssumption, Zenon
      <3> QED BY <3>3 DEF l
    <2> QED BY <2>1, <2>2
  <1>4. ASSUME ~ inst[i].crowded
        PROVE  /\ NamesUpTo(windows, step) /\ w \in DOMAIN windows
               /\ \A k \in DOMAIN inst[i].library : inst[i].library[k] \in Rows(media)
    BY <1>1, <1>4 DEF Alone, Seeding
  <1>5. /\ DOMAIN p = Fields /\ Loops(p) /\ p.crowded = inst[i].crowded
        /\ \A W, M : NamesUpTo(W, step) /\ w \in DOMAIN W
                       /\ (\A k \in DOMAIN inst[i].library : inst[i].library[k] \in M) => Alone(p, W, M)
    BY <1>1, <1>2, NextItemFits
  <1>6. CASE (w \notin Rows(windows) \/ m \notin Rows(media)) /\ Fail(i, FALSE)
               /\ UNCHANGED <<tables, recorded, applied, boots>>
    <2>1. inst[i].crowded
      BY <1>3, <1>4, <1>6 DEF Rows
    <2>2. Len(applied') <= Migrations
      BY <1>6 DEF BInv
    <2>3. BInv'
      BY <1>6, <2>1, <2>2, FailFits
    <2> QED BY <1>6, <2>3, TablesStay
  <1>7. CASE w \in Rows(windows) /\ m \in Rows(media) /\ AppendItem(w, m) /\ Writes(i, p)
    <2>1. /\ TablesInv' /\ Grows /\ Rows(media)' = Rows(media) /\ Rows(windows)' = Rows(windows)
          /\ \A v \in Rows(windows) : windows'[v].name = windows[v].name
      BY <1>7, AppendItemKeeps
    <2> HIDE DEF p
    <2>2. ASSUME ~ p.crowded PROVE Alone(p, windows', Rows(media)')
      <3>1. ~ inst[i].crowded
        BY <1>5, <2>2
      <3>2. NamesUpTo(windows', step)
        BY <1>4, <2>1, <3>1 DEF NamesUpTo, Rows
      <3> QED BY <1>4, <1>5, <2>1, <3>1, <3>2 DEF Rows
    <2>3. BInv'
      BY <1>5, <1>7, <2>2, WritesFit
    <2> QED BY <2>1, <2>3
  <1> QED BY <1>6, <1>7 DEF SeedItem

LEMMA BootStepFits ==
    ASSUME IInv, TablesInv, BInv, NEW i \in Instances, BootStep(i)
    PROVE  TablesInv' /\ Grows /\ BInv'
  <1>1. CASE Connect(i) \/ AcquireLock(i) \/ CheckMigration(i) \/ ApplyMigration(i) \/ Unlock(i)
               \/ CountWindows(i) \/ Serve(i)
    <2>1. UNCHANGED tables
      BY <1>1 DEF Connect, AcquireLock, CheckMigration, ApplyMigration, Unlock, CountWindows, Serve
    <2>2. BInv'
      BY <1>1, ConnectFits, AcquireFits, CheckFits, ApplyFits, UnlockFits, CountFits, ServeFits
    <2> QED BY <2>1, <2>2, TablesStay
  <1>2. CASE Wipe(i) \/ SeedMedia(i) \/ SeedWindow(i) \/ SeedItem(i)
    BY <1>2, WipeFits, SeedMediaFits, SeedWindowFits, SeedItemFits
  <1> QED BY <1>1, <1>2 DEF BootStep

\* A process that has not begun, or has done its work.
LEMMA RestingFits ==
    ASSUME NEW pc \in {"connect", "done"}, NEW kind, NEW W, NEW M
    PROVE  Fit([NoProcess EXCEPT !.pc = pc, !.kind = kind], W, M)
             /\ Fit([NoProcess EXCEPT !.pc = pc], W, M) /\ Fit(NoProcess, W, M)
  <1>1. ASSUME NEW p, p.pc \in {"off", "connect", "done"}, p.step = 0, p.row = 0, p.library = <<>>
        PROVE  Fit(p, W, M)
    <2>1. Loops(p)
      <3>1. p.library \in Seq(Nat)
        BY <1>1
      <3>2. p.pc \in {"off", "connect", "done"} /\ p.step = 0 /\ p.row = 0 /\ p.library = <<>>
        BY <1>1
      <3> QED BY <3>1, <3>2 DEF Loops, Seeding
    <2>2. Alone(p, W, M)
      BY <1>1 DEF Alone, Seeding
    <2> QED BY <2>1, <2>2 DEF Fit
  <1> DEFINE p == [NoProcess EXCEPT !.pc = pc, !.kind = kind]
             q == [NoProcess EXCEPT !.pc = pc]
  <1>2. p.pc = pc /\ p.step = 0 /\ p.row = 0 /\ p.library = <<>>
    BY DEF NoProcess
  <1>3. q.pc = pc /\ q.step = 0 /\ q.row = 0 /\ q.library = <<>>
    BY DEF NoProcess
  <1>4. NoProcess.pc = "off" /\ NoProcess.step = 0 /\ NoProcess.row = 0 /\ NoProcess.library = <<>>
    BY DEF NoProcess
  <1> HIDE DEF p, q
  <1>5. Fit(p, W, M) /\ Fit(q, W, M) /\ Fit(NoProcess, W, M)
    BY <1>1, <1>2, <1>3, <1>4
  <1> QED BY <1>5 DEF p, q

LEMMA ProcessFits ==
    ASSUME IInv, TablesInv, BInv, NEW i \in Instances, Process(i)
    PROVE  TablesInv' /\ Grows /\ BInv'
  <1>0. Len(applied) <= Migrations /\ holder \in Instances \cup {Nobody}
    BY DEF BInv
  <1>1. CASE Booting(i)
    BY <1>1, BootStepFits DEF Booting
  <1>2. ASSUME NEW kind, Start(i, kind) PROVE TablesInv' /\ Grows /\ BInv'
    <2> DEFINE p == [NoProcess EXCEPT !.pc = "connect", !.kind = kind]
    <2>1. inst' = [inst EXCEPT ![i] = p] /\ UNCHANGED tables /\ UNCHANGED <<holder, applied>>
      BY <1>2 DEF Start
    <2>2. Fit(p, windows, Rows(media))
      BY RestingFits
    <2> HIDE DEF p
    <2> QED BY <1>0, <2>1, <2>2, OneFits, TablesStay
  <1>3. CASE BootFails(i)
    <2>1. UNCHANGED tables /\ applied' = applied /\ Fail(i, TRUE)
      BY <1>3 DEF BootFails
    <2> QED BY <1>0, <2>1, FailFits, TablesStay
  <1>4. ASSUME NEW pc \in {"draining", "overrun"},
               inst' = [inst EXCEPT ![i] = [inst[i] EXCEPT !.pc = pc]],
               inst[i].pc \in {"serving", "draining"}, UNCHANGED tables, UNCHANGED <<holder, applied>>
        PROVE  TablesInv' /\ Grows /\ BInv'
    <2>1. inst[i].pc \notin {"check", "apply"} \cup Seeding /\ pc # "count"
      BY <1>4 DEF Seeding
    <2>2. BInv'
      BY <1>0, <1>4, <2>1, MovesFit
    <2> QED BY <1>4, <2>2, TablesStay
  <1>5. CASE Sigterm(i)
    <2>1. /\ inst' = [inst EXCEPT ![i] = [inst[i] EXCEPT !.pc = "draining"]]
          /\ inst[i].pc \in {"serving", "draining"} /\ UNCHANGED tables /\ UNCHANGED <<holder, applied>>
      BY <1>5 DEF Sigterm, Proceed, At
    <2> QED BY <1>4, <2>1
  <1>6. CASE GraceOver(i) \/ ServeFails(i)
    <2>1. /\ inst' = [inst EXCEPT ![i] = [inst[i] EXCEPT !.pc = "overrun"]]
          /\ inst[i].pc \in {"serving", "draining"} /\ UNCHANGED tables /\ UNCHANGED <<holder, applied>>
      BY <1>6 DEF GraceOver, ServeFails, Overrun, Proceed, At
    <2> QED BY <1>4, <2>1
  <1>7. CASE Drained(i) \/ Exit(i)
    <2> DEFINE p == [NoProcess EXCEPT !.pc = "done"]
    <2>1. inst' = [inst EXCEPT ![i] = p] /\ UNCHANGED tables /\ UNCHANGED <<holder, applied>>
      BY <1>7 DEF Drained, Exit, Proceed
    <2>2. Fit(p, windows, Rows(media))
      BY RestingFits
    <2> HIDE DEF p
    <2> QED BY <1>0, <2>1, <2>2, OneFits, TablesStay
  <1>8. CASE Crash(i)
    <2>1. UNCHANGED tables /\ applied' = applied /\ Fail(i, TRUE)
      BY <1>8 DEF Crash
    <2> QED BY <1>0, <2>1, FailFits, TablesStay
  <1> QED BY <1>1, <1>2, <1>3, <1>5, <1>6, <1>7, <1>8 DEF Process

LEMMA TablesInitially == Init => TablesInv /\ BInv
  <1> SUFFICES ASSUME Init PROVE TablesInv /\ BInv
    OBVIOUS
  <1>1. TablesInv
    <2>1. Rows(windows) = {} /\ Rows(media) = {}
      BY DEF Init, Rows
    <2>2. serial \in [window : Nat \ {0}, media : Nat \ {0}, item : Nat \ {0}] /\ wipes \in Nat
      BY DEF Init
    <2> QED BY <2>1, <2>2 DEF TablesInv
  <1>2. BInv
    <2>1. \A i \in Instances : Fit(inst[i], windows, Rows(media))
      BY RestingFits DEF Init
    <2>2. Len(applied) = 0 /\ 0 <= Migrations
      BY MigrationsAssumption DEF Init
    <2> QED BY <2>1, <2>2 DEF BInv, Init
  <1> QED BY <1>1, <1>2

-----------------------------------------------------------------------------
(* What the seedings make of the layout, where they alone write.           *)

\* Window w is the one of place n of the layout, with the first r of its items.
Holds(W, M, w, n, r) ==
    /\ W[w].name = Layout[n].name
    /\ Len(W[w].items) = r
    /\ \A k \in 1 .. r : M[W[w].items[k].media] = Normalize(Library[Layout[n].items[k]])

\* Each of the first n windows of the layout is there with all its items.
Filled(W, M, n) ==
    \A k \in 1 .. n : \E w \in DOMAIN W : Holds(W, M, w, k, Len(Layout[k].items))

\* There are n windows, with names of the first n of the layout.
Counted(W, n) == IsFiniteSet(DOMAIN W) /\ Cardinality(DOMAIN W) = n /\ NamesUpTo(W, n)

Whole(W, M, n) == Counted(W, n) /\ Filled(W, M, n)

\* The first n windows are there, and w, the last of them, has r items so far.
Partly(W, M, n, w, r) ==
    Counted(W, n) /\ Filled(W, M, n - 1) /\ w \in DOMAIN W /\ Holds(W, M, w, n, r)

\* A process that has stored the first window of the layout, and is not through.
Leads(p) == p.pc = "seed item" \/ (p.pc = "seed window" /\ p.step > 1)

\* The windows are what it has stored.
Stores(p, W, M) ==
    /\ p.pc = "seed window" => Whole(W, M, p.step - 1)
    /\ p.pc = "seed item" => Partly(W, M, p.step, p.window, p.row - 1)

\* Its media are the library's.
Stocked(p, M) ==
    \A k \in DOMAIN p.library :
        p.library[k] \in DOMAIN M /\ M[p.library[k]] = Normalize(Library[k])

\* One process at most stores windows; when it is through, they are the layout.
Tidy ==
    /\ \A i \in Instances : inst[i].pc \in Seeding => Stocked(inst[i], media)
    /\ \A i, j \in Instances : Leads(inst[i]) /\ Leads(inst[j]) => i = j
    /\ \A i \in Instances : Leads(inst[i]) => Stores(inst[i], windows, media)
    /\ windows # <<>> /\ (\A i \in Instances : ~ Leads(inst[i]) /\ inst[i].pc # "wipe windows")
           => Whole(windows, media, Len(Layout))

\* Clearing is for -force.
Wipers == \A i \in Instances : inst[i].pc \in Wiping => inst[i].kind = "force"

WInv ==
    /\ Wipers
    /\ env.calls = {} /\ ~ torn => Tidy

LEMMA HoldsOn ==
    ASSUME NEW W, NEW M, NEW V, NEW N, NEW w, NEW n, NEW r, Holds(W, M, w, n, r),
           V[w] = W[w], \A k \in 1 .. r : N[W[w].items[k].media] = M[W[w].items[k].media]
    PROVE  Holds(V, N, w, n, r)
  BY DEF Holds

LEMMA NothingIsWhole == ASSUME NEW W, NEW M, DOMAIN W = {} PROVE Whole(W, M, 0)
  <1>1. IsFiniteSet(DOMAIN W) /\ Cardinality(DOMAIN W) = 0
    BY FS_EmptySet
  <1>2. \A k \in 1 .. 0 : FALSE
    OBVIOUS
  <1> QED BY <1>1, <1>2 DEF Whole, Counted, Filled, NamesUpTo

\* What a window shows is in the library.
LEMMA ShownMedia ==
    ASSUME TablesInv, NEW w \in DOMAIN windows, NEW M, NEW n, NEW r, Holds(windows, M, w, n, r)
    PROVE  /\ r \in Nat /\ windows[w].items \in Seq(Item) /\ DOMAIN windows[w].items = 1 .. r
           /\ \A k \in 1 .. r : windows[w].items[k].media \in DOMAIN media
  <1>1. ItemsOK(windows[w].items, DOMAIN media, serial.item)
    BY DEF TablesInv, Rows
  <1> DEFINE s == windows[w].items
  <1>2. s \in Seq(Item) /\ Len(s) = r /\ \A k \in DOMAIN s : s[k].media \in DOMAIN media
    BY <1>1 DEF ItemsOK, Holds
  <1> HIDE DEF s
  <1>3. r \in Nat /\ DOMAIN s = 1 .. r
    BY <1>2
  <1> QED BY <1>2, <1>3 DEF s

\* The windows stay what they are when media are added.
LEMMA StaysWhole ==
    ASSUME TablesInv, NEW N, \A m \in DOMAIN media : N[m] = media[m]
    PROVE  /\ \A n : Whole(windows, media, n) => Whole(windows, N, n)
           /\ \A p : Stores(p, windows, media) => Stores(p, windows, N)
  <1>1. ASSUME NEW w \in DOMAIN windows, NEW n, NEW r, Holds(windows, media, w, n, r)
        PROVE  Holds(windows, N, w, n, r)
    BY <1>1, ShownMedia, HoldsOn
  <1>2. \A n : Filled(windows, media, n) => Filled(windows, N, n)
    BY <1>1 DEF Filled
  <1>3. \A n : Whole(windows, media, n) => Whole(windows, N, n)
    BY <1>2 DEF Whole
  <1>4. \A n, w, r : Partly(windows, media, n, w, r) => Partly(windows, N, n, w, r)
    BY <1>1, <1>2 DEF Partly
  <1> QED BY <1>3, <1>4 DEF Stores

\* The next window of the layout is stored.
LEMMA WindowIsPartly ==
    ASSUME TablesInv, NEW n \in DOMAIN Layout, Whole(windows, media, n - 1),
           InsertWindow(Layout[n].name), ~ NameTaken(Layout[n].name)
    PROVE  Partly(windows', media', n, serial.window, 0)
  <1> DEFINE s == serial.window
             name == Layout[n].name
             row == [name |-> name, items |-> <<>>]
  <1>1. n \in Nat /\ n >= 1 /\ StorableName(name)
    BY LayoutLengths, LayoutAssumption
  <1>2. /\ windows' = With(windows, s, row) /\ media' = media
    BY DEF InsertWindow
  <1>3. s \notin DOMAIN windows
    <2>1. s \in Nat /\ \A w \in DOMAIN windows : w \in 1 .. s - 1
      BY DEF TablesInv, Rows
    <2> HIDE DEF s
    <2> QED BY <2>1
  <1>4. row.name = name /\ row.items = <<>>
    OBVIOUS
  <1> HIDE DEF s, row
  <1>5. /\ DOMAIN windows' = DOMAIN windows \cup {s} /\ windows'[s] = row
        /\ \A w \in DOMAIN windows : windows'[w] = windows[w]
    BY <1>2, <1>3 DEF With
  <1>6. /\ IsFiniteSet(DOMAIN windows) /\ Cardinality(DOMAIN windows) = n - 1
        /\ NamesUpTo(windows, n - 1) /\ Filled(windows, media, n - 1)
    BY DEF Whole, Counted
  <1>7. IsFiniteSet(DOMAIN windows') /\ Cardinality(DOMAIN windows') = n
    <2>1. IsFiniteSet(DOMAIN windows') /\ Cardinality(DOMAIN windows') = Cardinality(DOMAIN windows) + 1
      BY <1>3, <1>5, <1>6, FS_AddElement
    <2> QED BY <1>1, <1>6, <2>1
  <1>8. NamesUpTo(windows', n)
    <2> SUFFICES ASSUME NEW w \in DOMAIN windows' PROVE \E k \in 1 .. n : windows'[w].name = Layout[k].name
      BY DEF NamesUpTo
    <2>1. CASE w = s
      BY <1>1, <1>4, <1>5, <2>1
    <2>2. CASE w \in DOMAIN windows
      <3>1. PICK k \in 1 .. n - 1 : windows[w].name = Layout[k].name
        BY <1>6, <2>2 DEF NamesUpTo
      <3>2. k \in 1 .. n
        BY <1>1
      <3> QED BY <1>5, <2>2, <3>1, <3>2
    <2> QED BY <1>5, <2>1, <2>2
  <1>9. Filled(windows', media', n - 1)
    <2> SUFFICES ASSUME NEW k \in 1 .. n - 1
                 PROVE  \E w \in DOMAIN windows' : Holds(windows', media', w, k, Len(Layout[k].items))
      BY DEF Filled
    <2>1. PICK w \in DOMAIN windows : Holds(windows, media, w, k, Len(Layout[k].items))
      BY <1>6 DEF Filled
    <2>2. Holds(windows', media', w, k, Len(Layout[k].items))
      BY <1>2, <1>5, <2>1, HoldsOn
    <2> QED BY <1>5, <2>2
  <1>10. Holds(windows', media', s, n, 0)
    <2>1. Len(row.items) = 0 /\ \A k \in 1 .. 0 : FALSE
      BY <1>4
    <2> QED BY <1>4, <1>5, <2>1 DEF Holds
  <1>11. Partly(windows', media', n, s, 0)
    BY <1>5, <1>7, <1>8, <1>9, <1>10 DEF Partly, Counted
  <1> QED BY <1>11 DEF s

\* The next item of the last window is stored.
LEMMA ItemIsPartly ==
    ASSUME TablesInv, NEW n \in DOMAIN Layout, NEW w, NEW r \in Nat \ {0}, NEW m \in Rows(media),
           Partly(windows, media, n, w, r - 1),
           media[m] = Normalize(Library[Layout[n].items[r]]), AppendItem(w, m)
    PROVE  Partly(windows', media', n, w, r)
  <1> DEFINE s == windows[w].items
             x == [id |-> serial.item, media |-> m]
             t == Append(s, x)
  <1>1. /\ w \in DOMAIN windows /\ Holds(windows, media, w, n, r - 1)
        /\ Counted(windows, n) /\ Filled(windows, media, n - 1)
    BY DEF Partly
  <1>2. /\ s \in Seq(Item) /\ Len(s) = r - 1 /\ DOMAIN windows[w] = {"name", "items"} /\ x.media = m
        /\ windows[w].name = Layout[n].name /\ Items(w) = s
        /\ \A k \in 1 .. r - 1 : media[s[k].media] = Normalize(Library[Layout[n].items[k]])
    <2>1. s \in Seq(Item)
      BY <1>1, ShownMedia
    <2>2. DOMAIN windows[w] = {"name", "items"} /\ Items(w) = s
      BY <1>1 DEF TablesInv, Items, Rows
    <2>3. /\ Len(s) = r - 1 /\ windows[w].name = Layout[n].name
          /\ \A k \in 1 .. r - 1 : media[s[k].media] = Normalize(Library[Layout[n].items[k]])
      BY <1>1 DEF Holds
    <2> QED BY <2>1, <2>2, <2>3
  <1>3. /\ windows' = [windows EXCEPT ![w] = [windows[w] EXCEPT !.items = t]] /\ media' = media
    BY <1>2 DEF AppendItem, SetItems
  <1>4. serial.item \in Nat /\ m \in Nat
    BY MediaIds DEF TablesInv
  <1>5. x \in Item
    BY <1>4 DEF Item
  <1> HIDE DEF x, s
  <1>6. Len(t) = r /\ t[r] = x /\ \A k \in 1 .. r - 1 : t[k] = s[k]
    <2>1. Len(t) = Len(s) + 1 /\ t[Len(s) + 1] = x /\ \A k \in 1 .. Len(s) : t[k] = s[k]
      BY <1>2, <1>5, AppendProperties
    <2>2. Len(s) = r - 1 /\ Len(s) + 1 = r
      BY <1>2
    <2> HIDE DEF t
    <2> QED BY <2>1, <2>2
  <1> HIDE DEF t
  <1>7. /\ DOMAIN windows' = DOMAIN windows
        /\ windows'[w].name = windows[w].name /\ windows'[w].items = t
        /\ \A v \in DOMAIN windows \ {w} : windows'[v] = windows[v]
    BY <1>1, <1>2, <1>3
  <1>8. Holds(windows', media', w, n, r)
    <2> SUFFICES ASSUME NEW k \in 1 .. r PROVE media[t[k].media] = Normalize(Library[Layout[n].items[k]])
      BY <1>2, <1>3, <1>6, <1>7 DEF Holds
    <2>1. k = r \/ k \in 1 .. r - 1
      OBVIOUS
    <2> QED BY <1>2, <1>6, <2>1
  <1>9. Filled(windows', media', n - 1)
    <2> SUFFICES ASSUME NEW k \in 1 .. n - 1
                 PROVE  \E v \in DOMAIN windows' : Holds(windows', media', v, k, Len(Layout[k].items))
      BY DEF Filled
    <2>1. PICK v \in DOMAIN windows : Holds(windows, media, v, k, Len(Layout[k].items))
      BY <1>1 DEF Filled
    <2>2. k \in DOMAIN Layout /\ k # n
      BY LayoutLengths
    <2>3. v # w
      BY <1>2, <2>1, <2>2, LayoutAssumption DEF Holds
    <2>4. windows'[v] = windows[v]
      BY <1>7, <2>3
    <2>5. Holds(windows', media', v, k, Len(Layout[k].items))
      BY <1>3, <2>1, <2>4 DEF Holds
    <2> QED BY <1>7, <2>5
  <1>10. Counted(windows', n)
    <2>1. \A v \in DOMAIN windows : windows'[v].name = windows[v].name
      BY <1>7
    <2> QED BY <1>1, <1>7, <2>1 DEF Counted, NamesUpTo
  <1> QED BY <1>1, <1>7, <1>8, <1>9, <1>10 DEF Partly

\* The loops of Run go on, or the layout is there.
LEMMA NextItemStores ==
    ASSUME NEW i, NEW q, DOMAIN q = Fields, NEW n \in DOMAIN Layout, q.step = n,
           NEW r \in Nat, r <= Len(Layout[n].items), q.row = r,
           NEW W, NEW M, Partly(W, M, n, q.window, r)
    PROVE  LET p == NextItem(i, q)
           IN  /\ IF Leads(p) THEN Stores(p, W, M) ELSE Whole(W, M, Len(Layout))
               /\ p.pc \in Seeding => p.library = q.library
               /\ p.pc \notin Wiping
  <1> DEFINE p == NextItem(i, q)
             l == Len(Layout[n].items)
  <1>1. l \in Nat /\ n \in Nat /\ n >= 1 /\ Len(Layout) \in Nat /\ n <= Len(Layout)
    BY LayoutLengths
  <1>2. CASE r < l
    <2>1. p = [q EXCEPT !.pc = "seed item", !.row = @ + 1]
      BY <1>2 DEF NextItem
    <2> HIDE DEF p
    <2>2. /\ p.pc = "seed item" /\ p.row = r + 1 /\ p.step = n /\ p.library = q.library
          /\ p.window = q.window
      BY <2>1 DEF Fields
    <2>3. (r + 1) - 1 = r
      OBVIOUS
    <2>4. p.row - 1 = r
      BY <2>2, <2>3, Zenon
    <2> QED BY <2>2, <2>4 DEF Leads, Stores, Wiping, p
  <1>3. CASE ~ (r < l)
    <2>1. r = l
      BY <1>1, <1>3
    <2>2. Whole(W, M, n)
      <3> HIDE DEF l
      <3>1. /\ Counted(W, n) /\ Filled(W, M, n - 1)
            /\ q.window \in DOMAIN W /\ Holds(W, M, q.window, n, l)
        BY <2>1 DEF Partly
      <3>2. ASSUME NEW k \in 1 .. n
            PROVE  \E w \in DOMAIN W : Holds(W, M, w, k, Len(Layout[k].items))
        <4>1. CASE k = n
          BY <3>1, <4>1 DEF l
        <4>2. CASE k \in 1 .. n - 1
          BY <3>1, <4>2 DEF Filled
        <4> QED BY <1>1, <4>1, <4>2
      <3> QED BY <3>1, <3>2 DEF Whole, Filled
    <2>3. CASE n < Len(Layout)
      <3>1. p = [q EXCEPT !.pc = "seed window", !.step = @ + 1, !.row = 0]
        BY <1>3, <2>3 DEF NextItem
      <3> HIDE DEF p
      <3>2. p.pc = "seed window" /\ p.step = n + 1 /\ p.library = q.library
        BY <3>1 DEF Fields
      <3>3. (n + 1) - 1 = n /\ n + 1 > 1
        <4>1. n \in Nat /\ n >= 1
          BY <1>1
        <4> QED BY <4>1
      <3>4. p.step - 1 = n /\ p.step > 1
        BY <3>2, <3>3, Zenon
      <3> QED BY <2>2, <3>2, <3>4 DEF Leads, Stores, Wiping, p
    <2>4. CASE ~ (n < Len(Layout))
      <3>1. n = Len(Layout)
        BY <1>1, <2>4
      <3>2. p = [NoProcess EXCEPT !.pc = AfterSeed(i), !.kind = q.kind, !.crowded = q.crowded]
        BY <1>3, <2>4 DEF NextItem
      <3> HIDE DEF p
      <3>3. p.pc \in {"restore", "done"}
        BY <3>2 DEF NoProcess, AfterSeed
      <3> QED BY <2>2, <3>1, <3>3 DEF Leads, Seeding, Wiping, p
    <2> QED BY <2>3, <2>4
  <1> QED BY <1>2, <1>3

\* Two records of a process that differ in its history at most.
Alike(p, q) ==
    /\ p.pc = q.pc /\ p.kind = q.kind /\ p.step = q.step /\ p.row = q.row
    /\ p.window = q.window /\ p.library = q.library

LEMMA AlikeStores ==
    ASSUME NEW p, NEW q, Alike(p, q)
    PROVE  /\ Leads(p) <=> Leads(q)
           /\ \A W, M : Stores(q, W, M) => Stores(p, W, M)
           /\ \A M : Stocked(q, M) => Stocked(p, M)
  BY DEF Alike, Leads, Stores, Stocked

LEMMA FailedIs ==
    ASSUME NEW i, NEW faulted
    PROVE  /\ Failed(i, faulted).pc = "failed" /\ DOMAIN Failed(i, faulted) = Fields
           /\ Failed(i, faulted).pc \notin Wiping \cup Seeding /\ ~ Leads(Failed(i, faulted))
  BY DEF Failed, NoProcess, Fields, Wiping, Seeding, Leads

LEMMA WritesWipers ==
    ASSUME IInv, Wipers, NEW i \in Instances, NEW process, DOMAIN process = Fields, Writes(i, process),
           process.pc \in Wiping => process.kind = "force"
    PROVE  Wipers'
  <1> DEFINE Other(j, lost) == IF j # i THEN inst[j] ELSE IF lost THEN Failed(i, TRUE) ELSE process
             Noted(j) == j \in Beside(i) \/ (j = i /\ Beside(i) # {})
  <1>1. PICK lost : inst' = [j \in Instances |-> IF Noted(j) THEN [Other(j, lost) EXCEPT !.crowded = TRUE]
                                                ELSE Other(j, lost)]
    BY DEF Writes
  <1>2. ASSUME NEW j \in Instances PROVE inst'[j].pc \in Wiping => inst'[j].kind = "force"
    <2> DEFINE p == Other(j, lost)
    <2>1. DOMAIN p = Fields /\ (p.pc \in Wiping => p.kind = "force")
      BY FailedIs DEF IInv, Shape, Wipers
    <2>2. inst'[j] = p \/ inst'[j] = [p EXCEPT !.crowded = TRUE]
      BY <1>1
    <2> HIDE DEF p
    <2> QED BY <2>1, <2>2 DEF Fields
  <1> QED BY <1>2 DEF Wipers

\* Nothing is torn by a process that writes while none but such as seed a new
\* database are beside it.
LEMMA WritesUntorn ==
    ASSUME IInv, NEW i \in Instances, NEW process, DOMAIN process = Fields, Writes(i, process), ~ torn'
    PROVE  /\ ~ torn
           /\ \A j \in Instances \ {i} : Alike(inst'[j], inst[j])
           /\ Alike(inst'[i], process)
           /\ \A j \in Beside(i) : inst[j].kind # "force" /\ inst[i].kind # "force"
  <1> DEFINE Other(j, lost) == IF j # i THEN inst[j] ELSE IF lost THEN Failed(i, TRUE) ELSE process
             Noted(j) == j \in Beside(i) \/ (j = i /\ Beside(i) # {})
             torn1(lost) == torn \/ lost \/ (Beside(i) # {} /\
                                      \E j \in Beside(i) \cup {i} : inst[j].kind = "force")
  <1>1. PICK lost \in BOOLEAN :
            /\ inst' = [j \in Instances |-> IF Noted(j) THEN [Other(j, lost) EXCEPT !.crowded = TRUE]
                                            ELSE Other(j, lost)]
            /\ torn' = torn1(lost)
    BY DEF Writes
  <1>2. ~ torn1(lost)
    BY <1>1
  <1>3. ~ torn /\ ~ lost /\ \A j \in Beside(i) : inst[j].kind # "force" /\ inst[i].kind # "force"
    BY <1>2
  <1>4. ASSUME NEW j \in Instances, NEW p, DOMAIN p = Fields, p = Other(j, lost) PROVE Alike(inst'[j], p)
    <2>1. inst'[j] = p \/ inst'[j] = [p EXCEPT !.crowded = TRUE]
      BY <1>1, <1>4
    <2> QED BY <1>4, <2>1 DEF Alike, Fields
  <1>5. \A j \in Instances \ {i} : Alike(inst'[j], inst[j])
    <2> TAKE j \in Instances \ {i}
    <2>1. Other(j, lost) = inst[j] /\ DOMAIN inst[j] = Fields
      BY DEF IInv, Shape
    <2> QED BY <1>4, <2>1
  <1>6. Alike(inst'[i], process)
    BY <1>3, <1>4
  <1> QED BY <1>3, <1>5, <1>6

\* Process i becomes p, and the tables stay.
LEMMA MovesTidy ==
    ASSUME IInv, WInv, NEW i \in Instances, NEW p, inst' = [inst EXCEPT ![i] = p],
           UNCHANGED tables, env' = env, torn => torn',
           p.pc \in Wiping => p.kind = "force", ~ Leads(p), p.pc \in Seeding => Stocked(p, media),
           \/ torn' \/ env.calls # {}
           \/ ~ Leads(inst[i]) /\ inst[i].pc # "wipe windows"
    PROVE  WInv'
  <1>1. windows' = windows /\ media' = media
    BY DEF tables
  <1>2. inst'[i] = p /\ \A j \in Instances \ {i} : inst'[j] = inst[j]
    BY DEF IInv, Shape
  <1>3. Wipers'
    BY <1>2 DEF WInv, Wipers
  <1>4. ASSUME env.calls = {}, ~ torn' PROVE Tidy'
    <2>1. Tidy /\ ~ Leads(inst[i]) /\ inst[i].pc # "wipe windows"
      BY <1>4 DEF WInv
    <2>2. \A j \in Instances : Leads(inst'[j]) => j # i /\ inst'[j] = inst[j]
      BY <1>2
    <2>3. \A j \in Instances : inst'[j].pc \in Seeding => Stocked(inst'[j], media)
      BY <1>2, <2>1 DEF Tidy
    <2>4. \A j, k \in Instances : Leads(inst'[j]) /\ Leads(inst'[k]) => j = k
      BY <2>1, <2>2 DEF Tidy
    <2>5. \A j \in Instances : Leads(inst'[j]) => Stores(inst'[j], windows, media)
      BY <2>1, <2>2 DEF Tidy
    <2>6. ASSUME windows # <<>>, \A j \in Instances : ~ Leads(inst'[j]) /\ inst'[j].pc # "wipe windows"
          PROVE  Whole(windows, media, Len(Layout))
      <3>1. \A j \in Instances : ~ Leads(inst[j]) /\ inst[j].pc # "wipe windows"
        BY <1>2, <2>1, <2>6
      <3> QED BY <2>1, <2>6, <3>1 DEF Tidy
    <2> QED BY <1>1, <2>3, <2>4, <2>5, <2>6 DEF Tidy
  <1> QED BY <1>3, <1>4 DEF WInv

LEMMA FailTidy ==
    ASSUME IInv, WInv, NEW i \in Instances, NEW faulted, Fail(i, faulted), UNCHANGED tables, env' = env,
           faulted \/ torn \/ env.calls # {} \/ (~ Leads(inst[i]) /\ inst[i].pc # "wipe windows")
    PROVE  WInv'
  <1> DEFINE p == Failed(i, faulted)
  <1>1. inst' = [inst EXCEPT ![i] = p] /\ torn' = (torn \/ (faulted /\ inst[i].pc \in Wiping \cup Seeding))
    BY DEF Fail, Proceed
  <1>2. p.pc \notin Wiping \cup Seeding /\ ~ Leads(p)
    BY FailedIs
  <1> HIDE DEF p
  <1>3. torn' \/ env.calls # {} \/ (~ Leads(inst[i]) /\ inst[i].pc # "wipe windows")
    <2>1. CASE inst[i].pc \in Wiping \cup Seeding
      BY <1>1, <2>1
    <2>2. CASE inst[i].pc \notin Wiping \cup Seeding
      BY <2>2 DEF Wiping, Seeding, Leads
    <2> QED BY <2>1, <2>2
  <1>4. torn => torn'
    BY <1>1, Zenon
  <1> QED BY <1>1, <1>2, <1>3, <1>4, MovesTidy

\* Process i goes from one step that does not touch the tables to another.
LEMMA StepsTidy ==
    ASSUME IInv, WInv, NEW i \in Instances, NEW p, inst' = [inst EXCEPT ![i] = p],
           UNCHANGED tables, env' = env, torn' = torn,
           inst[i].pc \notin Wiping \cup Seeding, p.pc \notin Wiping \cup Seeding
    PROVE  WInv'
  <1>1. ~ Leads(p) /\ ~ Leads(inst[i]) /\ inst[i].pc # "wipe windows"
    BY DEF Leads, Wiping, Seeding
  <1> QED BY <1>1, MovesTidy

LEMMA MigratingTidy ==
    ASSUME IInv, WInv, NEW i \in Instances, env' = env,
           Connect(i) \/ AcquireLock(i) \/ CheckMigration(i) \/ Serve(i)
    PROVE  WInv'
  <1>1. DOMAIN inst[i] = Fields /\ DOMAIN inst = Instances /\ UNCHANGED tables /\ torn' = torn
    BY DEF Connect, AcquireLock, CheckMigration, Serve, IInv, Shape
  <1>2. inst[i].pc \in {"connect", "lock", "check", "restore"}
    BY DEF Connect, AcquireLock, CheckMigration, Serve, At
  <1>3. \E p : inst' = [inst EXCEPT ![i] = p] /\ p.pc \in {"lock", "check", "unlock", "apply", "serving"}
    <2>1. CASE Connect(i)
      <3> DEFINE p == [inst[i] EXCEPT !.pc = "lock"]
      <3>1. inst' = [inst EXCEPT ![i] = p] /\ p.pc = "lock"
        BY <1>1, <2>1 DEF Connect, Fields
      <3> QED BY <3>1
    <2>2. CASE AcquireLock(i)
      <3> DEFINE p == [[inst[i] EXCEPT !.pc = "check"] EXCEPT !.step = 1]
      <3>1. inst' = [inst EXCEPT ![i] = p]
        BY <1>1, <2>2 DEF AcquireLock
      <3>2. p.pc = "check"
        BY <1>1 DEF Fields
      <3> QED BY <3>1, <3>2
    <2>3. CASE CheckMigration(i)
      <3> DEFINE p == IF inst[i].step > Migrations THEN [inst[i] EXCEPT !.pc = "unlock", !.step = 0]
                      ELSE IF inst[i].step \in recorded THEN [inst[i] EXCEPT !.step = @ + 1]
                      ELSE [inst[i] EXCEPT !.pc = "apply"]
      <3>1. inst' = [inst EXCEPT ![i] = p] /\ inst[i].pc = "check"
        BY <2>3 DEF CheckMigration, Proceed, At
      <3>2. p.pc \in {"check", "unlock", "apply"}
        BY <1>1, <3>1 DEF Fields
      <3> QED BY <3>1, <3>2
    <2>4. CASE Serve(i)
      <3> DEFINE p == [inst[i] EXCEPT !.pc = "serving"]
      <3>1. inst' = [inst EXCEPT ![i] = p] /\ p.pc = "serving"
        BY <1>1, <2>4 DEF Serve, Proceed, Fields
      <3> QED BY <3>1
    <2> QED BY <2>1, <2>2, <2>3, <2>4
  <1>4. PICK p : inst' = [inst EXCEPT ![i] = p] /\ p.pc \in {"lock", "check", "unlock", "apply", "serving"}
    BY <1>3
  <1>5. inst[i].pc \notin Wiping \cup Seeding /\ p.pc \notin Wiping \cup Seeding
    BY <1>2, <1>4 DEF Wiping, Seeding
  <1> QED BY <1>1, <1>4, <1>5, StepsTidy

LEMMA ApplyTidy == ASSUME IInv, WInv, NEW i \in Instances, ApplyMigration(i), env' = env PROVE WInv'
  <1>1. /\ inst[i].pc = "apply" /\ DOMAIN inst[i] = Fields /\ DOMAIN inst = Instances /\ UNCHANGED tables
        /\ ~ Leads(inst[i]) /\ inst[i].pc # "wipe windows" /\ inst[i].pc \notin Wiping \cup Seeding
    BY DEF ApplyMigration, At, IInv, Shape, Leads, Wiping, Seeding
  <1>2. CASE inst' = [inst EXCEPT ![i].pc = "check", ![i].step = @ + 1] /\ UNCHANGED <<holder, torn>>
    <2> DEFINE p == [[inst[i] EXCEPT !.pc = "check"] EXCEPT !.step = @ + 1]
    <2>1. inst' = [inst EXCEPT ![i] = p]
      BY <1>1, <1>2
    <2>2. p.pc = "check"
      BY <1>1 DEF Fields
    <2> HIDE DEF p
    <2>3. p.pc \notin Wiping \cup Seeding /\ torn' = torn
      BY <1>2, <2>2 DEF Wiping, Seeding
    <2> QED BY <1>1, <2>1, <2>3, StepsTidy
  <1>3. ASSUME NEW faulted, Fail(i, faulted) PROVE WInv'
    BY <1>1, <1>3, FailTidy
  <1> QED BY <1>2, <1>3 DEF ApplyMigration

LEMMA UnlockTidy == ASSUME IInv, WInv, NEW i \in Instances, Unlock(i), env' = env PROVE WInv'
  <1> DEFINE next == IF inst[i].kind = "force" THEN "wipe items"
                     ELSE IF inst[i].kind = "seed" \/ env.autoSeed THEN "count" ELSE "restore"
             p == [inst[i] EXCEPT !.pc = next]
  <1>1. inst' = [inst EXCEPT ![i] = p] /\ UNCHANGED tables /\ torn' = torn /\ inst[i].pc = "unlock"
    BY DEF Unlock, Proceed, At
  <1>2. p.pc = next /\ p.kind = inst[i].kind
    BY DEF IInv, Shape, Fields
  <1>3. next \in {"wipe items", "count", "restore"} /\ (next = "wipe items" => inst[i].kind = "force")
    OBVIOUS
  <1> HIDE DEF p, next
  <1>4. ~ Leads(p) /\ p.pc \notin Seeding /\ (p.pc \in Wiping => p.kind = "force")
    BY <1>2, <1>3 DEF Leads, Wiping, Seeding
  <1>5. ~ Leads(inst[i]) /\ inst[i].pc # "wipe windows"
    BY <1>1 DEF Leads
  <1> QED BY <1>1, <1>4, <1>5, MovesTidy

LEMMA CountTidy == ASSUME IInv, BInv, WInv, NEW i \in Instances, CountWindows(i), env' = env PROVE WInv'
  <1>1. /\ inst[i].pc = "count" /\ DOMAIN inst[i] = Fields /\ UNCHANGED tables /\ torn' = torn
        /\ ~ Leads(inst[i]) /\ inst[i].pc # "wipe windows" /\ inst[i].library = <<>>
    <2>1. inst[i].pc = "count" /\ UNCHANGED tables /\ torn' = torn
      BY DEF CountWindows, At
    <2>2. Loops(inst[i]) /\ DOMAIN inst[i] = Fields
      BY DEF BInv, Fit, IInv, Shape
    <2> QED BY <2>1, <2>2 DEF Loops, Leads, Seeding
  <1>2. \E p : /\ inst' = [inst EXCEPT ![i] = p] /\ p.library = <<>>
               /\ p.pc \in {"restore", "done", "seed media"}
    <2>1. CASE windows # <<>> /\ inst[i].kind # "force"
      <3> DEFINE p == [inst[i] EXCEPT !.pc = AfterSeed(i)]
      <3>1. inst' = [inst EXCEPT ![i] = p]
        BY <2>1 DEF CountWindows, Proceed
      <3>2. p.library = <<>> /\ p.pc \in {"restore", "done", "seed media"}
        BY <1>1 DEF Fields, AfterSeed
      <3> QED BY <3>1, <3>2
    <2>2. CASE ~ (windows # <<>> /\ inst[i].kind # "force")
      <3> DEFINE p == [inst[i] EXCEPT !.pc = "seed media", !.step = 1]
      <3>1. inst' = [inst EXCEPT ![i] = p]
        BY <2>2 DEF CountWindows, Proceed
      <3>2. p.library = <<>> /\ p.pc \in {"restore", "done", "seed media"}
        BY <1>1 DEF Fields
      <3> QED BY <3>1, <3>2
    <2> QED BY <2>1, <2>2
  <1>3. PICK p : /\ inst' = [inst EXCEPT ![i] = p] /\ p.library = <<>>
                 /\ p.pc \in {"restore", "done", "seed media"}
    BY <1>2
  <1>4. ~ Leads(p) /\ p.pc \notin Wiping /\ Stocked(p, media)
    <2>1. p.library = <<>>
      BY <1>3
    <2>2. \A k \in DOMAIN p.library : FALSE
      BY <2>1
    <2> QED BY <1>3, <2>2 DEF Leads, Wiping, Stocked
  <1> QED BY <1>1, <1>3, <1>4, MovesTidy

\* A -force that is not torn has the tables to itself.
LEMMA WipeTidy ==
    ASSUME IInv, TablesInv, WInv, NEW i \in Instances, Wipe(i), env' = env
    PROVE  WInv'
  <1>1. /\ inst[i].pc \in Wiping /\ inst[i].kind = "force" /\ DOMAIN inst[i] = Fields
    BY DEF Wipe, At, Wiping, WInv, Wipers, IInv, Shape
  <1>2. ASSUME NEW pc \in {"wipe windows", "wipe media", "count"}, Writes(i, [inst[i] EXCEPT !.pc = pc]),
               \/ pc = "wipe windows"
               \/ windows' = <<>>
               \/ /\ windows' = windows /\ inst[i].pc # "wipe windows"
                  /\ Whole(windows, media, Len(Layout)) => Whole(windows, media', Len(Layout))
        PROVE  WInv'
    <2> DEFINE p == [inst[i] EXCEPT !.pc = pc]
    <2>1. /\ p.pc = pc /\ p.kind = "force" /\ DOMAIN p = Fields /\ Writes(i, p)
          /\ p.pc \notin Seeding /\ ~ Leads(p)
      BY <1>1, <1>2 DEF Fields, Seeding, Leads
    <2> HIDE DEF p
    <2>2. Wipers'
      BY <2>1, WritesWipers DEF WInv
    <2>3. ASSUME env.calls = {}, ~ torn' PROVE Tidy'
      <3>1. /\ ~ torn /\ Alike(inst'[i], p)
            /\ \A j \in Instances \ {i} : Alike(inst'[j], inst[j])
            /\ \A j \in Beside(i) : inst[i].kind # "force"
        BY <2>1, <2>3, WritesUntorn
      <3>2. Tidy
        BY <2>3, <3>1 DEF WInv
      <3>3. \A j \in Instances \ {i} : inst[j].pc \notin Wiping \cup Seeding /\ inst'[j].pc = inst[j].pc
        BY <1>1, <3>1 DEF Beside, Alike
      <3>4. \A j \in Instances : inst'[j].pc \notin Seeding /\ ~ Leads(inst'[j])
        <4> TAKE j \in Instances
        <4>1. CASE j = i
          BY <2>1, <3>1, <4>1, AlikeStores DEF Alike
        <4>2. CASE j # i
          BY <3>3, <4>2 DEF Leads, Seeding
        <4> QED BY <4>1, <4>2
      <3>5. ASSUME windows' # <<>>, \A j \in Instances : inst'[j].pc # "wipe windows"
            PROVE  Whole(windows', media', Len(Layout))
        <4>1. pc # "wipe windows"
          BY <2>1, <3>1, <3>5 DEF Alike
        <4>2. /\ windows' = windows /\ inst[i].pc # "wipe windows"
              /\ Whole(windows, media, Len(Layout)) => Whole(windows, media', Len(Layout))
          BY <1>2, <3>5, <4>1
        <4>3. \A j \in Instances : ~ Leads(inst[j]) /\ inst[j].pc # "wipe windows"
          <5> TAKE j \in Instances
          <5>1. CASE j = i
            BY <1>1, <4>2, <5>1 DEF Leads, Wiping
          <5>2. CASE j # i
            BY <3>3, <5>2 DEF Leads, Seeding, Wiping
          <5> QED BY <5>1, <5>2
        <4>4. Whole(windows, media, Len(Layout))
          BY <3>2, <3>5, <4>2, <4>3 DEF Tidy
        <4> QED BY <4>2, <4>4
      <3> QED BY <3>4, <3>5 DEF Tidy
    <2> QED BY <2>2, <2>3 DEF WInv
  <1>3. CASE At(i, "wipe items") /\ DeleteAll("playlist_items")
               /\ Writes(i, [inst[i] EXCEPT !.pc = "wipe windows"])
    BY <1>2, <1>3
  <1>4. CASE At(i, "wipe windows") /\ DeleteAll("windows")
               /\ Writes(i, [inst[i] EXCEPT !.pc = "wipe media"])
    <2>1. windows' = <<>>
      BY <1>4 DEF DeleteAll
    <2> QED BY <1>2, <1>4, <2>1
  <1>5. CASE At(i, "wipe media") /\ (\A m \in Rows(media) : ~ InUse(m)) /\ DeleteAll("media")
               /\ Writes(i, [inst[i] EXCEPT !.pc = "count"])
    <2>1. windows' = windows /\ inst[i].pc # "wipe windows"
      BY <1>5 DEF DeleteAll, At
    <2>2. ASSUME NEW w \in DOMAIN windows, NEW n, NEW r, Holds(windows, media, w, n, r)
          PROVE  Holds(windows, media', w, n, r)
      <3>1. DOMAIN windows[w].items = 1 .. r /\ \A k \in 1 .. r : windows[w].items[k].media \in DOMAIN media
        BY <2>2, ShownMedia
      <3>2. Items(w) = windows[w].items /\ w \in Rows(windows)
        BY DEF Items, Rows
      <3>3. \A k \in 1 .. r : FALSE
        BY <1>5, <3>1, <3>2 DEF InUse, Rows
      <3> QED BY <2>2, <3>3 DEF Holds
    <2>3. Whole(windows, media, Len(Layout)) => Whole(windows, media', Len(Layout))
      BY <2>2 DEF Whole, Filled
    <2> QED BY <1>2, <1>5, <2>1, <2>3
  <1>6. CASE At(i, "wipe media") /\ Fail(i, FALSE) /\ UNCHANGED <<tables, recorded, applied, boots>>
    <2>1. ~ Leads(inst[i]) /\ inst[i].pc # "wipe windows" /\ UNCHANGED tables
      BY <1>6 DEF At, Leads
    <2> QED BY <1>6, <2>1, FailTidy
  <1> QED BY <1>3, <1>4, <1>5, <1>6 DEF Wipe

LEMMA FirstPlace == 1 \in 1 .. Len(Layout)
  <1>1. Len(Layout) \in Nat \ {0}
    BY LayoutAssumption
  <1> QED BY <1>1

LEMMA NoRows == ASSUME NEW f, f = <<>> PROVE DOMAIN f = {}
  OBVIOUS

\* Once a process leads, the first window of the layout is there.
LEMMA FirstIsThere ==
    ASSUME IInv, BInv, Tidy, NEW j \in Instances, Leads(inst[j])
    PROVE  \E w \in DOMAIN windows : windows[w].name = Layout[1].name
  <1> DEFINE n == inst[j].step
  <1>1. n \in DOMAIN Layout /\ Stores(inst[j], windows, media) /\ inst[j].pc \in {"seed window", "seed item"}
    BY SeedingIs DEF Leads, Tidy
  <1>2. n \in Nat /\ n >= 1
    BY <1>1, LayoutLengths
  <1>3. CASE n > 1
    <2>1. Filled(windows, media, n - 1)
      BY <1>1 DEF Stores, Whole, Partly
    <2>2. 1 \in 1 .. n - 1
      BY <1>2, <1>3
    <2> HIDE DEF n
    <2> QED BY <2>1, <2>2 DEF Filled, Holds
  <1>4. CASE n = 1
    <2>0. ~ (inst[j].step > 1)
      BY <1>4
    <2>1. inst[j].pc = "seed item"
      BY <2>0 DEF Leads
    <2>2. Partly(windows, media, 1, inst[j].window, inst[j].row - 1)
      BY <1>1, <1>4, <2>1 DEF Stores
    <2> QED BY <2>2 DEF Partly, Holds
  <1> QED BY <1>2, <1>3, <1>4

\* Where it is not, there is no window, unless they are being cleared.
LEMMA NothingYet ==
    ASSUME IInv, BInv, Tidy, \A j \in Instances : inst[j].pc # "wipe windows",
           ~ NameTaken(Layout[1].name)
    PROVE  DOMAIN windows = {} /\ \A j \in Instances : ~ Leads(inst[j])
  <1>1. \A w \in DOMAIN windows : windows[w].name # Layout[1].name
    BY DEF NameTaken, Rows
  <1>2. \A j \in Instances : ~ Leads(inst[j])
    BY <1>1, FirstIsThere
  <1>3. ASSUME windows # <<>> PROVE FALSE
    <2>1. Filled(windows, media, Len(Layout))
      BY <1>2, <1>3 DEF Tidy, Whole
    <2> QED BY <1>1, <2>1, FirstPlace DEF Filled, Holds
  <1>4. windows = <<>>
    BY <1>3
  <1> QED BY <1>2, <1>4, NoRows

LEMMA SeedMediaTidy ==
    ASSUME IInv, TablesInv, BInv, WInv, NEW i \in Instances, SeedMedia(i), env' = env
    PROVE  WInv'
  <1> DEFINE in == Normalize(Library[inst[i].step])
             m == serial.media
             l == inst[i].library
             q == [inst[i] EXCEPT !.library = Append(@, m)]
             p == IF q.step < Len(Library) THEN [q EXCEPT !.step = @ + 1]
                  ELSE [q EXCEPT !.pc = "seed window", !.step = 1]
  <1>1. Loops(inst[i]) /\ DOMAIN inst[i] = Fields /\ inst[i].pc = "seed media"
    BY DEF BInv, Fit, IInv, Shape, SeedMedia, At
  <1>2. l \in Seq(Nat) /\ Len(l) = inst[i].step - 1 /\ inst[i].step \in Nat
    <2>1. inst[i].step \in 1 .. Len(Library) /\ l \in Seq(Nat) /\ Len(l) = inst[i].step - 1
      BY <1>1 DEF Loops
    <2>2. Len(Library) \in Nat
      BY LibraryAssumption
    <2>3. inst[i].step \in Nat
      BY <2>1, <2>2
    <2> QED BY <2>1, <2>3
  <1>3. media' = With(media, m, in) /\ windows' = windows /\ Writes(i, p)
    BY DEF SeedMedia, InsertMedia
  <1>4. m \notin DOMAIN media /\ m \in Nat
    <2>1. m \in Nat /\ \A k \in DOMAIN media : k \in 1 .. m - 1
      BY DEF TablesInv, Rows
    <2> HIDE DEF m
    <2> QED BY <2>1
  <1>5. q.library = Append(l, m) /\ q.pc = "seed media" /\ DOMAIN q = Fields
    BY <1>1 DEF Fields
  <1>6. /\ p.library = q.library /\ DOMAIN p = Fields
        /\ p.pc \in {"seed media", "seed window"} /\ (p.pc = "seed window" => p.step = 1)
    <2> HIDE DEF q
    <2> QED BY <1>5 DEF Fields
  <1>7. /\ DOMAIN media' = DOMAIN media \cup {m} /\ media'[m] = in
        /\ \A k \in DOMAIN media : media'[k] = media[k]
    <2> HIDE DEF m, in
    <2> QED BY <1>3, <1>4 DEF With
  <1> DEFINE a == Append(l, m)
  <1>8. /\ Len(a) = inst[i].step /\ DOMAIN a = 1 .. inst[i].step /\ a[inst[i].step] = m
        /\ \A k \in 1 .. inst[i].step - 1 : a[k] = l[k] /\ k \in DOMAIN l
    <2> HIDE DEF l, m
    <2>1. /\ Len(a) = Len(l) + 1 /\ a[Len(l) + 1] = m /\ a \in Seq(Nat) /\ Len(l) \in Nat
          /\ \A k \in 1 .. Len(l) : a[k] = l[k]
      BY <1>2, <1>4, AppendProperties
    <2>2. DOMAIN a = 1 .. Len(a) /\ DOMAIN l = 1 .. Len(l)
      BY <1>2, <2>1
    <2>3. Len(l) + 1 = inst[i].step
      BY <1>2
    <2> HIDE DEF a
    <2> QED BY <1>2, <2>1, <2>2, <2>3
  <1> HIDE DEF p
  <1>9. Wipers'
    BY <1>3, <1>6, WritesWipers DEF WInv, Wiping
  <1>10. ASSUME env.calls = {}, ~ torn' PROVE Tidy'
    <2>1. /\ ~ torn /\ Alike(inst'[i], p) /\ \A j \in Instances \ {i} : Alike(inst'[j], inst[j])
      BY <1>3, <1>6, <1>10, WritesUntorn
    <2>2. Tidy
      BY <1>10, <2>1 DEF WInv
    <2>3. Stocked(p, media')
      <3> SUFFICES ASSUME NEW k \in DOMAIN a
                   PROVE  a[k] \in DOMAIN media' /\ media'[a[k]] = Normalize(Library[k])
        BY <1>5, <1>6 DEF Stocked
      <3> HIDE DEF a, l, m
      <3>1. CASE k = inst[i].step
        BY <1>7, <1>8, <3>1
      <3>2. CASE k \in 1 .. inst[i].step - 1
        <4>1. l[k] \in DOMAIN media /\ media[l[k]] = Normalize(Library[k])
          BY <1>1, <1>8, <2>2, <3>2 DEF Tidy, Stocked, Seeding, l
        <4> QED BY <1>7, <1>8, <3>2, <4>1
      <3> QED BY <1>2, <1>8, <3>1, <3>2
    <2>4. ASSUME NEW j \in Instances, inst'[j].pc \in Seeding PROVE Stocked(inst'[j], media')
      <3>1. CASE j = i
        BY <2>1, <2>3, <3>1, AlikeStores
      <3>2. CASE j # i
        <4>1. Alike(inst'[j], inst[j]) /\ inst[j].pc \in Seeding
          BY <2>1, <2>4, <3>2 DEF Alike
        <4>2. Stocked(inst[j], media)
          BY <2>2, <4>1 DEF Tidy
        <4>3. Stocked(inst[j], media')
          BY <1>7, <4>2 DEF Stocked
        <4> QED BY <4>1, <4>3, AlikeStores
      <3> QED BY <3>1, <3>2
    <2>5. ~ Leads(p) /\ ~ Leads(inst[i])
      <3> HIDE DEF in, m, l, q, a
      <3>1. p.pc # "seed item" /\ (p.pc = "seed window" => p.step = 1)
        BY <1>6, Zenon
      <3>2. ~ (1 > 1)
        OBVIOUS
      <3>3. ~ Leads(p)
        BY <3>1, <3>2 DEF Leads
      <3> QED BY <1>1, <3>3 DEF Leads
    <2>6. ~ Leads(inst'[i]) /\ inst'[i].pc # "wipe windows" /\ inst[i].pc # "wipe windows"
      BY <1>1, <1>6, <2>1, <2>5, AlikeStores DEF Alike
    <2>7. \A j \in Instances : (Leads(inst'[j]) <=> Leads(inst[j])) /\ (Leads(inst[j]) => j # i)
      BY <2>1, <2>5, <2>6, AlikeStores
    <2>8. ASSUME NEW j \in Instances, Leads(inst'[j]) PROVE Stores(inst'[j], windows', media')
      <3>1. Alike(inst'[j], inst[j]) /\ Leads(inst[j])
        BY <2>1, <2>7, <2>8
      <3>2. Stores(inst[j], windows, media)
        BY <2>2, <3>1 DEF Tidy
      <3>3. Stores(inst[j], windows', media')
        BY <1>3, <1>7, <3>2, StaysWhole
      <3> QED BY <3>1, <3>3, AlikeStores
    <2>9. ASSUME windows' # <<>>, \A j \in Instances : ~ Leads(inst'[j]) /\ inst'[j].pc # "wipe windows"
          PROVE  Whole(windows', media', Len(Layout))
      <3>1. \A j \in Instances : inst[j].pc # "wipe windows"
        BY <2>1, <2>6, <2>9 DEF Alike
      <3>2. Whole(windows, media, Len(Layout))
        BY <1>3, <2>2, <2>7, <2>9, <3>1 DEF Tidy
      <3> QED BY <1>3, <1>7, <3>2, StaysWhole
    <2> QED BY <2>2, <2>4, <2>7, <2>8, <2>9 DEF Tidy
  <1> QED BY <1>9, <1>10 DEF WInv

\* Process i stores a window or an item, as the only one that does.
LEMMA LeaderTidy ==
    ASSUME IInv, WInv, NEW i \in Instances, inst[i].pc \in Seeding, NEW p, DOMAIN p = Fields,
           Writes(i, p), p.pc \notin Wiping, env' = env, media' = media,
           Tidy /\ (\A j \in Instances : inst[j].pc # "wipe windows") =>
               /\ \A j \in Instances \ {i} : ~ Leads(inst[j])
               /\ IF Leads(p) THEN Stores(p, windows', media) ELSE Whole(windows', media, Len(Layout))
               /\ p.pc \in Seeding => p.library = inst[i].library
    PROVE  WInv'
  <1>1. Wipers'
    BY WritesWipers DEF WInv
  <1>2. ASSUME env.calls = {}, ~ torn' PROVE Tidy'
    <2>1. /\ ~ torn /\ Alike(inst'[i], p) /\ \A j \in Instances \ {i} : Alike(inst'[j], inst[j])
          /\ \A j \in Beside(i) : inst[j].kind # "force"
      BY <1>2, WritesUntorn
    <2>2. Tidy
      BY <1>2, <2>1 DEF WInv
    <2>3. ASSUME NEW j \in Instances PROVE inst[j].pc # "wipe windows"
      <3>1. CASE j = i
        BY <3>1 DEF Seeding
      <3>2. CASE j # i
        BY <2>1, <3>2 DEF Beside, WInv, Wipers, Wiping
      <3> QED BY <3>1, <3>2
    <2>4. /\ \A j \in Instances \ {i} : ~ Leads(inst[j])
          /\ IF Leads(p) THEN Stores(p, windows', media) ELSE Whole(windows', media, Len(Layout))
          /\ p.pc \in Seeding => p.library = inst[i].library
      BY <2>2, <2>3
    <2>5. ASSUME NEW j \in Instances, inst'[j].pc \in Seeding PROVE Stocked(inst'[j], media)
      <3>1. CASE j = i
        <4>1. Stocked(inst[i], media) /\ p.pc \in Seeding
          BY <2>1, <2>2, <2>5, <3>1 DEF Tidy, Alike
        <4>2. Stocked(p, media)
          BY <2>4, <4>1 DEF Stocked
        <4> QED BY <2>1, <3>1, <4>2, AlikeStores
      <3>2. CASE j # i
        <4>1. Alike(inst'[j], inst[j]) /\ inst[j].pc \in Seeding
          BY <2>1, <2>5, <3>2 DEF Alike
        <4>2. Stocked(inst[j], media)
          BY <2>2, <4>1 DEF Tidy
        <4> QED BY <4>1, <4>2, AlikeStores
      <3> QED BY <3>1, <3>2
    <2>6. \A j \in Instances \ {i} : ~ Leads(inst'[j])
      BY <2>1, <2>4, AlikeStores
    <2>7. \A j \in Instances : Leads(inst'[j]) => j = i /\ Stores(inst'[i], windows', media)
      BY <2>1, <2>4, <2>6, AlikeStores
    <2>8. (\A j \in Instances : ~ Leads(inst'[j])) => Whole(windows', media, Len(Layout))
      BY <2>1, <2>4, AlikeStores
    <2> QED BY <2>5, <2>7, <2>8 DEF Tidy
  <1> QED BY <1>1, <1>2 DEF WInv

LEMMA SeedWindowTidy ==
    ASSUME IInv, TablesInv, BInv, WInv, NEW i \in Instances, SeedWindow(i), env' = env
    PROVE  WInv'
  <1> DEFINE n == inst[i].step
             name == Layout[n].name
  <1>1. /\ DOMAIN inst[i] = Fields /\ n \in DOMAIN Layout /\ inst[i].row = 0 /\ inst[i].pc = "seed window"
    BY SeedingIs DEF SeedWindow, At
  <1>2. /\ n \in Nat /\ n >= 1 /\ \A k \in DOMAIN Layout : Layout[k].name = name => k = n
    BY <1>1, LayoutAssumption, LayoutLengths
  <1>3. CASE NameTaken(name) /\ Fail(i, FALSE) /\ UNCHANGED <<tables, recorded, applied, boots>>
    <2>1. ASSUME Tidy, Leads(inst[i]) PROVE FALSE
      <3>1. NamesUpTo(windows, n - 1)
        BY <1>1, <2>1 DEF Tidy, Stores, Whole, Counted
      <3>2. PICK w \in DOMAIN windows : windows[w].name = name
        BY <1>3 DEF NameTaken, Rows
      <3>3. PICK k \in 1 .. n - 1 : Layout[k].name = name
        BY <3>1, <3>2 DEF NamesUpTo
      <3>4. k \in DOMAIN Layout /\ k # n
        <4>1. DOMAIN Layout = 1 .. Len(Layout) /\ Len(Layout) \in Nat /\ n <= Len(Layout)
          BY <1>1, LayoutLengths
        <4> HIDE DEF n
        <4> QED BY <1>2, <4>1
      <3> QED BY <1>2, <3>3, <3>4
    <2>2. torn \/ env.calls # {} \/ (~ Leads(inst[i]) /\ inst[i].pc # "wipe windows")
      BY <1>1, <2>1 DEF WInv
    <2> QED BY <1>3, <2>2, FailTidy
  <1>4. CASE ~ NameTaken(name) /\ InsertWindow(name)
               /\ Writes(i, NextItem(i, [inst[i] EXCEPT !.window = serial.window]))
    <2> DEFINE q == [inst[i] EXCEPT !.window = serial.window]
               p == NextItem(i, q)
    <2>1. /\ q.window = serial.window /\ q.step = n /\ q.row = 0 /\ q.library = inst[i].library
          /\ DOMAIN q = Fields
      BY <1>1 DEF Fields
    <2>2. media' = media /\ Writes(i, p)
      BY <1>4 DEF InsertWindow
    <2> HIDE DEF q
    <2>3. DOMAIN p = Fields /\ p.pc \notin Wiping
      BY <2>1, NextItemIsOut
    <2>4. ASSUME Tidy, \A j \in Instances : inst[j].pc # "wipe windows"
          PROVE  /\ \A j \in Instances \ {i} : ~ Leads(inst[j])
                 /\ IF Leads(p) THEN Stores(p, windows', media) ELSE Whole(windows', media, Len(Layout))
                 /\ p.pc \in Seeding => p.library = inst[i].library
      <3>1. Whole(windows, media, n - 1) /\ \A j \in Instances \ {i} : ~ Leads(inst[j])
        <4>1. CASE n > 1
          <5>1. Leads(inst[i])
            BY <1>1, <4>1 DEF Leads
          <5> QED BY <1>1, <2>4, <5>1 DEF Tidy, Stores
        <4>2. CASE n = 1
          <5>1. DOMAIN windows = {} /\ \A j \in Instances : ~ Leads(inst[j])
            BY <1>4, <2>4, <4>2, NothingYet
          <5>2. n - 1 = 0
            BY <4>2
          <5>3. Whole(windows, media, 0)
            BY <5>1, NothingIsWhole
          <5> QED BY <5>1, <5>2, <5>3
        <4> QED BY <1>2, <4>1, <4>2
      <3>2. Partly(windows', media', n, serial.window, 0)
        BY <1>1, <1>4, <3>1, WindowIsPartly
      <3>3. 0 <= Len(Layout[n].items)
        BY <1>1, LayoutLengths, OnePlace
      <3> DEFINE zero == 0
      <3>4. /\ Partly(windows', media, n, q.window, zero) /\ zero \in Nat /\ q.row = zero
            /\ zero <= Len(Layout[n].items)
        BY <2>1, <2>2, <3>2, <3>3
      <3> HIDE DEF zero, p, n
      <3>5. /\ IF Leads(p) THEN Stores(p, windows', media) ELSE Whole(windows', media, Len(Layout))
            /\ p.pc \in Seeding => p.library = q.library
        BY <1>1, <2>1, <3>4, NextItemStores DEF p
      <3> QED BY <2>1, <3>1, <3>5
    <2> HIDE DEF p
    <2>5. inst[i].pc \in Seeding
      BY <1>1 DEF Seeding
    <2> QED BY <2>2, <2>3, <2>4, <2>5, LeaderTidy
  <1> QED BY <1>3, <1>4 DEF SeedWindow

LEMMA SeedItemTidy ==
    ASSUME IInv, TablesInv, BInv, WInv, NEW i \in Instances, SeedItem(i), env' = env
    PROVE  WInv'
  <1> DEFINE n == inst[i].step
             r == inst[i].row
             w == inst[i].window
             m == inst[i].library[Layout[n].items[r]]
             p == NextItem(i, inst[i])
  <1>1. /\ DOMAIN inst[i] = Fields /\ n \in DOMAIN Layout /\ r \in 1 .. Len(Layout[n].items)
        /\ inst[i].library \in Seq(Nat) /\ Len(inst[i].library) = Len(Library)
        /\ inst[i].pc = "seed item"
    BY SeedingIs DEF SeedItem, At
  <1>2. r \in DOMAIN Layout[n].items /\ r \in Nat \ {0} /\ r <= Len(Layout[n].items)
    <2>1. DOMAIN Layout[n].items = 1 .. Len(Layout[n].items) /\ Len(Layout[n].items) \in Nat
      BY <1>1, LayoutAssumption
    <2> HIDE DEF r, n
    <2> QED BY <1>1, <2>1, OnePlace
  <1>3. Layout[n].items[r] \in DOMAIN inst[i].library
    <2>1. Layout[n].items[r] \in DOMAIN Library
      BY <1>1, <1>2, LayoutAssumption
    <2>2. DOMAIN inst[i].library = DOMAIN Library
      <3> DEFINE l == inst[i].library
      <3>1. l \in Seq(Nat) /\ Len(l) = Len(Library)
        BY <1>1
      <3> HIDE DEF l
      <3>2. DOMAIN l = 1 .. Len(l)
        BY <3>1
      <3>3. DOMAIN l = 1 .. Len(Library) /\ DOMAIN Library = 1 .. Len(Library)
        BY <3>1, <3>2, LibraryAssumption, Zenon
      <3> QED BY <3>3 DEF l
    <2> QED BY <2>1, <2>2
  <1>4. ASSUME Tidy
        PROVE  /\ m \in DOMAIN media /\ media[m] = Normalize(Library[Layout[n].items[r]])
               /\ Partly(windows, media, n, w, r - 1) /\ Leads(inst[i])
    <2>1. Leads(inst[i]) /\ inst[i].pc \in Seeding
      BY <1>1 DEF Leads, Seeding
    <2>2. Stores(inst[i], windows, media) /\ Stocked(inst[i], media)
      BY <1>4, <2>1 DEF Tidy
    <2> QED BY <1>1, <1>3, <2>1, <2>2 DEF Stores, Stocked
  <1>5. DOMAIN p = Fields /\ p.pc \notin Wiping
    BY <1>1, NextItemIsOut
  <1> HIDE DEF p
  <1>6. CASE (w \notin Rows(windows) \/ m \notin Rows(media)) /\ Fail(i, FALSE)
               /\ UNCHANGED <<tables, recorded, applied, boots>>
    <2>1. ~ Tidy
      BY <1>4, <1>6 DEF Partly, Rows
    <2>2. torn \/ env.calls # {}
      BY <2>1 DEF WInv
    <2> QED BY <1>6, <2>2, FailTidy
  <1>7. CASE w \in Rows(windows) /\ m \in Rows(media) /\ AppendItem(w, m) /\ Writes(i, p)
    <2>1. media' = media /\ inst[i].pc \in Seeding
      BY <1>1, <1>7 DEF AppendItem, Seeding
    <2>2. ASSUME Tidy
          PROVE  /\ \A j \in Instances \ {i} : ~ Leads(inst[j])
                 /\ IF Leads(p) THEN Stores(p, windows', media) ELSE Whole(windows', media, Len(Layout))
                 /\ p.pc \in Seeding => p.library = inst[i].library
      <3>1. Partly(windows', media', n, w, r)
        <4> HIDE DEF n, r, w, m
        <4> QED BY <1>1, <1>2, <1>4, <1>7, <2>2, ItemIsPartly
      <3>2. \A j \in Instances \ {i} : ~ Leads(inst[j])
        BY <1>4, <2>2 DEF Tidy
      <3>3. r \in Nat /\ Partly(windows', media, n, inst[i].window, r)
        BY <1>2, <2>1, <3>1
      <3> DEFINE q == inst[i]
      <3>4. q.step = n /\ q.row = r /\ DOMAIN q = Fields /\ Partly(windows', media, n, q.window, r)
        BY <1>1, <3>3
      <3> HIDE DEF q, n, r
      <3>5. /\ IF Leads(NextItem(i, q)) THEN Stores(NextItem(i, q), windows', media)
                                        ELSE Whole(windows', media, Len(Layout))
            /\ NextItem(i, q).pc \in Seeding => NextItem(i, q).library = q.library
        BY <1>1, <1>2, <3>3, <3>4, NextItemStores
      <3> QED BY <3>2, <3>5 DEF p, q
    <2> QED BY <1>5, <1>7, <2>1, <2>2, LeaderTidy
  <1> QED BY <1>6, <1>7 DEF SeedItem, p

LEMMA ProcessTidy ==
    ASSUME IInv, TablesInv, BInv, WInv, NEW i \in Instances, Process(i)
    PROVE  WInv'
  <1>1. env' = env
    BY DEF Process, Booting
  <1>2. CASE Booting(i)
    <2>1. CASE Connect(i) \/ AcquireLock(i) \/ CheckMigration(i) \/ Serve(i)
      BY <1>1, <2>1, MigratingTidy
    <2>2. CASE ApplyMigration(i) \/ Unlock(i) \/ CountWindows(i)
      BY <1>1, <2>2, ApplyTidy, UnlockTidy, CountTidy
    <2>3. CASE Wipe(i) \/ SeedMedia(i) \/ SeedWindow(i) \/ SeedItem(i)
      BY <1>1, <2>3, WipeTidy, SeedMediaTidy, SeedWindowTidy, SeedItemTidy
    <2> QED BY <1>2, <2>1, <2>2, <2>3 DEF Booting, BootStep
  <1>3. ASSUME NEW p, inst' = [inst EXCEPT ![i] = p], UNCHANGED tables, torn' = torn,
               inst[i].pc \in {"off", "failed", "done", "serving", "draining", "overrun"},
               p.pc \in {"connect", "draining", "overrun", "done"}
        PROVE  WInv'
    <2>1. inst[i].pc \notin Wiping \cup Seeding /\ p.pc \notin Wiping \cup Seeding
      BY <1>3 DEF Wiping, Seeding
    <2> QED BY <1>1, <1>3, <2>1, StepsTidy
  <1>4. ASSUME NEW kind, Start(i, kind) PROVE WInv'
    <2> DEFINE p == [NoProcess EXCEPT !.pc = "connect", !.kind = kind]
    <2>1. inst' = [inst EXCEPT ![i] = p] /\ UNCHANGED tables /\ torn' = torn
      BY <1>4 DEF Start
    <2>2. inst[i].pc \in {"off", "failed", "done"} /\ p.pc = "connect"
      BY <1>4 DEF Start, NoProcess
    <2> HIDE DEF p
    <2> QED BY <1>3, <2>1, <2>2
  <1>5. CASE Sigterm(i) \/ GraceOver(i) \/ ServeFails(i)
    <2>1. PICK pc \in {"draining", "overrun"} : inst' = [inst EXCEPT ![i] = [inst[i] EXCEPT !.pc = pc]]
      BY <1>5 DEF Sigterm, GraceOver, ServeFails, Overrun, Proceed
    <2> DEFINE p == [inst[i] EXCEPT !.pc = pc]
    <2>2. UNCHANGED tables /\ torn' = torn /\ inst[i].pc \in {"serving", "draining"} /\ p.pc = pc
      BY <1>5 DEF Sigterm, GraceOver, ServeFails, Overrun, At, IInv, Shape, Fields
    <2>3. inst' = [inst EXCEPT ![i] = p]
      BY <2>1
    <2> HIDE DEF p
    <2> QED BY <1>3, <2>2, <2>3
  <1>6. CASE Drained(i) \/ Exit(i)
    <2> DEFINE p == [NoProcess EXCEPT !.pc = "done"]
    <2>1. inst' = [inst EXCEPT ![i] = p] /\ UNCHANGED tables /\ torn' = torn
      BY <1>6 DEF Drained, Exit, Proceed
    <2>2. inst[i].pc \in {"draining", "overrun"} /\ p.pc = "done"
      BY <1>6 DEF Drained, Exit, At, NoProcess
    <2> HIDE DEF p
    <2> QED BY <1>3, <2>1, <2>2
  <1>7. CASE BootFails(i) \/ Crash(i)
    <2>1. Fail(i, TRUE) /\ UNCHANGED tables
      BY <1>7 DEF BootFails, Crash
    <2> QED BY <1>1, <2>1, FailTidy
  <1> QED BY <1>2, <1>4, <1>5, <1>6, <1>7 DEF Process

\* Requests are not to be there where the seedings are alone.
LEMMA ServingTidy ==
    ASSUME IInv, WInv, env.calls # {}, env' = env, NEW r, Serving(r)
    PROVE  WInv'
  <1> SUFFICES Wipers'
    BY DEF WInv
  <1>1. ASSUME NEW what, NEW h, Stored(r, what, h) PROVE Wipers'
    <2> DEFINE Noted(j) == j \in Beside(req[r].at)
    <2>1. inst' = [j \in Instances |-> IF Noted(j) THEN [inst[j] EXCEPT !.crowded = TRUE] ELSE inst[j]]
      BY <1>1 DEF Stored
    <2>2. ASSUME NEW j \in Instances PROVE inst'[j].pc = inst[j].pc /\ inst'[j].kind = inst[j].kind
      <3>1. inst'[j] = inst[j] \/ inst'[j] = [inst[j] EXCEPT !.crowded = TRUE]
        BY <2>1
      <3>2. DOMAIN inst[j] = Fields
        BY DEF IInv, Shape
      <3> QED BY <3>1, <3>2 DEF Fields
    <2> QED BY <2>2 DEF WInv, Wipers
  <1>2. CASE UNCHANGED bootVars
    BY <1>2 DEF bootVars, WInv, Wipers
  <1>3. CASE CreateWindow(r)
    BY <1>1, <1>2, <1>3 DEF CreateWindow, Looked
  <1>4. CASE CreateMedia(r)
    BY <1>1, <1>2, <1>4 DEF CreateMedia, Looked
  <1>5. CASE EditPlaylist(r)
    BY <1>1, <1>2, <1>5 DEF EditPlaylist, Looked
  <1>6. CASE ~ (CreateWindow(r) \/ CreateMedia(r) \/ EditPlaylist(r))
    <2>1. UNCHANGED bootVars
      BY <1>6 DEF Serving, PublishMedia, FindWindow, FindMedia, Publish, Tell, Looked, ReadWindow,
                  ReadItems, ListWindows, ListItems, ListMedia, LiveSync, StatementFails
    <2> QED BY <1>2, <2>1
  <1> QED BY <1>3, <1>4, <1>5, <1>6

LEMMA TidyInitially == Init => WInv
  <1> SUFFICES ASSUME Init PROVE WInv
    OBVIOUS
  <1>1. \A i \in Instances : inst[i].pc = "off"
    BY DEF Init, NoProcess
  <1>2. Wipers /\ \A i \in Instances : inst[i].pc \notin Seeding /\ ~ Leads(inst[i])
    BY <1>1 DEF Wipers, Wiping, Seeding, Leads
  <1>3. windows = <<>>
    BY DEF Init
  <1>4. Tidy
    BY <1>2, <1>3 DEF Tidy
  <1> QED BY <1>2, <1>4 DEF WInv

=============================================================================
