-------------------------------- MODULE Boot --------------------------------
(***************************************************************************)
(* Processes that start on one database: servers (cmd/server), which seed  *)
(* an empty one if AUTO_SEED is on, and the command that seeds on demand   *)
(* (cmd/seed, with and without -force).                                    *)
(*                                                                         *)
(* A process connects, migrates under an advisory lock, perhaps clears the *)
(* tables, perhaps seeds them with one statement after another, and then   *)
(* serves or is done.  Any statement may fail, which ends the process; it  *)
(* may also simply die.  PostgreSQL releases the advisory lock when the    *)
(* session that holds it ends.                                             *)
(***************************************************************************)
EXTENDS Tables

CONSTANTS
    Instances,    \* places for a process
    Nobody,       \* nobody holds the advisory lock
    Migrations,   \* how many migrations are embedded, in the order of their names
    Library,      \* mediaLibrary: a sequence of media inputs
    Layout        \* windowLayout: a sequence of [name, items], items naming the library

ASSUME NobodyAssumption == Nobody \notin Instances
ASSUME MigrationsAssumption == Migrations \in Nat \ {0}
ASSUME LibraryAssumption ==
    /\ Len(Library) \in Nat \ {0} /\ DOMAIN Library = 1 .. Len(Library)
    /\ \A k \in DOMAIN Library : Validate(Normalize(Library[k])) /\ StorableMedia(Normalize(Library[k]))
ASSUME LayoutAssumption ==
    /\ Len(Layout) \in Nat \ {0} /\ DOMAIN Layout = 1 .. Len(Layout)
    /\ \A n \in DOMAIN Layout :
          /\ StorableName(Layout[n].name)
          /\ \A k \in DOMAIN Layout : Layout[k].name = Layout[n].name => k = n
          /\ Len(Layout[n].items) \in Nat /\ DOMAIN Layout[n].items = 1 .. Len(Layout[n].items)
          /\ \A k \in DOMAIN Layout[n].items : Layout[n].items[k] \in DOMAIN Library

VARIABLES
    inst,       \* the process in every place
    holder,     \* who holds the advisory lock
    recorded,   \* schema_migrations
    applied,    \* history: the migrations whose statements have committed, in order
    boots,      \* how many processes have been started
    torn        \* history: a seeding was cut short, or ran next to a wipe

bootVars == <<inst, holder, recorded, applied, boots, torn>>

Kinds == {"server", "seed", "force"}   \* cmd/server, cmd/seed, cmd/seed -force

Migrating == {"check", "apply", "unlock"}
Wiping == {"wipe items", "wipe windows", "wipe media"}
Seeding == {"seed media", "seed window", "seed item"}
Running == {"connect", "lock"} \cup Migrating \cup Wiping \cup {"count"} \cup Seeding
             \cup {"restore", "serving", "draining", "overrun"}

\* failed: run returned an error, faulted: because a call failed.  done: it
\* returned.  crowded (history): others seeded or cleared the tables meanwhile.
NoProcess == [pc |-> "off", kind |-> "server", step |-> 0, row |-> 0, window |-> 0,
              library |-> <<>>, faulted |-> FALSE, crowded |-> FALSE]

At(i, pc) == inst[i].pc = pc
Proceed(i, process) == inst' = [inst EXCEPT ![i] = process]

Start(i, kind) ==
    /\ inst[i].pc \in {"off", "failed", "done"} /\ boots < env.maxBoots
    /\ inst' = [inst EXCEPT ![i] = [NoProcess EXCEPT !.pc = "connect", !.kind = kind]]
    /\ boots' = boots + 1
    /\ UNCHANGED <<tables, holder, recorded, applied, torn>>

Connect(i) ==
    /\ At(i, "connect") /\ inst' = [inst EXCEPT ![i].pc = "lock"]
    /\ UNCHANGED <<tables, holder, recorded, applied, boots, torn>>

-----------------------------------------------------------------------------
(* Migrate.                                                                *)

\* Mutant: nobody waits for the advisory lock.
LockWithoutWaiting(i) ==
    /\ At(i, "lock")
    /\ holder' = i
    /\ inst' = [inst EXCEPT ![i].pc = "check", ![i].step = 1]
    /\ UNCHANGED <<tables, recorded, applied, boots, torn>>

\* pg_advisory_lock waits until nobody holds the lock.
AcquireLock(i) ==
    /\ At(i, "lock") /\ holder = Nobody
    /\ holder' = i
    /\ inst' = [inst EXCEPT ![i].pc = "check", ![i].step = 1]
    /\ UNCHANGED <<tables, recorded, applied, boots, torn>>

\* The loop over the migrations, in order; those recorded are skipped.
CheckMigration(i) ==
    /\ At(i, "check")
    /\ LET process == inst[i]
       IN  Proceed(i, IF process.step > Migrations THEN [process EXCEPT !.pc = "unlock", !.step = 0]
                      ELSE IF process.step \in recorded THEN [process EXCEPT !.step = @ + 1]
                      ELSE [process EXCEPT !.pc = "apply"])
    /\ UNCHANGED <<tables, holder, recorded, applied, boots, torn>>

\* run returns an error; the deferred calls and the end of the session release
\* the advisory lock.
Failed(i, faulted) ==
    [NoProcess EXCEPT !.pc = "failed", !.kind = inst[i].kind, !.faulted = faulted,
                      !.crowded = inst[i].crowded]

\* Mutant: a process that fails keeps the advisory lock.
FailLocked(i, faulted) ==
    /\ Proceed(i, Failed(i, faulted))
    /\ torn' = (torn \/ (faulted /\ inst[i].pc \in Wiping \cup Seeding))
    /\ UNCHANGED holder

Fail(i, faulted) ==
    /\ Proceed(i, Failed(i, faulted))
    /\ torn' = (torn \/ (faulted /\ inst[i].pc \in Wiping \cup Seeding))
    /\ holder' = IF holder = i THEN Nobody ELSE holder

\* Mutant: a migration is not in one transaction with its record.
ApplyThenRecord(i) ==
    /\ At(i, "apply")
    /\ applied' = Append(applied, inst[i].step)
    /\ \/ /\ recorded' = recorded \cup {inst[i].step}
          /\ inst' = [inst EXCEPT ![i].pc = "check", ![i].step = @ + 1]
          /\ UNCHANGED <<holder, torn>>
       \/ "db" \in env.faults /\ Fail(i, TRUE) /\ UNCHANGED recorded
    /\ UNCHANGED <<tables, boots>>

\* applyMigration: its statements and its record commit together.  A commit may
\* succeed without the process being told.
ApplyMigration(i) ==
    /\ At(i, "apply")
    /\ IF inst[i].step \in recorded
       THEN Fail(i, FALSE) /\ UNCHANGED <<recorded, applied>>
       ELSE /\ applied' = Append(applied, inst[i].step)
            /\ recorded' = recorded \cup {inst[i].step}
            /\ \/ /\ inst' = [inst EXCEPT ![i].pc = "check", ![i].step = @ + 1]
                  /\ UNCHANGED <<holder, torn>>
               \/ "db" \in env.faults /\ Fail(i, TRUE)
    /\ UNCHANGED <<tables, boots>>

\* The deferred unlock, on the way out of a Migrate that succeeded.
Unlock(i) ==
    /\ At(i, "unlock")
    /\ holder' = IF holder = i THEN Nobody ELSE holder
    /\ LET next == IF inst[i].kind = "force" THEN "wipe items"
                   ELSE IF inst[i].kind = "seed" \/ env.autoSeed THEN "count" ELSE "restore"
       IN  Proceed(i, [inst[i] EXCEPT !.pc = next])
    /\ UNCHANGED <<tables, recorded, applied, boots, torn>>

-----------------------------------------------------------------------------
(* cmd/seed -force and seed.Run.                                           *)

\* The others that are between their first look at the tables and their last
\* statement.
Beside(i) == {j \in Instances \ {i} :
                inst[j].pc \in Wiping \cup Seeding \/ (At(j, "count") /\ inst[j].kind = "force")}

\* Process i writes to the tables and goes on as given, unless it does not learn
\* that it has; the others do not expect it.
Writes(i, process) ==
    \E lost \in IF "db" \in env.faults THEN BOOLEAN ELSE {FALSE} :
        /\ inst' = [j \in Instances |->
                      LET next == IF j # i THEN inst[j] ELSE IF lost THEN Failed(i, TRUE) ELSE process
                      IN  IF j \in Beside(i) \/ (j = i /\ Beside(i) # {})
                          THEN [next EXCEPT !.crowded = TRUE] ELSE next]
        /\ torn' = (torn \/ lost \/ (Beside(i) # {} /\
                                      \E j \in Beside(i) \cup {i} : inst[j].kind = "force"))
        /\ UNCHANGED <<holder, recorded, applied, boots>>

\* Clearing playlist_items, windows and media, in this order, sync_events having
\* gone first.  A media item that is in use again cannot be deleted.
Wipe(i) ==
    \/ /\ At(i, "wipe items") /\ DeleteAll("playlist_items")
       /\ Writes(i, [inst[i] EXCEPT !.pc = "wipe windows"])
    \/ /\ At(i, "wipe windows") /\ DeleteAll("windows")
       /\ Writes(i, [inst[i] EXCEPT !.pc = "wipe media"])
    \/ /\ At(i, "wipe media") /\ \A m \in Rows(media) : ~InUse(m)
       /\ DeleteAll("media")
       /\ Writes(i, [inst[i] EXCEPT !.pc = "count"])
    \/ /\ At(i, "wipe media") /\ \E m \in Rows(media) : InUse(m)
       /\ Fail(i, FALSE)
       /\ UNCHANGED <<tables, recorded, applied, boots>>

AfterSeed(i) == IF inst[i].kind = "server" THEN "restore" ELSE "done"

\* Only windows are counted, and only if there are none (or by force) is seeded.
CountWindows(i) ==
    /\ At(i, "count")
    /\ Proceed(i, IF windows # <<>> /\ inst[i].kind # "force"
                  THEN [inst[i] EXCEPT !.pc = AfterSeed(i)]
                  ELSE [inst[i] EXCEPT !.pc = "seed media", !.step = 1])
    /\ UNCHANGED <<tables, holder, recorded, applied, boots, torn>>

SeedMedia(i) ==
    /\ At(i, "seed media")
    /\ InsertMedia(Normalize(Library[inst[i].step]))
    /\ LET process == [inst[i] EXCEPT !.library = Append(@, serial.media)]
       IN  Writes(i, IF process.step < Len(Library) THEN [process EXCEPT !.step = @ + 1]
                     ELSE [process EXCEPT !.pc = "seed window", !.step = 1])

\* The loops of Run over the windows and over the items of one, after an item
\* (or the window itself, row 0) has been stored.
NextItem(i, process) ==
    IF process.row < Len(Layout[process.step].items)
    THEN [process EXCEPT !.pc = "seed item", !.row = @ + 1]
    ELSE IF process.step < Len(Layout)
    THEN [process EXCEPT !.pc = "seed window", !.step = @ + 1, !.row = 0]
    ELSE [NoProcess EXCEPT !.pc = AfterSeed(i), !.kind = process.kind, !.crowded = process.crowded]

\* Mutant: a window that exists already is seeded as well.
SeedWindowAnyway(i) ==
    /\ At(i, "seed window")
    /\ LET name == Layout[inst[i].step].name
       IN  \/ /\ ~NameTaken(name)
              /\ InsertWindow(name)
              /\ Writes(i, NextItem(i, [inst[i] EXCEPT !.window = serial.window]))
           \/ /\ NameTaken(name)
              /\ Writes(i, NextItem(i, [inst[i] EXCEPT !.window =
                            CHOOSE w \in Rows(windows) : windows[w].name = name]))
              /\ UNCHANGED tables

\* A window whose name somebody has seeded meanwhile cannot be inserted.
SeedWindow(i) ==
    /\ At(i, "seed window")
    /\ LET name == Layout[inst[i].step].name
       IN  \/ /\ ~NameTaken(name)
              /\ InsertWindow(name)
              /\ Writes(i, NextItem(i, [inst[i] EXCEPT !.window = serial.window]))
           \/ /\ NameTaken(name)
              /\ Fail(i, FALSE)
              /\ UNCHANGED <<tables, recorded, applied, boots>>

\* Nor can an item whose window or media somebody has cleared away.
SeedItem(i) ==
    /\ At(i, "seed item")
    /\ LET w == inst[i].window
           m == inst[i].library[Layout[inst[i].step].items[inst[i].row]]
       IN  \/ /\ w \in Rows(windows) /\ m \in Rows(media)
              /\ AppendItem(w, m)
              /\ Writes(i, NextItem(i, inst[i]))
           \/ /\ w \notin Rows(windows) \/ m \notin Rows(media)
              /\ Fail(i, FALSE)
              /\ UNCHANGED <<tables, recorded, applied, boots>>

-----------------------------------------------------------------------------
(* The rest of a server's start, and what may go wrong anywhere.           *)

\* The hub, the service, RestoreSyncTimer (which only logs its failure), and the
\* listener.
Serve(i) ==
    /\ At(i, "restore") /\ Proceed(i, [inst[i] EXCEPT !.pc = "serving"])
    /\ UNCHANGED <<tables, holder, recorded, applied, boots, torn>>

\* A call fails; or SIGTERM cancels the context of them all, or the two minutes
\* of cmd/seed are over.
BootFails(i) ==
    /\ "db" \in env.faults
    /\ inst[i].pc \in {"connect", "lock", "check", "apply", "count", "restore"} \cup Wiping \cup Seeding
    /\ Fail(i, TRUE)
    /\ UNCHANGED <<tables, recorded, applied, boots>>

BootStep(i) ==
    \/ Connect(i) \/ AcquireLock(i) \/ CheckMigration(i) \/ ApplyMigration(i) \/ Unlock(i)
    \/ Wipe(i) \/ CountWindows(i) \/ SeedMedia(i) \/ SeedWindow(i) \/ SeedItem(i) \/ Serve(i)

=============================================================================
