------------------------------ MODULE JobStore ------------------------------
(***************************************************************************)
(* Opening the job database (job-store.mjs, and job-view.mjs `openJobs`    *)
(* for those that only look): directories, file, journal mode, schema,     *)
(* version.  Several processes do it at once; any may die between two      *)
(* steps, which gives up its lock and its transaction.                     *)
(***************************************************************************)
EXTENDS Naturals

CONSTANTS
  Processes,
  Build,        \* the USER_VERSION each understands: 1, or a newer plugin's 2
  Lookers,      \* those that only look; the others insert a row
  MaxRetries    \* bound: attempts within OPEN_BUDGET_MS

VARIABLES
  dirs,         \* the state directory and logs/: "absent", "loose", "tight" or "link"
  db,           \* [exists, private, wal, shape, version, rows]; a shape is the table's build, 0 for none
  began,        \* the database there was at first
  lock,         \* who holds SQLite's write lock
  pc,           \* each process's next step
  seen,         \* the user_version it read
  retries       \* how often it found the database busy

storeVars == <<dirs, db, began, lock, pc, seen, retries>>

Unlocked == "(unlocked)"

ASSUME ProcessesAssumption ==
  /\ Build \in [Processes -> {1, 2}] /\ Lookers \subseteq Processes
  /\ MaxRetries \in Nat /\ Unlocked \notin Processes

NoDatabase == [exists |-> FALSE, private |-> FALSE, wal |-> FALSE, shape |-> 0, version |-> 0, rows |-> {}]
Database(build, private) ==
  [exists |-> TRUE, private |-> private, wal |-> TRUE, shape |-> build, version |-> build, rows |-> {}]

Ended == {"nothing", "reading", "refused", "gave up", "dead", "done"}
HasHandle == {"insert", "inserting", "done"}

-----------------------------------------------------------------------------
StoreInit ==
  /\ dirs \in [{"state", "logs"} -> {"absent", "loose", "link"}]
  /\ dirs["state"] = "absent" => dirs["logs"] = "absent"
  /\ db \in {NoDatabase, Database(1, FALSE), Database(1, TRUE), Database(2, TRUE)}
  /\ db.exists => dirs["state"] # "absent"
  /\ began = db /\ lock = Unlocked
  /\ pc = [p \in Processes |-> IF p \in Lookers THEN "look" ELSE "state"]
  /\ seen = [p \in Processes |-> 0]
  /\ retries = [p \in Processes |-> 0]

Go(p, step) == pc' = [pc EXCEPT ![p] = step]

(* `refuseSymlink`, and `openStoreForReading` where there is no database.   *)
Look(p) ==
  /\ pc[p] = "look"
  /\ Go(p, IF dirs["state"] = "link" THEN "refused" ELSE IF ~db.exists THEN "nothing" ELSE "version")
  /\ UNCHANGED <<dirs, db, began, lock, seen, retries>>

(* A newer plugin's database is only read; any other is opened to write.    *)
ReadOnly(p) ==
  /\ pc[p] = "version" /\ (lock = Unlocked \/ db.wal)
  /\ seen' = [seen EXCEPT ![p] = db.version]
  /\ Go(p, IF db.version > Build[p] THEN "reading" ELSE "state")
  /\ UNCHANGED <<dirs, db, began, lock, retries>>

(* `repairDir`, of one directory and then of the other.                     *)
RepairDir(p, dir, next) ==
  /\ pc[p] = dir
  /\ IF "link" \in {dirs["state"], dirs[dir]}
       THEN Go(p, "refused") /\ UNCHANGED dirs
       ELSE Go(p, next) /\ dirs' = [dirs EXCEPT ![dir] = "tight"]
  /\ UNCHANGED <<db, began, lock, seen, retries>>

(* The file comes to be with the mode the umask gives it; `Chmod` repairs   *)
(* it, on a filesystem that carries modes.                                  *)
OpenConvertingOwn(p) == \* mutant: the journal mode is set by whoever creates the file
  /\ pc[p] = "open"
  /\ db' = IF db.exists THEN db ELSE [NoDatabase EXCEPT !.exists = TRUE]
  /\ Go(p, IF db.exists THEN "read version" ELSE "journal")
  /\ UNCHANGED <<dirs, began, lock, seen, retries>>

Open(p) ==
  /\ pc[p] = "open"
  /\ db' = IF db.exists THEN db ELSE [NoDatabase EXCEPT !.exists = TRUE]
  /\ Go(p, "journal")
  /\ UNCHANGED <<dirs, began, lock, seen, retries>>

(* `withBusyRetry`: closed, and all of it again, until the budget is spent. *)
NeedsLock(p) ==
  \/ pc[p] \in {"journal", "read version"} /\ ~db.wal
  \/ pc[p] = "schema" /\ db.shape = 0
  \/ pc[p] = "stamp" /\ seen[p] < Build[p]

Busy(p) ==
  /\ NeedsLock(p) /\ lock \notin {Unlocked, p}
  /\ retries' = [retries EXCEPT ![p] = @ + 1]
  /\ Go(p, IF retries[p] >= MaxRetries THEN "gave up" ELSE "state")
  /\ UNCHANGED <<dirs, db, began, lock, seen>>

(* A change takes the write lock, and is there when it is committed.        *)
Take(p, committing) ==
  /\ lock = Unlocked /\ lock' = p
  /\ Go(p, committing)
Commit(p, committing, next, change) ==
  /\ pc[p] = committing
  /\ db' = change /\ lock' = Unlocked
  /\ Go(p, next)
  /\ UNCHANGED <<dirs, began, seen, retries>>

Journal(p) ==
  /\ pc[p] = "journal"
  /\ IF NeedsLock(p) THEN Take(p, "converting") ELSE Go(p, "read version") /\ UNCHANGED lock
  /\ UNCHANGED <<dirs, db, began, seen, retries>>

(* `applySchema`: the version is read before the lock is taken.             *)
NeverTooNew(p) == FALSE \* mutant: whatever version it is is written to
TooNew(p) == db.version > Build[p]

ReadVersion(p) ==
  /\ pc[p] = "read version" /\ (lock = Unlocked \/ db.wal)
  /\ seen' = [seen EXCEPT ![p] = db.version]
  /\ Go(p, IF TooNew(p) THEN "refused" ELSE "schema")
  /\ UNCHANGED <<dirs, db, began, lock, retries>>

SchemaByCreator(p) == \* mutant: who finds the table there leaves the version to its creator
  /\ pc[p] = "schema"
  /\ IF NeedsLock(p) THEN Take(p, "creating") ELSE Go(p, "chmod") /\ UNCHANGED lock
  /\ UNCHANGED <<dirs, db, began, seen, retries>>

Schema(p) ==
  /\ pc[p] = "schema"
  /\ IF NeedsLock(p) THEN Take(p, "creating") ELSE Go(p, "stamp") /\ UNCHANGED lock
  /\ UNCHANGED <<dirs, db, began, seen, retries>>

Stamp(p) ==
  /\ pc[p] = "stamp"
  /\ IF NeedsLock(p) THEN Take(p, "stamping") ELSE Go(p, "chmod") /\ UNCHANGED lock
  /\ UNCHANGED <<dirs, db, began, seen, retries>>

(* The newer plugin brings an older table to its shape as it stamps it.     *)
Stamped(p) == [db EXCEPT !.version = Build[p], !.shape = IF Build[p] = 2 THEN 2 ELSE @]
Created(p) == IF db.shape = 0 THEN [db EXCEPT !.shape = Build[p]] ELSE db

Chmod(p) ==
  /\ pc[p] = "chmod"
  /\ db' = [db EXCEPT !.private = TRUE]
  /\ Go(p, IF p \in Lookers THEN "done" ELSE "insert")
  /\ UNCHANGED <<dirs, began, lock, seen, retries>>

(* `insertJob`, which waits its turn.                                       *)
Insert(p) ==
  /\ pc[p] = "insert" /\ Take(p, "inserting")
  /\ UNCHANGED <<dirs, db, began, seen, retries>>

Dies(p) ==
  /\ pc[p] \notin Ended
  /\ Go(p, "dead") /\ lock' = IF lock = p THEN Unlocked ELSE lock
  /\ UNCHANGED <<dirs, db, began, seen, retries>>

StoreStep(p) ==
  \/ Look(p) \/ ReadOnly(p) \/ RepairDir(p, "state", "logs") \/ RepairDir(p, "logs", "open") \/ Open(p)
  \/ Busy(p)
  \/ Journal(p) \/ Commit(p, "converting", "read version", [db EXCEPT !.wal = TRUE])
  \/ ReadVersion(p)
  \/ Schema(p) \/ Commit(p, "creating", "stamp", Created(p))
  \/ Stamp(p) \/ Commit(p, "stamping", "chmod", Stamped(p))
  \/ Chmod(p)
  \/ Insert(p) \/ Commit(p, "inserting", "done", [db EXCEPT !.rows = @ \cup {p}])

StoreNext == \E p \in Processes : StoreStep(p) \/ Dies(p)

-----------------------------------------------------------------------------
(* Whoever else is creating it, and died doing so, a handle that is handed  *)
(* out is of a database with its table, its version and its journal mode,   *)
(* private and in private directories; and no row inserted is ever lost to  *)
(* the creation of another.  (job-store.mjs openOnce, applySchema)          *)
HandlesAreUsable ==
  \A p \in Processes :
    pc[p] \in HasHandle =>
      /\ db.wal /\ db.shape # 0 /\ db.version # 0
      /\ db.private /\ dirs["state"] = "tight" /\ dirs["logs"] = "tight"
      /\ pc[p] = "done" /\ p \notin Lookers => p \in db.rows

(* A database that a newer plugin wrote before the run began gets nothing   *)
(* from this build, which hands out no handle that could write to it; and   *)
(* those that only look are shown it.  (job-store.mjs DatabaseTooNewError,  *)
(* job-view.mjs openJobs)                                                   *)
NewerIsLeft ==
  began.version = 2 =>
    /\ db.version = 2 /\ db.shape = 2
    /\ \A p \in Processes : Build[p] = 1 => pc[p] \notin HasHandle /\ p \notin db.rows

(* Whoever opens the database gets all of it or none: a handle on what is   *)
(* whole, or none that writes where a newer plugin had written.             *)
(* (job-store.mjs openStore, openStoreForReading)                           *)
HandlesAreSound == HandlesAreUsable /\ NewerIsLeft
=============================================================================
