-------------------------- MODULE JobHandoffProofs --------------------------
(***************************************************************************)
(* What a handle on the job database can be relied on for, however many    *)
(* processes of either build open, create and leave it at once; and what a *)
(* worker may send of the credential its job was submitted with, whatever  *)
(* becomes of the providers file.                                          *)
(***************************************************************************)
EXTENDS JobHandoff, TLAPS

Committing == {"converting", "creating", "stamping", "inserting"}

(* Where a process can be only once something is so.                        *)
PastVersioned == {"chmod", "insert", "inserting", "done"}
PastShaped == {"stamp", "stamping"} \cup PastVersioned
PastConverted == {"read version", "schema", "creating"} \cup PastShaped
PastOpened == {"journal", "converting"} \cup PastConverted
PastLogs == {"open"} \cup PastOpened
PastState == {"logs"} \cup PastLogs
Writers == {"schema", "creating"} \cup PastShaped
Steps == {"look", "version", "state"} \cup PastState \cup Ended

Databases == [exists : BOOLEAN, private : BOOLEAN, wal : BOOLEAN, shape : 0..2, version : 0..2, rows : SUBSET Processes]

StoreTypeOK ==
  /\ dirs \in [{"state", "logs"} -> {"absent", "loose", "tight", "link"}]
  /\ db \in Databases
  /\ pc \in [Processes -> Steps]
  /\ seen \in [Processes -> 0..2]

(* What lets a process be where it is.                                      *)
Placed(p) ==
  /\ pc[p] \in Committing => lock = p
  /\ pc[p] \in PastState => dirs["state"] = "tight"
  /\ pc[p] \in PastLogs => dirs["logs"] = "tight"
  /\ pc[p] \in PastOpened => db.exists
  /\ pc[p] \in PastConverted => db.wal
  /\ pc[p] \in PastShaped => db.shape # 0
  /\ pc[p] \in PastVersioned => db.version # 0
  /\ pc[p] \in HasHandle \cup {"inserting"} => db.private
  /\ pc[p] = "done" /\ p \notin Lookers => p \in db.rows
  /\ seen[p] # 0 => db.version # 0

(* And of a newer plugin's database: it is as it was, and this build stays  *)
(* on the near side of `applySchema`.                                       *)
Kept ==
  began.version = 2 =>
    /\ db.version = 2 /\ db.shape = 2
    /\ \A p \in Processes : Build[p] = 1 => pc[p] \notin Writers /\ p \notin db.rows

StoreInv ==
  /\ StoreTypeOK
  /\ ~db.exists => db = NoDatabase
  /\ \A p \in Processes : Placed(p)
  /\ Kept

-----------------------------------------------------------------------------
(* Nothing that came to be so is undone.                                    *)
Onward ==
  /\ db.exists => db'.exists
  /\ db.private => db'.private
  /\ db.wal => db'.wal
  /\ db.shape # 0 => db'.shape # 0
  /\ db.version # 0 => db'.version # 0
  /\ db.rows \subseteq db'.rows
  /\ dirs["state"] = "tight" => dirs'["state"] = "tight"
  /\ dirs["logs"] = "tight" => dirs'["logs"] = "tight"

(* So the others stay where they may be.                                    *)
LEMMA OthersStay ==
  ASSUME Onward, NEW o, Placed(o), pc'[o] = pc[o], seen'[o] = seen[o], lock = o => lock' = o
  PROVE  Placed(o)'
  BY DEF Onward, Placed

(* The five changes that are ever made to a database: each sets one thing   *)
(* and leaves the others.                                                   *)
Gains(d, e) ==
  /\ d.exists => e.exists
  /\ d.private => e.private
  /\ d.wal => e.wal

LEMMA Converting ==
  ASSUME NEW d \in Databases, NEW e, e = [d EXCEPT !.wal = TRUE]
  PROVE  e \in Databases /\ e.wal /\ Gains(d, e) /\ e.shape = d.shape /\ e.version = d.version /\ e.rows = d.rows
  BY DEF Databases, Gains

LEMMA Securing ==
  ASSUME NEW d \in Databases, NEW e, e = [d EXCEPT !.private = TRUE]
  PROVE  e \in Databases /\ e.private /\ Gains(d, e) /\ e.shape = d.shape /\ e.version = d.version /\ e.rows = d.rows
  BY DEF Databases, Gains

LEMMA Shaping ==
  ASSUME NEW d \in Databases, NEW shape \in 0..2, NEW e, e = [d EXCEPT !.shape = shape]
  PROVE  e \in Databases /\ Gains(d, e) /\ e.shape = shape /\ e.version = d.version /\ e.rows = d.rows
  BY DEF Databases, Gains

LEMMA Versioning ==
  ASSUME NEW d \in Databases, NEW b \in {1, 2}, NEW e, e = [d EXCEPT !.version = b]
  PROVE  e \in Databases /\ Gains(d, e) /\ e.shape = d.shape /\ e.version = b /\ e.rows = d.rows
  BY DEF Databases, Gains

LEMMA Inserting ==
  ASSUME NEW d \in Databases, NEW p \in Processes, NEW e, e = [d EXCEPT !.rows = @ \cup {p}]
  PROVE  e \in Databases /\ Gains(d, e) /\ e.shape = d.shape /\ e.version = d.version /\ e.rows = d.rows \cup {p}
  BY DEF Databases, Gains

LEMMA NoneIsADatabase ==
  /\ NoDatabase \in Databases
  /\ ~NoDatabase.exists /\ ~NoDatabase.wal /\ ~NoDatabase.private
  /\ NoDatabase.shape = 0 /\ NoDatabase.version = 0 /\ NoDatabase.rows = {}
  BY DEF NoDatabase, Databases

LEMMA Creating ==
  ASSUME NEW d \in Databases, NEW e, e = [d EXCEPT !.exists = TRUE]
  PROVE  e \in Databases /\ e.exists /\ Gains(d, e) /\ e.shape = d.shape /\ e.version = d.version /\ e.rows = d.rows
  BY DEF Databases, Gains

LEMMA OfABuild ==
  ASSUME NEW b \in {1, 2}, NEW private \in BOOLEAN, NEW e, e = Database(b, private)
  PROVE  e \in Databases /\ e.exists /\ e.shape = b /\ e.version = b /\ e.rows = {}
  BY DEF Database, Databases

-----------------------------------------------------------------------------
LEMMA InitStore == Init => StoreInv
<1>1. ASSUME StoreInit PROVE StoreInv
  <2>0. dirs \in [{"state", "logs"} -> {"absent", "loose", "tight", "link"}]
    BY <1>1 DEF StoreInit
  <2>01. seen \in [Processes -> 0..2] /\ \A p \in Processes : seen[p] = 0
    BY <1>1 DEF StoreInit
  <2>02. pc \in [Processes -> Steps] /\ \A p \in Processes : pc[p] \in {"look", "state"}
    BY <1>1 DEF StoreInit, Steps
  <2>1. /\ dirs \in [{"state", "logs"} -> {"absent", "loose", "tight", "link"}]
        /\ pc \in [Processes -> Steps] /\ seen \in [Processes -> 0..2]
        /\ \A p \in Processes : pc[p] \in {"look", "state"} /\ seen[p] = 0
    BY <2>0, <2>01, <2>02
  <2>2. db \in Databases /\ (db = NoDatabase \/ db.exists) /\ db.rows = {} /\ db.shape = db.version
    BY <1>1, NoneIsADatabase, OfABuild DEF StoreInit
  <2>3. StoreTypeOK /\ (~db.exists => db = NoDatabase)
    BY <2>1, <2>2 DEF StoreTypeOK
  <2>4. \A p \in Processes : Placed(p)
    BY <2>1 DEF Placed, Committing, PastState, PastLogs, PastOpened, PastConverted, PastShaped,
                PastVersioned, HasHandle
  <2>5. Kept
    BY <1>1, <2>1, <2>2 DEF Kept, StoreInit, Writers, PastShaped, PastVersioned
  <2>6. QED
    BY <2>3, <2>4, <2>5 DEF StoreInv
<1>2. ASSUME StoreIdle PROVE StoreInv
  <2>0. db = NoDatabase /\ began = NoDatabase
    BY <1>2 DEF StoreIdle
  <2>01. dirs \in [{"state", "logs"} -> {"absent", "loose", "tight", "link"}]
    BY <1>2 DEF StoreIdle
  <2>02. pc \in [Processes -> Steps] /\ seen \in [Processes -> 0..2]
    BY <1>2 DEF StoreIdle, Steps, Ended
  <2>1. StoreTypeOK /\ db = NoDatabase /\ began = NoDatabase
    BY <2>0, <2>01, <2>02, NoneIsADatabase DEF StoreTypeOK
  <2>2. \A p \in Processes : Placed(p)
    BY <1>2 DEF StoreIdle, Placed, Committing, PastState, PastLogs, PastOpened, PastConverted,
                PastShaped, PastVersioned, HasHandle
  <2>3. Kept
    BY <2>1, NoneIsADatabase DEF Kept
  <2>4. QED
    BY <2>1, <2>2, <2>3 DEF StoreInv
<1>3. QED
  BY <1>1, <1>2 DEF Init

-----------------------------------------------------------------------------
(* A step of one process: nothing is undone, it is placed where it comes,   *)
(* and what a newer plugin wrote is kept.                                   *)
LEMMA OneMoves ==
  ASSUME StoreInv, NEW p \in Processes, Onward, StoreTypeOK', ~db'.exists => db' = NoDatabase,
         \A o \in Processes \ {p} : pc'[o] = pc[o] /\ seen'[o] = seen[o] /\ (lock = o => lock' = o),
         Placed(p)', began' = began,
         began.version = 2 =>
           /\ db'.version = 2 /\ db'.shape = 2 /\ db'.rows \subseteq db.rows \cup {p}
           /\ Build[p] = 1 => pc'[p] \notin Writers /\ p \notin db'.rows
  PROVE  StoreInv'
<1>1. \A o \in Processes : Placed(o)'
  <2>1. ASSUME NEW o \in Processes \ {p} PROVE Placed(o)'
    BY <2>1, OthersStay DEF StoreInv
  <2>2. QED
    BY <2>1
<1>2. Kept'
  <2>1. ASSUME began.version = 2, NEW o \in Processes, Build[o] = 1
        PROVE  pc'[o] \notin Writers /\ o \notin db'.rows
    <3>1. pc[o] \notin Writers /\ o \notin db.rows
      BY <2>1 DEF StoreInv, Kept
    <3>2. QED
      BY <2>1, <3>1
  <2>2. QED
    BY <2>1 DEF Kept
<1>3. QED
  BY <1>1, <1>2 DEF StoreInv
(* Most steps change neither the database nor a directory.                  *)
LEMMA QuietMove ==
  ASSUME StoreInv, NEW p \in Processes, NEW step \in Steps, Go(p, step),
         dirs' = dirs, db' = db, began' = began,
         seen' = seen \/ seen' = [seen EXCEPT ![p] = db.version],
         \A o \in Processes \ {p} : lock = o => lock' = o,
         Placed(p)',
         began.version = 2 /\ Build[p] = 1 => step \notin Writers
  PROVE  StoreInv'
<1>1. /\ pc' = [pc EXCEPT ![p] = step] /\ pc'[p] = step /\ db.version \in 0..2 /\ StoreTypeOK
      /\ \A o \in Processes \ {p} : pc'[o] = pc[o]
  BY DEF Go, StoreInv, StoreTypeOK, Databases
<1>2. StoreTypeOK' /\ \A o \in Processes \ {p} : seen'[o] = seen[o]
  BY <1>1 DEF StoreTypeOK
<1>3. Onward
  BY DEF Onward
<1>4. began.version = 2 =>
        /\ db'.version = 2 /\ db'.shape = 2 /\ db'.rows \subseteq db.rows \cup {p}
        /\ Build[p] = 1 => pc'[p] \notin Writers /\ p \notin db'.rows
  BY <1>1 DEF StoreInv, Kept
<1>5. ~db'.exists => db' = NoDatabase
  BY DEF StoreInv
<1>6. QED
  BY <1>1, <1>2, <1>3, <1>4, <1>5, OneMoves

(* The others change the database, and leave the directories.               *)
LEMMA DatabaseMove ==
  ASSUME StoreInv, NEW p \in Processes, NEW step \in Steps, Go(p, step),
         dirs' = dirs, began' = began, seen' = seen, db' \in Databases, Gains(db, db'), db'.exists,
         db.shape # 0 => db'.shape # 0, db.version # 0 => db'.version # 0, db.rows \subseteq db'.rows,
         \A o \in Processes \ {p} : lock = o => lock' = o,
         Placed(p)',
         began.version = 2 =>
           /\ db'.version = 2 /\ db'.shape = 2 /\ db'.rows \subseteq db.rows \cup {p}
           /\ Build[p] = 1 => step \notin Writers /\ p \notin db'.rows
  PROVE  StoreInv'
<1>1. /\ pc' = [pc EXCEPT ![p] = step] /\ pc'[p] = step /\ StoreTypeOK
      /\ \A o \in Processes \ {p} : pc'[o] = pc[o]
  BY DEF Go, StoreInv, StoreTypeOK
<1>2. StoreTypeOK' /\ \A o \in Processes \ {p} : seen'[o] = seen[o]
  BY <1>1 DEF StoreTypeOK
<1>3. Onward
  BY DEF Onward, Gains
<1>4. QED
  BY <1>1, <1>2, <1>3, OneMoves
-----------------------------------------------------------------------------
LEMMA StepKeeps ==
  ASSUME StoreInv, NEW p \in Processes, StoreStep(p) \/ Dies(p), ProcessesAssumption
  PROVE  StoreInv'
<1> USE DEF Committing, PastVersioned, PastShaped, PastConverted, PastOpened, PastLogs, PastState,
            Writers, HasHandle, Steps, Ended
<1>0. /\ Build[p] \in {1, 2} /\ p # Unlocked /\ seen[p] \in 0..2 /\ db \in Databases /\ db.version \in 0..2
      /\ db.shape \in 0..2 /\ pc \in [Processes -> Steps]
      /\ StoreTypeOK /\ Placed(p)
  BY DEF StoreInv, StoreTypeOK, Databases, ProcessesAssumption
<1>00. began.version = 2 =>
         /\ db.version = 2 /\ db.shape = 2
         /\ Build[p] = 1 => pc[p] \notin Writers /\ p \notin db.rows
  BY DEF StoreInv, Kept
<1>1. CASE Look(p)
  <2>1. PICK step \in {"refused", "nothing", "version"} : Go(p, step)
    BY <1>1 DEF Look
  <2>2. Placed(p)'
    BY <1>0, <1>1, <2>1 DEF Look, Placed, Go
  <2>3. QED
    BY <1>1, <2>1, <2>2, QuietMove DEF Look
<1>2. CASE ReadOnly(p)
  <2>1. PICK step \in {"reading", "state"} : Go(p, step)
    BY <1>2 DEF ReadOnly
  <2>2. seen'[p] = db.version
    BY <1>0, <1>2 DEF ReadOnly, StoreTypeOK
  <2>3. Placed(p)'
    BY <1>0, <1>2, <2>1, <2>2 DEF ReadOnly, Placed, Go
  <2>4. QED
    BY <1>2, <2>1, <2>3, QuietMove DEF ReadOnly
<1>3. CASE RepairDir(p, "state", "logs") \/ RepairDir(p, "logs", "open")
  <2>1. PICK dir \in {"state", "logs"}, next \in {"logs", "open"} :
          RepairDir(p, dir, next) /\ (dir = "state" <=> next = "logs")
    BY <1>3
  <2>2. CASE "link" \in {dirs["state"], dirs[dir]}
    <3>1. Go(p, "refused") /\ dirs' = dirs
      BY <2>1, <2>2 DEF RepairDir
    <3>2. Placed(p)'
      BY <1>0, <2>1, <3>1 DEF RepairDir, Placed, Go
    <3>3. QED
      BY <2>1, <3>1, <3>2, QuietMove DEF RepairDir
  <2>3. CASE "link" \notin {dirs["state"], dirs[dir]}
    <3>1. Go(p, next) /\ dirs' = [dirs EXCEPT ![dir] = "tight"] /\ pc[p] = dir
          /\ db' = db /\ began' = began /\ lock' = lock /\ seen' = seen
      BY <2>1, <2>3 DEF RepairDir
    <3>2. dirs'[dir] = "tight" /\ (dirs["state"] = "tight" => dirs'["state"] = "tight")
          /\ (dirs["logs"] = "tight" => dirs'["logs"] = "tight")
          /\ dirs' \in [{"state", "logs"} -> {"absent", "loose", "tight", "link"}]
      BY <1>0, <2>1, <3>1 DEF StoreTypeOK
    <3>3. Onward
      BY <3>1, <3>2 DEF Onward
    <3>4. pc'[p] = next /\ \A o \in Processes \ {p} : pc'[o] = pc[o]
      BY <1>0, <3>1 DEF Go
    <3>5. StoreTypeOK'
      BY <1>0, <2>1, <3>1, <3>2 DEF StoreTypeOK, Go
    <3>6. Placed(p)'
      BY <1>0, <2>1, <3>1, <3>2, <3>4 DEF Placed
    <3>7. next \notin Writers
      BY <2>1
    <3>8. QED
      BY <1>00, <3>1, <3>3, <3>4, <3>5, <3>6, <3>7, OneMoves DEF StoreInv
  <2>4. QED
    BY <2>2, <2>3
<1>4. CASE Open(p)
  <2>1. Go(p, "journal") /\ dirs' = dirs /\ began' = began /\ lock' = lock /\ seen' = seen /\ pc[p] = "open"
    BY <1>4 DEF Open
  <2>2. CASE db.exists
    <3>1. db' = db
      BY <1>4, <2>2 DEF Open
    <3>2. Placed(p)'
      BY <1>0, <2>1, <2>2, <3>1 DEF Placed, Go
    <3>3. QED
      BY <2>1, <3>1, <3>2, QuietMove
  <2>3. CASE ~db.exists
    <3>1. db = NoDatabase
      BY <2>3 DEF StoreInv
    <3>2. db' = [db EXCEPT !.exists = TRUE]
      BY <1>4, <2>3, <3>1 DEF Open
    <3>3. /\ db' \in Databases /\ db'.exists /\ Gains(db, db')
          /\ db'.shape = db.shape /\ db'.version = db.version /\ db'.rows = db.rows
      BY <1>0, <3>2, Creating
    <3>4. Placed(p)'
      BY <1>0, <2>1, <3>3 DEF Placed, Go
    <3>5. QED
      BY <1>00, <2>1, <3>3, <3>4, DatabaseMove
  <2>4. QED
    BY <2>2, <2>3
<1>5. CASE Busy(p)
  <2>1. PICK step \in {"gave up", "state"} : Go(p, step)
    BY <1>5 DEF Busy
  <2>2. Placed(p)'
    BY <1>0, <1>5, <2>1 DEF Busy, Placed, Go
  <2>3. QED
    BY <1>5, <2>1, <2>2, QuietMove DEF Busy
<1>6. CASE Journal(p)
  <2>1. dirs' = dirs /\ db' = db /\ began' = began /\ seen' = seen /\ pc[p] = "journal"
    BY <1>6 DEF Journal
  <2>2. CASE NeedsLock(p)
    <3>1. lock = Unlocked /\ lock' = p /\ Go(p, "converting")
      BY <1>6, <2>2 DEF Journal, Take
    <3>2. Placed(p)'
      BY <1>0, <2>1, <3>1 DEF Placed, Go
    <3>3. QED
      BY <2>1, <3>1, <3>2, QuietMove, ProcessesAssumption
  <2>3. CASE ~NeedsLock(p)
    <3>1. lock' = lock /\ Go(p, "read version")
      BY <1>6, <2>3 DEF Journal
    <3>2. db.wal
      BY <2>1, <2>3 DEF NeedsLock
    <3>3. Placed(p)'
      BY <1>0, <2>1, <3>1, <3>2 DEF Placed, Go
    <3>4. QED
      BY <2>1, <3>1, <3>3, QuietMove
  <2>4. QED
    BY <2>2, <2>3
<1>7. CASE ReadVersion(p)
  <2>1. PICK step \in {"refused", "schema"} : Go(p, step) /\ (step = "schema" => ~TooNew(p))
    BY <1>7 DEF ReadVersion
  <2>2. seen'[p] = db.version
    BY <1>0, <1>7 DEF ReadVersion, StoreTypeOK
  <2>3. Placed(p)'
    BY <1>0, <1>7, <2>1, <2>2 DEF ReadVersion, Placed, Go
  <2>4. began.version = 2 /\ Build[p] = 1 => step \notin Writers
    <3>1. began.version = 2 /\ Build[p] = 1 => db.version > Build[p]
      BY <1>00
    <3>2. QED
      BY <2>1, <3>1 DEF TooNew
  <2>5. QED
    BY <1>7, <2>1, <2>3, <2>4, QuietMove DEF ReadVersion
<1>8. CASE Schema(p)
  <2>1. dirs' = dirs /\ db' = db /\ began' = began /\ seen' = seen /\ pc[p] = "schema"
    BY <1>8 DEF Schema
  <2>2. CASE NeedsLock(p)
    <3>1. lock = Unlocked /\ lock' = p /\ Go(p, "creating")
      BY <1>8, <2>2 DEF Schema, Take
    <3>2. Placed(p)'
      BY <1>0, <2>1, <3>1 DEF Placed, Go
    <3>3. QED
      BY <1>00, <2>1, <3>1, <3>2, QuietMove, ProcessesAssumption
  <2>3. CASE ~NeedsLock(p)
    <3>1. lock' = lock /\ Go(p, "stamp")
      BY <1>8, <2>3 DEF Schema
    <3>2. db.shape # 0
      BY <2>1, <2>3 DEF NeedsLock
    <3>3. Placed(p)'
      BY <1>0, <2>1, <3>1, <3>2 DEF Placed, Go
    <3>4. QED
      BY <1>00, <2>1, <3>1, <3>3, QuietMove
  <2>4. QED
    BY <2>2, <2>3
<1>9. CASE Stamp(p)
  <2>1. dirs' = dirs /\ db' = db /\ began' = began /\ seen' = seen /\ pc[p] = "stamp"
    BY <1>9 DEF Stamp
  <2>2. CASE NeedsLock(p)
    <3>1. lock = Unlocked /\ lock' = p /\ Go(p, "stamping")
      BY <1>9, <2>2 DEF Stamp, Take
    <3>2. Placed(p)'
      BY <1>0, <2>1, <3>1 DEF Placed, Go
    <3>3. QED
      BY <1>00, <2>1, <3>1, <3>2, QuietMove, ProcessesAssumption
  <2>3. CASE ~NeedsLock(p)
    <3>1. lock' = lock /\ Go(p, "chmod")
      BY <1>9, <2>3 DEF Stamp
    <3>2. seen[p] # 0
      <4>1. ~(seen[p] < Build[p])
        BY <2>1, <2>3 DEF NeedsLock
      <4>2. Build[p] \in {1, 2} /\ seen[p] \in 0..2
        BY <1>0
      <4>3. QED
        BY <4>1, <4>2
    <3>3. Placed(p)'
      BY <1>0, <2>1, <3>1, <3>2 DEF Placed, Go
    <3>4. QED
      BY <1>00, <2>1, <3>1, <3>3, QuietMove
  <2>4. QED
    BY <2>2, <2>3
<1>10. CASE Chmod(p)
  <2>1. PICK step \in {"done", "insert"} : Go(p, step) /\ (step = "done" => p \in Lookers)
    BY <1>10 DEF Chmod
  <2>2. /\ dirs' = dirs /\ began' = began /\ lock' = lock /\ seen' = seen /\ pc[p] = "chmod"
        /\ db' = [db EXCEPT !.private = TRUE]
    BY <1>10 DEF Chmod
  <2>3. /\ db' \in Databases /\ db'.private /\ Gains(db, db')
        /\ db'.shape = db.shape /\ db'.version = db.version /\ db'.rows = db.rows
    BY <1>0, <2>2, Securing
  <2>4. Placed(p)' /\ db'.exists
    BY <1>0, <2>1, <2>2, <2>3 DEF Placed, Go, Gains
  <2>5. QED
    BY <1>00, <2>1, <2>2, <2>3, <2>4, DatabaseMove
<1>11. CASE Insert(p)
  <2>1. /\ dirs' = dirs /\ db' = db /\ began' = began /\ seen' = seen /\ pc[p] = "insert"
        /\ lock = Unlocked /\ lock' = p /\ Go(p, "inserting")
    BY <1>11 DEF Insert, Take
  <2>2. Placed(p)'
    BY <1>0, <2>1 DEF Placed, Go
  <2>3. QED
    BY <1>00, <2>1, <2>2, QuietMove, ProcessesAssumption
<1>12. CASE Dies(p)
  <2>1. /\ dirs' = dirs /\ db' = db /\ began' = began /\ seen' = seen
        /\ Go(p, "dead") /\ \A o \in Processes \ {p} : lock = o => lock' = o
    BY <1>12 DEF Dies
  <2>2. Placed(p)'
    BY <1>0, <2>1 DEF Placed, Go
  <2>3. QED
    BY <2>1, <2>2, QuietMove
<1>13. CASE Commit(p, "converting", "read version", [db EXCEPT !.wal = TRUE])
  <2>1. /\ dirs' = dirs /\ began' = began /\ seen' = seen /\ pc[p] = "converting" /\ lock' = Unlocked
        /\ Go(p, "read version") /\ db' = [db EXCEPT !.wal = TRUE]
    BY <1>13 DEF Commit
  <2>2. /\ db' \in Databases /\ db'.wal /\ Gains(db, db')
        /\ db'.shape = db.shape /\ db'.version = db.version /\ db'.rows = db.rows
    BY <1>0, <2>1, Converting
  <2>3. Placed(p)' /\ db'.exists /\ lock = p
    BY <1>0, <2>1, <2>2 DEF Placed, Go, Gains
  <2>4. QED
    BY <1>00, <2>1, <2>2, <2>3, DatabaseMove
<1>14. CASE Commit(p, "creating", "stamp", Created(p))
  <2>1. /\ dirs' = dirs /\ began' = began /\ seen' = seen /\ pc[p] = "creating" /\ lock' = Unlocked
        /\ Go(p, "stamp") /\ db' = Created(p)
    BY <1>14 DEF Commit
  <2>2. /\ db' \in Databases /\ Gains(db, db') /\ db'.shape # 0
        /\ (db.shape # 0 => db'.shape = db.shape) /\ db'.version = db.version /\ db'.rows = db.rows
    <3>1. CASE db.shape = 0
      <4>1. db' = [db EXCEPT !.shape = Build[p]] /\ Build[p] \in {1, 2} /\ db \in Databases
        BY <1>0, <2>1, <3>1 DEF Created
      <4>2. db' \in Databases /\ Gains(db, db') /\ db'.shape = Build[p]
            /\ db'.version = db.version /\ db'.rows = db.rows
        BY <4>1, Shaping
      <4>3. Build[p] # 0
        BY <4>1
      <4>4. QED
        BY <3>1, <4>2, <4>3
    <3>2. CASE db.shape # 0
      BY <1>0, <2>1, <3>2 DEF Created, Gains
    <3>3. QED
      BY <3>1, <3>2
  <2>3. Placed(p)' /\ db'.exists /\ lock = p
    BY <1>0, <2>1, <2>2 DEF Placed, Go, Gains
  <2>4. began.version = 2 =>
          /\ db'.version = 2 /\ db'.shape = 2 /\ db'.rows \subseteq db.rows \cup {p}
          /\ Build[p] = 1 => "stamp" \notin Writers /\ p \notin db'.rows
    <3>1. began.version = 2 => db.shape = 2 /\ db.shape # 0
      BY <1>00
    <3>2. QED
      BY <1>00, <2>1, <2>2, <3>1
  <2>5. \A o \in Processes \ {p} : lock = o => lock' = o
    BY <2>3
  <2>6. "stamp" \in Steps /\ (db.shape # 0 => db'.shape # 0) /\ (db.version # 0 => db'.version # 0)
        /\ db.rows \subseteq db'.rows
    BY <2>2
  <2>7. QED
    BY <2>1, <2>2, <2>3, <2>4, <2>5, <2>6, DatabaseMove
<1>15. CASE Commit(p, "stamping", "chmod", Stamped(p))
  <2>1. /\ dirs' = dirs /\ began' = began /\ seen' = seen /\ pc[p] = "stamping" /\ lock' = Unlocked
        /\ Go(p, "chmod") /\ db' = Stamped(p)
    BY <1>15 DEF Commit
  <2> DEFINE shape == IF Build[p] = 2 THEN 2 ELSE db.shape
  <2>2. shape \in 0..2 /\ (db.shape # 0 => shape # 0)
    <3>1. CASE Build[p] = 2
      BY <3>1
    <3>2. CASE Build[p] # 2
      <4>1. shape = db.shape
        BY <3>2
      <4>2. db.shape \in 0..2
        BY <1>0
      <4>3. QED
        BY <4>1, <4>2
    <3>3. QED
      BY <3>1, <3>2
  <2>3. db' = [db EXCEPT !.version = Build[p], !.shape = shape]
    BY <2>1 DEF Stamped
  <2> HIDE DEF shape
  <2>4. /\ db' \in Databases /\ Gains(db, db') /\ db'.version = Build[p]
        /\ db'.shape = shape /\ db'.rows = db.rows
    <3>1. Build[p] \in {1, 2} /\ db \in Databases
      BY <1>0
    <3>2. PICK m : m = [db EXCEPT !.version = Build[p]]
      OBVIOUS
    <3>3. m \in Databases /\ Gains(db, m) /\ m.version = Build[p] /\ m.rows = db.rows
      BY <3>1, <3>2, Versioning
    <3>4. db' = [m EXCEPT !.shape = shape]
      BY <2>3, <3>1, <3>2 DEF Databases
    <3>5. db' \in Databases /\ Gains(m, db') /\ db'.shape = shape /\ db'.version = m.version /\ db'.rows = m.rows
      BY <2>2, <3>3, <3>4, Shaping
    <3>6. QED
      BY <3>3, <3>5 DEF Gains
  <2>5. db'.version # 0 /\ Build[p] \in {1, 2}
    <3>1. Build[p] \in {1, 2}
      BY <1>0
    <3>2. QED
      BY <2>4, <3>1
  <2>6. db.shape # 0 /\ db.exists /\ db.wal /\ lock = p
    BY <1>0, <2>1 DEF Placed
  <2>7. Placed(p)' /\ db'.exists
    BY <1>0, <2>1, <2>2, <2>4, <2>5, <2>6 DEF Placed, Go, Gains
  <2>8. began.version = 2 =>
          /\ db'.version = 2 /\ db'.shape = 2 /\ db'.rows \subseteq db.rows \cup {p}
          /\ Build[p] = 1 => "chmod" \notin Writers /\ p \notin db'.rows
    <3>1. began.version = 2 => Build[p] = 2
      BY <1>00, <2>1, <2>5
    <3>2. Build[p] = 2 => shape = 2
      BY DEF shape
    <3>3. QED
      BY <2>4, <3>1, <3>2
  <2>9. \A o \in Processes \ {p} : lock = o => lock' = o
    BY <2>6
  <2>10. QED
    BY <2>1, <2>2, <2>4, <2>5, <2>6, <2>7, <2>8, <2>9, DatabaseMove
<1>16. CASE Commit(p, "inserting", "done", [db EXCEPT !.rows = @ \cup {p}])
  <2>1. /\ dirs' = dirs /\ began' = began /\ seen' = seen /\ pc[p] = "inserting" /\ lock' = Unlocked
        /\ Go(p, "done") /\ db' = [db EXCEPT !.rows = @ \cup {p}]
    BY <1>16 DEF Commit
  <2>2. /\ db' \in Databases /\ Gains(db, db')
        /\ db'.shape = db.shape /\ db'.version = db.version /\ db'.rows = db.rows \cup {p}
    BY <1>0, <2>1, Inserting
  <2>3. Placed(p)' /\ db'.exists /\ lock = p
    BY <1>0, <2>1, <2>2 DEF Placed, Go, Gains
  <2>4. QED
    BY <1>00, <2>1, <2>2, <2>3, DatabaseMove
<1>17. QED
  BY <1>1, <1>2, <1>3, <1>4, <1>5, <1>6, <1>7, <1>8, <1>9, <1>10, <1>11, <1>12, <1>13, <1>14,
     <1>15, <1>16 DEF StoreStep

LEMMA StoreKept == StoreInv /\ [Next]_vars => StoreInv'
<1> SUFFICES ASSUME StoreInv, [Next]_vars PROVE StoreInv'
  OBVIOUS
<1>1. CASE StoreNext
  BY <1>1, StepKeeps, ProcessesAssumption DEF StoreNext
<1>2. CASE UNCHANGED storeVars
  BY <1>2 DEF storeVars, StoreInv, StoreTypeOK, Placed, Kept
<1>3. QED
  BY <1>1, <1>2 DEF Next, vars

(* Whoever else opens it, creates it or dies doing so, a handle is of a     *)
(* database that is whole and private, no row is lost to the creation of    *)
(* another, and what a newer plugin had written is left as it was.          *)
(* (job-store.mjs openStore, applySchema)                                   *)
THEOREM HandlesAreAlwaysSound == Spec => []HandlesAreSound
<1>1. StoreInv => HandlesAreSound
  <2> SUFFICES ASSUME StoreInv PROVE HandlesAreSound
    OBVIOUS
  <2>1. HandlesAreUsable
    BY DEF HandlesAreUsable, StoreInv, Placed, HasHandle, PastState, PastLogs, PastOpened, PastConverted,
           PastShaped, PastVersioned
  <2>2. NewerIsLeft
    BY DEF NewerIsLeft, StoreInv, Kept, HasHandle, Writers, PastShaped, PastVersioned
  <2>3. QED
    BY <2>1, <2>2 DEF HandlesAreSound
<1>2. QED
  BY <1>1, InitStore, StoreKept, PTL DEF Spec

-----------------------------------------------------------------------------
(* The credential.                                                           *)

Endpoint == DOMAIN BaseOf
Files == Contents \cup {DEFAULT_CONFIG}

LEMMA FilesName ==
  ASSUME NEW c \in Files
  PROVE  /\ c # Absent /\ c # Dangling
         /\ \A n \in DOMAIN c.providers : c.providers[n].endpoint \in Endpoint
  BY ContentsAssumption, EndpointAssumption DEF Files, DEFAULT_CONFIG, Provider, Absent, Dangling, Endpoint

-----------------------------------------------------------------------------
(* What `resolveProfile` gives.                                              *)

LEMMA ResolvedEndpoint ==
  ASSUME NEW c \in Files, NEW r \in Requests \cup {NoRequest}, ResolveProfile(c, r).kind = "profile"
  PROVE  ResolveProfile(c, r).endpoint \in Endpoint
  <1>1. r.baseUrl \in Endpoint \cup {None}
    BY EndpointAssumption DEF Endpoint, NoRequest
  <1>2. \A n \in DOMAIN c.providers : c.providers[n].endpoint \in Endpoint
    BY FilesName
  <1>3. \A e : Override(RequireProvider(c, r.provider), e).endpoint = e /\ Override(Nobody, e).endpoint = e
    BY DEF Override, Provider, Nobody
  <1>4. QED
    BY <1>1, <1>2, <1>3 DEF ResolveProfile, RequireProvider, BuildProfile, Failed

LEMMA Built ==
  ASSUME NEW built, NEW name, NEW p, NEW withheld \in BOOLEAN, NEW adHoc \in BOOLEAN,
         built = BuildProfile(name, p, withheld, adHoc), built.kind = "profile"
  PROVE  /\ built.name = name /\ built.endpoint = p.endpoint /\ built.credential = p.credential
         /\ built.adHoc = adHoc /\ p.credential # "empty"
  BY DEF BuildProfile, Failed

LEMMA Builds ==
  ASSUME NEW name, NEW p, NEW withheld \in BOOLEAN, NEW adHoc \in BOOLEAN, p.credential # "empty"
  PROVE  BuildProfile(name, p, withheld, adHoc).kind = "profile"
  BY DEF BuildProfile

(* A name alone resolves to what the file says of a provider.                *)
LEMMA CurrentIsConfigured ==
  ASSUME NEW c, NEW name, Current(c, name).kind # "failed"
  PROVE  /\ Current(c, name).kind = "profile"
         /\ \E n \in DOMAIN c.providers :
              /\ c.providers[n].endpoint = Current(c, name).endpoint
              /\ c.providers[n].credential = Current(c, name).credential
  BY DEF Current, ResolveProfile, RequireProvider, BuildProfile, Failed

(* The name a profile carries leads back to its endpoint and its credential, *)
(* unless it was ad hoc and had none.                                        *)
LEMMA NameLeadsBack ==
  ASSUME NEW c, c.valid, NEW r, ResolveProfile(c, r).kind = "profile",
         Keyed(ResolveProfile(c, r)) \/ ~ResolveProfile(c, r).adHoc
  PROVE  LET p == Current(c, ResolveProfile(c, r).name) IN
         /\ p.kind = "profile"
         /\ p.endpoint = ResolveProfile(c, r).endpoint
         /\ p.credential = ResolveProfile(c, r).credential
  <1> DEFINE name == IF r.provider # None THEN r.provider ELSE c.default
             named == RequireProvider(c, name)
             own == IF r.provider = None THEN Nobody ELSE named
             p == ResolveProfile(c, r)
  <1>0. p.kind = "profile" /\ (Keyed(p) \/ ~p.adHoc)
    OBVIOUS
  <1>1. CASE r.baseUrl = None
    <2>1. named # Nobody /\ p = BuildProfile(name, named, FALSE, FALSE)
      BY <1>1 DEF ResolveProfile, Failed
    <2>2. Current(c, name) = BuildProfile(name, named, FALSE, FALSE)
      BY <2>1 DEF Current, ResolveProfile
    <2> HIDE DEF name, named, p
    <2>3. p.name = name
      BY <1>0, <2>1, Built
    <2>4. Current(c, p.name) = p
      BY <2>1, <2>2, <2>3
    <2>5. QED
      BY <1>0, <2>4 DEF p
  <1>2. CASE r.baseUrl # None
    <2>1. PICK withheld \in BOOLEAN :
            p = BuildProfile(IF own = Nobody THEN AD_HOC_PROFILE_NAME ELSE r.provider,
                             Override(own, r.baseUrl), withheld, TRUE)
      BY <1>2 DEF ResolveProfile, Failed
    <2> DEFINE given == IF own = Nobody THEN AD_HOC_PROFILE_NAME ELSE r.provider
               over == Override(own, r.baseUrl)
    <2>2. p = BuildProfile(given, over, withheld, TRUE)
      BY <2>1
    <2> HIDE DEF given, over, own, named, p
    <2>3. p.name = given /\ p.endpoint = over.endpoint /\ p.credential = over.credential
          /\ p.adHoc = TRUE /\ over.credential # "empty"
      BY <1>0, <2>2, Built
    <2>4. own # Nobody /\ own.endpoint = r.baseUrl /\ over = own
      BY <1>0, <2>3 DEF Override, Provider, Keyed, over
    <2>5. r.provider # None /\ own = RequireProvider(c, r.provider) /\ p.name = r.provider
      BY <2>3, <2>4 DEF own, named, name, given
    <2>6. Current(c, r.provider) = BuildProfile(r.provider, own, FALSE, FALSE)
      BY <2>4, <2>5 DEF Current, ResolveProfile
    <2> DEFINE now == Current(c, r.provider)
    <2>7. now = BuildProfile(r.provider, own, FALSE, FALSE)
      BY <2>6
    <2> HIDE DEF now
    <2>8. now.kind = "profile"
      <3>1. own.credential # "empty"
        BY <2>3, <2>4
      <3>2. BuildProfile(r.provider, own, FALSE, FALSE).kind = "profile"
        BY <3>1, Builds, Zenon
      <3>3. QED
        BY <2>7, <3>2, Zenon
    <2>9. now.endpoint = p.endpoint /\ now.credential = p.credential
      <3>1. now.endpoint = own.endpoint /\ now.credential = own.credential
        BY <2>7, <2>8, Built
      <3>2. QED
        BY <2>3, <2>4, <3>1
    <2>10. QED
      BY <2>5, <2>8, <2>9 DEF p, now
  <1>3. QED
    BY <1>1, <1>2

-----------------------------------------------------------------------------
(* The row a submission leaves.                                              *)
RowOf(p, version) ==
  [transport |-> TransportFor(p, version), auth |-> AuthPolicyFor(p, version),
   declares |-> p.declares, version |-> version]

LEMMA HashedWhen ==
  ASSUME NEW p, NEW version, TransportFor(p, version).hashed
  PROVE  version > 1 /\ ~p.adHoc /\ QueryOf[p.endpoint] # NoQuery
  BY Zenon DEF TransportFor

(* What a worker sends belongs to the endpoint, and a credential to both     *)
(* then and now.                                                             *)
LEMMA SendsWhatIsOwed ==
  ASSUME NEW p, p.endpoint \in Endpoint, NEW version \in RowVersions, NEW c \in Files,
         NEW request2, request2 = TransportProfile(RowOf(p, version), c), request2.kind = "request"
  PROVE  /\ request2.base = BaseOf[p.endpoint] /\ request2.query = QueryOf[p.endpoint]
         /\ request2.declares = p.declares
         /\ (request2.key = "none") = (p.credential = "none")
         /\ request2.key # "none" =>
              /\ \E n \in DOMAIN c.providers :
                   c.providers[n].endpoint = p.endpoint /\ c.providers[n].credential = request2.key
              /\ version = 3 => request2.key = p.credential
  <1> DEFINE j == RowOf(p, version)
             now == Current(c, j.auth.profile)
             resolved == ResolveCredential(j, c)
  <1>1. /\ j.transport.base = BaseOf[p.endpoint] /\ j.transport.query = QueryOf[p.endpoint]
        /\ j.declares = p.declares /\ j.version = version /\ j.auth = AuthPolicyFor(p, version)
    BY DEF RowOf, TransportFor
  <1>2. resolved.kind \in {"nothing", "resolved", "refused"}
    BY DEF ResolveCredential, Refused
  <1>3. CASE resolved.kind = "nothing"
    <2>1. j.auth.mode = "none"
      BY <1>3 DEF ResolveCredential, Refused
    <2>2. ~Keyed(p)
      BY <1>1, <2>1 DEF AuthPolicyFor, Authorisation
    <2>3. request2 = [kind |-> "request", base |-> j.transport.base, query |-> j.transport.query,
                      key |-> "none", declares |-> j.declares]
      BY <1>3 DEF TransportProfile, Refused
    <2>4. QED
      BY <1>1, <2>2, <2>3 DEF Keyed
  <1>4. CASE resolved.kind = "resolved"
    <2>1. /\ j.auth.mode # "none" /\ now.kind # "failed" /\ SameEndpoint(j.transport, now)
          /\ resolved.query = QueryOf[now.endpoint]
          /\ \/ ~KeyAuthorized(j) /\ resolved.key = "none"
             \/ KeyAuthorized(j) /\ Keyed(now) /\ SourceHolds(j, now) /\ resolved.key = now.credential
      BY <1>4 DEF ResolveCredential, Refused
    <2>2. PICK n \in DOMAIN c.providers :
            c.providers[n].endpoint = now.endpoint /\ c.providers[n].credential = now.credential
      BY <2>1, CurrentIsConfigured
    <2>3. now.endpoint = p.endpoint
      <3>1. now.endpoint \in Endpoint
        BY <2>2, FilesName
      <3>2. QED
        BY <1>1, <2>1, <3>1, EndpointAssumption DEF SameEndpoint, Endpoint
    <2>4. request2 = [kind |-> "request", base |-> j.transport.base,
                      query |-> IF j.transport.hashed THEN resolved.query ELSE j.transport.query,
                      key |-> resolved.key, declares |-> j.declares]
      BY <1>4 DEF TransportProfile, Refused
    <2>5. j.auth = Authorisation(p, version)
      BY <1>1, <2>1 DEF AuthPolicyFor, WithoutCredential
    <2>6. KeyAuthorized(j) <=> Keyed(p)
      <3>1. version = 1 => Keyed(p)
        BY <1>1, <2>1 DEF AuthPolicyFor, WithoutCredential
      <3>2. QED
        BY <1>1, <2>5, <3>1 DEF KeyAuthorized, Authorisation, RowVersions
    <2>7. version = 3 /\ KeyAuthorized(j) => now.credential = p.credential
      BY <1>1, <2>1, <2>5, <2>6 DEF SourceHolds, Authorisation
    <2>8. QED
      BY <1>1, <2>1, <2>2, <2>3, <2>4, <2>6, <2>7 DEF Keyed
  <1>5. resolved.kind # "refused"
    BY DEF TransportProfile
  <1>6. QED
    BY <1>2, <1>3, <1>4, <1>5

(* With the file it was submitted under, a job is not refused.               *)
LEMMA UneditedIsSent ==
  ASSUME NEW c, c.valid, NEW r, NEW p, p = ResolveProfile(c, r), p.kind = "profile",
         NEW version \in RowVersions
  PROVE  TransportProfile(RowOf(p, version), c).kind = "request"
  <1> DEFINE j == RowOf(p, version)
             now == Current(c, j.auth.profile)
             resolved == ResolveCredential(j, c)
  <1>1. /\ j.transport = TransportFor(p, version) /\ j.version = version
        /\ j.auth = AuthPolicyFor(p, version)
    BY DEF RowOf
  <1>2. CASE j.auth.mode = "none"
    <2>1. ~j.transport.hashed
      BY <1>1, <1>2, HashedWhen DEF AuthPolicyFor, Authorisation
    <2>2. resolved = [kind |-> "nothing"]
      BY <1>2 DEF ResolveCredential
    <2>3. QED
      BY <2>1, <2>2 DEF TransportProfile
  <1>3. CASE j.auth.mode # "none"
    <2>1. j.auth = Authorisation(p, version)
          /\ (Keyed(p) \/ (version > 1 /\ ~p.adHoc /\ QueryOf[p.endpoint] # NoQuery))
      BY <1>1, <1>3 DEF AuthPolicyFor, WithoutCredential
    <2>2. j.auth.profile = p.name /\ j.auth.origin = OriginOf[j.transport.base]
      BY <1>1, <2>1 DEF Authorisation, TransportFor
    <2>3. now.kind = "profile" /\ now.endpoint = p.endpoint /\ now.credential = p.credential
      BY <2>1, <2>2, NameLeadsBack
    <2>4. SameEndpoint(j.transport, now)
      BY <1>1, <2>3 DEF SameEndpoint, TransportFor
    <2>5. KeyAuthorized(j) => Keyed(now) /\ SourceHolds(j, now)
      BY <1>1, <2>1, <2>3 DEF KeyAuthorized, SourceHolds, Authorisation, Keyed, RowVersions
    <2>6. resolved.kind = "resolved" /\ resolved.query = QueryOf[p.endpoint]
      BY <1>3, <2>2, <2>3, <2>4, <2>5 DEF ResolveCredential
    <2>7. j.transport.hashed => QueryOf[p.endpoint] # NoQuery
      BY <1>1, HashedWhen
    <2>8. QED
      BY <2>6, <2>7 DEF TransportProfile
  <1>4. QED
    BY <1>2, <1>3

-----------------------------------------------------------------------------
(* The inductive invariant: a profile is what the file it was read from      *)
(* gives for as long as nobody has written it since, and the row is what     *)
(* that profile left.                                                        *)
FileInv ==
  /\ others \in Nat
  /\ request \in Requests \cup {NoRequest}
  /\ file \in Files \cup {Absent, Dangling}
  /\ at # "done" => profile = NoProfile
  /\ profile.kind = "profile" /\ (job = NoRow \/ others = 0) =>
       file \in Files /\ file.valid /\ profile = ResolveProfile(file, request)

RowInv ==
  /\ job = NoRow => sent = NotYet
  /\ job # NoRow =>
       /\ profile.kind = "profile" /\ profile.endpoint \in Endpoint
       /\ file # Dangling
       /\ \E version \in RowVersions : job = RowOf(profile, version)

AuthInv == FileInv /\ RowInv /\ SentAsAuthorised

LEMMA AuthInvInit == Init => AuthInv
  <1> SUFFICES ASSUME Init PROVE AuthInv
    OBVIOUS
  <1>1. /\ others = 0 /\ request \in Requests \cup {NoRequest} /\ file \in Files \cup {Absent, Dangling}
        /\ profile = NoProfile /\ job = NoRow /\ sent = NotYet
    BY DEF Init, AuthInit, AuthIdle, ConfigInit, ConfigIdle, Files
  <1>2. profile.kind = "failed" /\ sent.kind = "pending"
    BY <1>1 DEF NoProfile, Failed, NotYet
  <1>3. QED
    BY <1>1, <1>2 DEF AuthInv, FileInv, RowInv, SentAsAuthorised

LEMMA ConfigKeeps == AuthInv /\ ConfigNext /\ UNCHANGED authVars => AuthInv'
  <1> SUFFICES ASSUME AuthInv, ConfigNext, UNCHANGED authVars PROVE AuthInv'
    OBVIOUS
  <1> USE DEF AuthInv, FileInv
  <1>1. at # "done" /\ profile = NoProfile /\ profile.kind = "failed" /\ NoProfile.kind = "failed"
    <2>1. at # "done"
      BY DEF ConfigNext, ReadConfig, CreateConfig, OthersWrite
    <2>2. NoProfile.kind = "failed"
      BY DEF NoProfile, Failed
    <2>3. QED
      BY <2>1, <2>2
  <1>2. job = NoRow /\ sent = NotYet /\ job' = job /\ sent' = sent
    BY <1>1 DEF RowInv, authVars
  <1>3. RowInv' /\ SentAsAuthorised'
    BY <1>2 DEF RowInv, SentAsAuthorised, NotYet
  <1>4. CASE ReadConfig
    <2>1. UNCHANGED <<file, others, request>>
      BY <1>4 DEF ReadConfig
    <2>2. \/ profile' = profile
          \/ at' = "done" /\ \E why \in {"cannot be read", "permissions", "invalid"} : profile' = Failed(why)
          \/ /\ at' = "done" /\ file \in Files /\ file.valid
             /\ profile' = ResolveProfile(file, request)
      BY <1>4 DEF ReadConfig, Settle
    <2>3. \A why : Failed(why).kind = "failed"
      BY DEF Failed
    <2>4. FileInv'
      BY <1>1, <1>2, <2>1, <2>2, <2>3
    <2>5. QED
      BY <1>3, <2>4
  <1>5. CASE CreateConfig
    <2>1. UNCHANGED <<others, request>>
      BY <1>5 DEF CreateConfig
    <2>2. \/ file' = file /\ profile' = profile
          \/ /\ file' = DEFAULT_CONFIG /\ at' = "done"
             /\ profile' = ResolveProfile(DEFAULT_CONFIG, request)
      BY <1>5 DEF CreateConfig, Settle
    <2>3. DEFAULT_CONFIG \in Files /\ DEFAULT_CONFIG.valid
      BY DEF Files, DEFAULT_CONFIG
    <2>4. QED
      BY <1>1, <1>3, <2>1, <2>2, <2>3
  <1>6. CASE OthersWrite
    BY <1>1, <1>3, <1>6 DEF OthersWrite, Files
  <1>7. QED
    BY <1>4, <1>5, <1>6 DEF ConfigNext

LEMMA SubmitKeeps == AuthInv /\ Submit => AuthInv'
  <1> SUFFICES ASSUME AuthInv, Submit PROVE AuthInv'
    OBVIOUS
  <1>1. PICK version \in RowVersions : job' = RowOf(profile, version)
    BY DEF Submit, RowOf
  <1>2. job' # NoRow
    BY <1>1 DEF RowOf, NoRow, RowVersions
  <1>3. /\ profile.kind = "profile" /\ job = NoRow /\ at = "done" /\ others' = 0
        /\ UNCHANGED <<file, request, at, profile, sent>>
    BY DEF Submit
  <1>4. file \in Files /\ file.valid /\ profile = ResolveProfile(file, request)
    BY <1>3 DEF AuthInv, FileInv
  <1>5. profile.endpoint \in Endpoint
    BY <1>3, <1>4, ResolvedEndpoint DEF AuthInv, FileInv
  <1>6. file # Dangling
    BY <1>4, FilesName
  <1>7. FileInv'
    BY <1>3, <1>4 DEF AuthInv, FileInv
  <1>8. RowInv'
    BY <1>1, <1>2, <1>3, <1>5, <1>6 DEF RowInv
  <1>9. SentAsAuthorised'
    BY <1>3 DEF AuthInv, RowInv, SentAsAuthorised, NotYet
  <1>10. QED
    BY <1>7, <1>8, <1>9 DEF AuthInv

LEMMA EditKeeps == AuthInv /\ Edit => AuthInv'
  <1> SUFFICES ASSUME AuthInv, Edit PROVE AuthInv'
    OBVIOUS
  <1>1. /\ job # NoRow /\ sent = NotYet /\ others' = others + 1
        /\ file' \in Contents \cup {Absent}
        /\ UNCHANGED <<request, at, profile, job, sent>>
    BY DEF Edit
  <1>2. file' \in Files \cup {Absent} /\ file' # Dangling
    BY <1>1, FilesName DEF Files, Absent, Dangling
  <1>3. FileInv'
    BY <1>1, <1>2 DEF AuthInv, FileInv
  <1>4. RowInv'
    BY <1>1, <1>2 DEF AuthInv, RowInv
  <1>5. SentAsAuthorised'
    BY <1>1 DEF SentAsAuthorised, NotYet
  <1>6. QED
    BY <1>3, <1>4, <1>5 DEF AuthInv

LEMMA RunJobKeeps == AuthInv /\ RunJob => AuthInv'
  <1> SUFFICES ASSUME AuthInv, RunJob PROVE AuthInv'
    OBVIOUS
  <1>1. /\ job # NoRow /\ sent' = TransportProfile(job, file')
        /\ UNCHANGED <<others, request, at, profile, job>>
        /\ file' = IF file = Absent /\ job.auth.mode # "none" THEN DEFAULT_CONFIG ELSE file
    BY DEF RunJob
  <1>2. /\ profile.kind = "profile" /\ profile.endpoint \in Endpoint
        /\ file \in Files \cup {Absent}
    BY <1>1 DEF AuthInv, FileInv, RowInv
  <1>3. PICK version \in RowVersions : job = RowOf(profile, version)
    BY <1>1 DEF AuthInv, RowInv
  <1>4. job.version = version
    BY <1>3 DEF RowOf
  <1>5. file' \in Files \cup {Absent} /\ file' # Dangling
    BY <1>1, <1>2, FilesName DEF Files, Absent, Dangling
  <1>6. others = 0 => file \in Files /\ file' = file /\ file.valid /\ profile = ResolveProfile(file, request)
    BY <1>1, <1>2, FilesName DEF AuthInv, FileInv
  <1>7. FileInv'
    BY <1>1, <1>5, <1>6 DEF AuthInv, FileInv
  <1>8. RowInv'
    BY <1>1, <1>2, <1>3, <1>5 DEF RowInv
  <1>9. ASSUME sent'.kind = "request"
        PROVE  /\ sent'.base = BaseOf[profile.endpoint] /\ sent'.query = QueryOf[profile.endpoint]
               /\ sent'.declares = profile.declares
               /\ (sent'.key = "none") = (profile.credential = "none")
               /\ sent'.key # "none" =>
                    /\ \E n \in DOMAIN file'.providers :
                         file'.providers[n].endpoint = profile.endpoint /\ file'.providers[n].credential = sent'.key
                    /\ version = 3 => sent'.key = profile.credential
    <2>1. CASE file' \in Files
      BY <1>1, <1>2, <1>3, <1>9, <2>1, SendsWhatIsOwed
    <2>2. CASE file' = Absent
      <3>1. job.auth.mode = "none"
        BY <1>1, <2>2, FilesName DEF Files
      <3>2. ResolveCredential(job, file') = [kind |-> "nothing"]
        BY <3>1 DEF ResolveCredential
      <3>3. ~Keyed(profile)
        BY <1>3, <3>1 DEF RowOf, AuthPolicyFor, Authorisation
      <3>4. sent' = [kind |-> "request", base |-> job.transport.base, query |-> job.transport.query,
                     key |-> "none", declares |-> job.declares]
        <4>1. job.transport = TransportFor(profile, version) /\ job.auth = AuthPolicyFor(profile, version)
          BY <1>3 DEF RowOf
        <4>2. ~job.transport.hashed
          BY <3>1, <4>1, HashedWhen DEF AuthPolicyFor, Authorisation
        <4>3. QED
          BY <1>1, <3>2, <4>2 DEF TransportProfile
      <3>5. job.transport.base = BaseOf[profile.endpoint] /\ job.transport.query = QueryOf[profile.endpoint]
            /\ job.declares = profile.declares
        BY <1>3 DEF RowOf, TransportFor
      <3>6. QED
        BY <3>3, <3>4, <3>5 DEF Keyed
    <2>3. QED
      BY <1>5, <2>1, <2>2
  <1>10. sent'.kind = "refused" => others > 0
    <2>1. others = 0 => sent'.kind = "request"
      BY <1>1, <1>2, <1>3, <1>6, UneditedIsSent
    <2>2. others \in Nat
      BY DEF AuthInv, FileInv
    <2>3. QED
      BY <2>1, <2>2
  <1>11. SentAsAuthorised'
    BY <1>1, <1>4, <1>9, <1>10 DEF SentAsAuthorised
  <1>12. QED
    BY <1>7, <1>8, <1>11 DEF AuthInv

LEMMA AuthInvStep == AuthInv /\ [Next]_vars => AuthInv'
  <1> SUFFICES ASSUME AuthInv, [Next]_vars PROVE AuthInv'
    OBVIOUS
  <1>1. CASE AuthNext
    BY <1>1, ConfigKeeps, SubmitKeeps, EditKeeps, RunJobKeeps DEF AuthNext
  <1>2. CASE UNCHANGED <<configVars, authVars>>
    BY <1>2 DEF configVars, authVars, AuthInv, FileInv, RowInv, SentAsAuthorised
  <1>3. QED
    BY <1>1, <1>2 DEF Next, vars

-----------------------------------------------------------------------------
(* For any providers file, however often it is edited and whichever build    *)
(* wrote the row: a worker sends to the endpoint the job was submitted for,  *)
(* with a credential only if it had one, that endpoint's own, from the       *)
(* source the row names; and refuses only where the file was edited.         *)
(* (resolveCredential, authPolicyFor, transportProfile)                      *)
THEOREM CredentialsStayHome == Spec => []SentAsAuthorised
  <1>1. AuthInv => SentAsAuthorised
    BY DEF AuthInv
  <1>2. QED
    BY <1>1, AuthInvInit, AuthInvStep, PTL DEF Spec

-----------------------------------------------------------------------------
(* What happens to the table of rows is a behaviour of QueueTable, the       *)
(* theorems about which (QueueTableProofs) therefore hold here too.          *)
(* (job-view.mjs, job-abandon.mjs, job-reconcile.mjs)                        *)
THEOREM TableIsATable == Spec => TableSpec
  <1>1. Init => TableInit
    <2>1. TableIdle => TableInit
      <3> SUFFICES ASSUME TableIdle PROVE TableInit
        OBVIOUS
      <3>1. table \in [{} -> Rows] /\ table \in [{} -> Prompt]
        BY DEF TableIdle
      <3>2. QED
        BY <3>1 DEF TableIdle, TableInit, Tables
    <2>2. QED
      BY <2>1 DEF Init
  <1>2. [Next]_vars => [TableNext]_tableVars
    BY DEF Next, vars
  <1>3. QED
    BY <1>1, <1>2, PTL DEF Spec, TableSpec
=============================================================================
