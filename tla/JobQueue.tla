------------------------------ MODULE JobQueue ------------------------------
(***************************************************************************)
(* The background job queue: one row per submitted job in a shared SQLite  *)
(* table, one detached worker process per row, a submitter that inserts    *)
(* the row and spawns the worker, readers that collect the rows of workers *)
(* that are gone, users who cancel and operators who write rows off.       *)
(*                                                                         *)
(* Every SQL statement and every BEGIN IMMEDIATE transaction is one atomic *)
(* step; everything between two of them is a point where any other process *)
(* may run.  A database held past its busy timeout is a nondeterministic   *)
(* choice at each write.  Time is the set of facts it makes true: a startup*)
(* grace that has passed, a wait cap that has elapsed.  `last_beat_at` is  *)
(* left out: it decides only whether abandoning needs --force, and both    *)
(* ways are open here (QueueTable has the beat).                           *)
(***************************************************************************)
EXTENDS QueueRules, FiniteSets

CONSTANTS
  Job,         \* sequence numbers, in submission order
  Foreign,     \* rows a newer build wrote (schema_version above this build's)
  Capped,      \* jobs submitted with --max-wait
  Readers,     \* bound: reader commands that may be under way at a time
  Errands,     \* bound: the reader commands run, among Look and cancelling a job
  Abandonable, \* bound: jobs an operator may write off
  Mortal,      \* bound: workers that may be killed
  Recyclable   \* bound: workers whose pid the OS may hand to another process

ASSUME JobAssumption == Job \subseteq Nat \ {0}
ASSUME ForeignAssumption == Foreign \subseteq Job
ASSUME ErrandAssumption == Errands \subseteq Job \cup {-1}

VARIABLES
  row,      \* the jobs table
  sub,      \* where each job's submitter is
  pc,       \* where each job's worker process is
  recycled, \* exited workers whose pid number now names an unrelated process
  late,     \* jobs whose wait cap has elapsed
  ack,      \* cancellation acknowledgement files
  salvaged, \* jobs whose log holds a SALVAGED_OUTCOME line
  seen,     \* each reader's listing: rows it has still to visit, as it read them
  errand,   \* what each reader is for: Idle, Look, or the job it cancels
  answered, \* history: jobs whose model call produced an answer
  died      \* history: workers that were killed

vars == <<row, sub, pc, recycled, late, ack, salvaged, seen, errand, answered, died>>
procVars == <<sub, pc, recycled, late, answered, died>>
fileVars == <<ack, salvaged>>
readerVars == <<seen, errand>>

-----------------------------------------------------------------------------
(* Types *)

Idle == 0   \* the command is not running
Look == -1  \* /oai:status or /oai:result: after collecting, it only reads

Reasons == {"none", "model", "worker-died", "cancel-unconfirmed",
            "worker-never-started", "worker-launch-unconfirmed",
            "operator-abandoned", "queue-timeout"}

Row == [state: {"absent"} \cup Active \cup Terminal,
        waiter: BOOLEAN,      \* waiter_pid IS NOT NULL
        worker: BOOLEAN,      \* worker_pid IS NOT NULL
        started: BOOLEAN,     \* started_at IS NOT NULL
        cancel: BOOLEAN,      \* cancel_requested_at IS NOT NULL
        young: BOOLEAN,       \* inside the startup grace; FALSE once nothing asks
        reason: Reasons]      \* failure.reason

NoRow == [state |-> "absent", waiter |-> FALSE, worker |-> FALSE,
          started |-> FALSE, cancel |-> FALSE, young |-> FALSE, reason |-> "none"]

Phases == {"none", "spawned", "due", "sleeping", "timingOut",
           "calling", "answered", "failing", "exited"}
Waiting == {"due", "sleeping", "timingOut"}   \* registered, never yet acquired
Owning  == {"calling", "answered", "failing"} \* acquired, outcome not yet written

TypeOK ==
  /\ row \in [Job -> Row]
  /\ sub \in [Job -> {"none", "inserted", "stamping", "unconfirmed", "done"}]
  /\ pc \in [Job -> Phases]
  /\ recycled \subseteq Job /\ late \subseteq Job
  /\ ack \subseteq Job /\ salvaged \subseteq Job
  /\ answered \subseteq Job /\ died \subseteq Job
  /\ seen \in [Readers -> [Job -> Row]]
  /\ errand \in [Readers -> Job \cup {Idle, Look}]

-----------------------------------------------------------------------------
(* Liveness of an owner, asked of the OS now about a row as it was read. *)

Exists(s) == pc[s] \notin {"none", "exited"}
PidLive(s) == Exists(s) \/ s \in recycled

RelevantPid(r, s) ==
  IF (r.state = "queued" /\ r.waiter) \/ (r.state = "running" /\ r.worker)
  THEN IF PidLive(s) THEN "live" ELSE "gone"
  ELSE "none"

Liveness(r, s) ==
  LivenessOf(r.state, RelevantPid(r, s), IF r.young THEN "young" ELSE "old")

(* isKnownVersion: a newer build knows every row, this one only its own.  A *)
(* worker runs the build that submitted it; readers run this build.         *)
KnownTo(s, t) == s \in Foreign \/ t \notin Foreign
KnowsAll(t) == TRUE \* mutant: no version check
KnownHere(t) == t \notin Foreign

(* The table as the build of worker s sees it. *)
ViewFor(s) ==
  [t \in Job |-> [state    |-> row[t].state,
                  cancel   |-> row[t].cancel,
                  liveness |-> Liveness(row[t], t),
                  known    |-> KnownTo(s, t)]]

-----------------------------------------------------------------------------
(* The guarded writes of job-record.mjs, as functions of the row on disk. *)

FinishAlways(r, state, reason) == \* mutant: no WHERE state IN (...)
  [r EXCEPT !.state = state, !.reason = reason, !.worker = FALSE, !.young = FALSE]

Finish(r, state, reason) ==
  IF r.state \in Active
  THEN [r EXCEPT !.state = state, !.reason = reason, !.worker = FALSE, !.young = FALSE]
  ELSE r

AbandonQueued(r, state, reason) == \* mutant: no AND waiter_pid IS NULL
  IF r.state = "queued"
  THEN [r EXCEPT !.state = state, !.reason = reason, !.young = FALSE]
  ELSE r

AbandonUnstarted(r, state, reason) ==
  IF r.state = "queued" /\ ~r.waiter
  THEN [r EXCEPT !.state = state, !.reason = reason, !.young = FALSE]
  ELSE r

CanRegister(r) == r.state = "queued" /\ ~r.waiter
RegisterWaiter(r) == [r EXCEPT !.waiter = TRUE, !.young = FALSE]

(* Unguarded; the stamp is not consulted once a worker has registered. *)
Stamp(r) == IF CanRegister(r) THEN [r EXCEPT !.young = TRUE] ELSE r

ClaimJob(r) == [r EXCEPT !.state = "running", !.worker = TRUE, !.started = TRUE]

MarkCancel(r) == IF r.state \in Active THEN [r EXCEPT !.cancel = TRUE] ELSE r

-----------------------------------------------------------------------------
(* job-reconcile.mjs: the verdict rests on the row as it was read (g); the  *)
(* write is guarded by the row as it is (row[t]).                           *)

TerminalizeDeadUnread(g, t) == \* mutant: a pending cancel is taken for its own proof
  IF g.cancel THEN Finish(row[t], "cancelled", "none")
  ELSE Finish(row[t], "failed", "worker-died")

TerminalizeDead(g, t) ==
  IF g.cancel
  THEN IF g.state # "running" \/ t \in ack
       THEN Finish(row[t], "cancelled", "none")
       ELSE Finish(row[t], "failed", "cancel-unconfirmed")
  ELSE Finish(row[t], "failed", "worker-died")

TerminalizeUnstarted(g, t) ==
  IF g.cancel
  THEN AbandonUnstarted(row[t], "cancelled", "none")
  ELSE AbandonUnstarted(row[t], "failed", "worker-never-started")

ReconcileDeadOnly(g, t) == \* mutant: never-started rows are nobody's work
  IF Liveness(g, t) = "dead" THEN TerminalizeDead(g, t) ELSE row[t]

Reconcile(g, t) ==
  CASE Liveness(g, t) = "dead" -> TerminalizeDead(g, t)
    [] Liveness(g, t) = "never-started" -> TerminalizeUnstarted(g, t)
    [] OTHER -> row[t]

-----------------------------------------------------------------------------
Init ==
  /\ row = [s \in Job |-> NoRow]
  /\ sub = [s \in Job |-> "none"]
  /\ pc = [s \in Job |-> "none"]
  /\ recycled = {} /\ late = {}
  /\ ack = {} /\ salvaged = {}
  /\ answered = {} /\ died = {}
  /\ seen = [c \in Readers |-> [s \in Job |-> NoRow]]
  /\ errand = [c \in Readers |-> Idle]

-----------------------------------------------------------------------------
(* Submission: task-submit.mjs.  The row is inserted, then a worker is      *)
(* spawned, then the spawn is stamped.                                      *)

InsertJob(s) ==
  /\ row[s].state = "absent"
  /\ \A t \in Job : t < s => row[t].state # "absent"
  /\ row' = [row EXCEPT ![s].state = "queued", ![s].young = TRUE]
  /\ sub' = [sub EXCEPT ![s] = "inserted"]
  /\ UNCHANGED <<pc, recycled, late, answered, died, fileVars, readerVars>>

SpawnConfirmed(s) ==
  /\ sub[s] = "inserted"
  /\ sub' = [sub EXCEPT ![s] = "stamping"]
  /\ pc' = [pc EXCEPT ![s] = "spawned"]
  /\ UNCHANGED <<row, recycled, late, answered, died, fileVars, readerVars>>

(* A rejected spawn says nothing about the child: the log descriptor may    *)
(* have failed to close after the child came alive.                         *)
SpawnRejected(s) ==
  /\ sub[s] = "inserted"
  /\ sub' = [sub EXCEPT ![s] = "unconfirmed"]
  /\ \/ UNCHANGED pc
     \/ pc' = [pc EXCEPT ![s] = "spawned"]
  /\ UNCHANGED <<row, recycled, late, answered, died, fileVars, readerVars>>

(* markSpawned restarts the startup grace, even one that had run out, unless*)
(* the storage refuses it for the whole retry budget.                       *)
MarkSpawned(s) ==
  /\ sub[s] = "stamping"
  /\ sub' = [sub EXCEPT ![s] = "done"]
  /\ \/ row' = [row EXCEPT ![s] = Stamp(@)]
     \/ UNCHANGED row
  /\ UNCHANGED <<pc, recycled, late, answered, died, fileVars, readerVars>>

FinishSpawnFailure(s) == \* mutant: finish in place of abandonUnstarted
  /\ sub[s] = "unconfirmed"
  /\ sub' = [sub EXCEPT ![s] = "done"]
  /\ row' = [row EXCEPT ![s] = Finish(@, "failed", "worker-launch-unconfirmed")]
  /\ UNCHANGED <<pc, recycled, late, answered, died, fileVars, readerVars>>

TerminalizeSpawnFailure(s) ==
  /\ sub[s] = "unconfirmed"
  /\ sub' = [sub EXCEPT ![s] = "done"]
  /\ \/ row' = [row EXCEPT ![s] = AbandonUnstarted(@, "failed", "worker-launch-unconfirmed")]
     \/ UNCHANGED row
  /\ UNCHANGED <<pc, recycled, late, answered, died, fileVars, readerVars>>

(* The submitting session is closed between any two of its steps; after the *)
(* spawn itself the child is detached and lives on.                         *)
SubmitterDies(s) ==
  /\ \/ /\ sub[s] = "inserted"
        /\ \/ UNCHANGED pc
           \/ pc' = [pc EXCEPT ![s] = "spawned"]
     \/ sub[s] \in {"stamping", "unconfirmed"} /\ UNCHANGED pc
  /\ sub' = [sub EXCEPT ![s] = "done"]
  /\ UNCHANGED <<row, recycled, late, answered, died, fileVars, readerVars>>

-----------------------------------------------------------------------------
(* The worker: cmd-task-worker.mjs, job-queue.mjs, job-heartbeat.mjs.       *)

Goto(s, phase) == pc' = [pc EXCEPT ![s] = phase]

(* registerWaiter's false return means the row is no longer waiting for a   *)
(* worker: exit without having sent anything.  A storage refusal escapes    *)
(* and ends the process the same way.                                       *)
Register(s) ==
  /\ pc[s] = "spawned"
  /\ \/ /\ CanRegister(row[s])
        /\ row' = [row EXCEPT ![s] = RegisterWaiter(@)]
        /\ Goto(s, "due")
     \/ UNCHANGED row /\ Goto(s, "exited")
  /\ UNCHANGED <<sub, recycled, late, answered, died, fileVars, readerVars>>

(* One attempt at the head of the queue, a single BEGIN IMMEDIATE. *)
TryAcquire(s) ==
  LET q == ViewFor(s)
      verdict == Verdict(q, s)
  IN
  /\ pc[s] = "due"
  /\ row' = [t \in Job |->
               IF t \in CollectedBy(q, s) THEN Reconcile(row[t], t)
               ELSE IF t = s /\ verdict = "acquired" /\ row[s].waiter
                    THEN ClaimJob(row[s])
                    ELSE row[t]]
  /\ Goto(s, CASE verdict = "acquired" /\ row[s].waiter -> "calling"
               [] verdict \in {"gone", "cancelled"} -> "exited"
               [] OTHER -> "sleeping")
  /\ UNCHANGED <<sub, recycled, late, answered, died, fileVars, readerVars>>

(* A contended database reads as "blocked": ask again after the poll. *)
TryAcquireBusy(s) ==
  /\ pc[s] = "due"
  /\ Goto(s, "sleeping")
  /\ UNCHANGED <<row, sub, recycled, late, answered, died, fileVars, readerVars>>

(* After each sleep: beat, then look at the wait cap, then attempt again.   *)
Poll(s) ==
  /\ pc[s] = "sleeping"
  /\ Goto(s, IF s \in late THEN "timingOut" ELSE "due")
  /\ UNCHANGED <<row, sub, recycled, late, answered, died, fileVars, readerVars>>

TimeOut(s) ==
  /\ pc[s] = "timingOut"
  /\ \/ row' = [row EXCEPT ![s] = Finish(@, "queue-timeout", "queue-timeout")]
     \/ UNCHANGED row
  /\ Goto(s, "exited")
  /\ UNCHANGED <<sub, recycled, late, answered, died, fileVars, readerVars>>

(* The heartbeat's cancellation check, made while the request is in flight. *)
(* The row is not written: the acknowledgement is a file, and it may fail.  *)
ExitOnCancel(s) ==
  /\ pc[s] = "calling"
  /\ row[s].cancel
  /\ \/ ack' = ack \cup {s}
     \/ UNCHANGED ack
  /\ Goto(s, "exited")
  /\ UNCHANGED <<row, sub, recycled, late, answered, died, salvaged, readerVars>>

ModelAnswers(s) ==
  /\ pc[s] = "calling"
  /\ Goto(s, "answered")
  /\ answered' = answered \cup {s}
  /\ UNCHANGED <<row, sub, recycled, late, died, fileVars, readerVars>>

ModelFails(s) ==
  /\ pc[s] = "calling"
  /\ Goto(s, "failing")
  /\ UNCHANGED <<row, sub, recycled, late, answered, died, fileVars, readerVars>>

(* The completed write lands, loses its compare-and-set, or is refused by   *)
(* the storage; the last two put the answer in the log.                     *)
PublishAnswerUnchecked(s) == \* mutant: finish's false return is discarded
  /\ pc[s] = "answered"
  /\ \/ row' = [row EXCEPT ![s] = Finish(@, "completed", "none")] /\ UNCHANGED salvaged
     \/ UNCHANGED row /\ salvaged' = salvaged \cup {s}
  /\ Goto(s, "exited")
  /\ UNCHANGED <<sub, recycled, late, answered, died, ack, readerVars>>

PublishAnswer(s) ==
  /\ pc[s] = "answered"
  /\ \/ /\ row' = [row EXCEPT ![s] = Finish(@, "completed", "none")]
        /\ salvaged' = IF row[s].state \in Active THEN salvaged ELSE salvaged \cup {s}
     \/ /\ UNCHANGED row
        /\ salvaged' = salvaged \cup {s}
  /\ Goto(s, "exited")
  /\ UNCHANGED <<sub, recycled, late, answered, died, ack, readerVars>>

PublishFailure(s) ==
  /\ pc[s] = "failing"
  /\ \/ row' = [row EXCEPT ![s] = Finish(@, "failed", "model")]
     \/ UNCHANGED row
  /\ Goto(s, "exited")
  /\ UNCHANGED <<sub, recycled, late, answered, died, fileVars, readerVars>>

WorkerKilled(s) ==
  /\ s \in Mortal
  /\ Exists(s)
  /\ Goto(s, "exited")
  /\ died' = died \cup {s}
  /\ UNCHANGED <<row, sub, recycled, late, answered, fileVars, readerVars>>

-----------------------------------------------------------------------------
(* Readers: status, result and cancel all begin with reconcileAll, which    *)
(* lists every row in one SELECT and then visits them one by one, newest    *)
(* first, with a write of its own for each.                                 *)

ReaderLists(c, e) ==
  /\ errand[c] = Idle
  /\ errand' = [errand EXCEPT ![c] = e]
  /\ seen' = [seen EXCEPT ![c] =
                [s \in Job |-> IF row[s].state \in Active THEN row[s] ELSE NoRow]]
  /\ UNCHANGED <<row, procVars, fileVars>>

ToVisit(c) == {s \in Job : seen[c][s].state # "absent"}

ReaderVisits(c, s) ==
  /\ errand[c] # Idle
  /\ s \in ToVisit(c)
  /\ \A t \in ToVisit(c) : t <= s
  /\ row' = IF KnownHere(s) THEN [row EXCEPT ![s] = Reconcile(seen[c][s], s)] ELSE row
  /\ seen' = [seen EXCEPT ![c][s] = NoRow]
  /\ UNCHANGED <<errand, procVars, fileVars>>

(* status and result now only read; cancel asks for its one column. *)
ReaderDone(c) ==
  /\ errand[c] # Idle
  /\ ToVisit(c) = {}
  /\ row' = IF errand[c] = Look THEN row ELSE [row EXCEPT ![errand[c]] = MarkCancel(@)]
  /\ errand' = [errand EXCEPT ![c] = Idle]
  /\ UNCHANGED <<seen, procVars, fileVars>>

(* Closed by its user, or ended by a busy it does not retry. *)
ReaderDies(c) ==
  /\ errand[c] # Idle
  /\ errand' = [errand EXCEPT ![c] = Idle]
  /\ seen' = [seen EXCEPT ![c] = [s \in Job |-> NoRow]]
  /\ UNCHANGED <<row, procVars, fileVars>>

(* job-abandon.mjs `abandonRow`: read, probe, decide and write under one    *)
(* lock.  A row whose owner is gone is handed to recovery instead; starting *)
(* and foreign rows are refused.  A live one needs a stale beat or --force. *)
AbandonRow(s) ==
  /\ s \in Abandonable
  /\ KnownHere(s)
  /\ row[s].state \in Active
  /\ LET liveness == Liveness(row[s], s) IN
     /\ liveness # "starting"
     /\ row' = [row EXCEPT ![s] = IF liveness \in {"dead", "never-started"}
                                  THEN Reconcile(row[s], s)
                                  ELSE Finish(@, "failed", "operator-abandoned")]
  /\ UNCHANGED <<procVars, fileVars, readerVars>>

-----------------------------------------------------------------------------
(* Time and the operating system. *)

GraceEnds(s) ==
  /\ row[s].state = "queued" /\ ~row[s].waiter /\ row[s].young
  /\ row' = [row EXCEPT ![s].young = FALSE]
  /\ UNCHANGED <<procVars, fileVars, readerVars>>

CapElapses(s) ==
  /\ s \in Capped \ late
  /\ row[s].state = "queued"
  /\ late' = late \cup {s}
  /\ UNCHANGED <<row, sub, pc, recycled, answered, died, fileVars, readerVars>>

PidRecycled(s) ==
  /\ s \in Recyclable \ recycled
  /\ pc[s] = "exited" /\ row[s].state \in Active
  /\ recycled' = recycled \cup {s}
  /\ UNCHANGED <<row, sub, pc, late, answered, died, fileVars, readerVars>>

PidFreed(s) ==
  /\ s \in recycled
  /\ recycled' = recycled \ {s}
  /\ UNCHANGED <<row, sub, pc, late, answered, died, fileVars, readerVars>>

-----------------------------------------------------------------------------
Submitter(s) ==
  \/ InsertJob(s) \/ SpawnConfirmed(s) \/ SpawnRejected(s)
  \/ MarkSpawned(s) \/ TerminalizeSpawnFailure(s) \/ SubmitterDies(s)

Worker(s) ==
  \/ Register(s) \/ TryAcquire(s) \/ TryAcquireBusy(s) \/ Poll(s) \/ TimeOut(s)
  \/ ExitOnCancel(s) \/ ModelAnswers(s) \/ ModelFails(s)
  \/ PublishAnswer(s) \/ PublishFailure(s) \/ WorkerKilled(s)

Reader(c) ==
  \/ \E e \in Errands : ReaderLists(c, e)
  \/ \E s \in Job : ReaderVisits(c, s)
  \/ ReaderDone(c) \/ ReaderDies(c)

Environment(s) == GraceEnds(s) \/ CapElapses(s) \/ PidRecycled(s) \/ PidFreed(s)

Next ==
  \/ \E s \in Job : Submitter(s) \/ Worker(s) \/ AbandonRow(s) \/ Environment(s)
  \/ \E c \in Readers : Reader(c)

Spec == Init /\ [][Next]_vars

-----------------------------------------------------------------------------
(* Safety *)

(* Two model calls are in flight together only when an operator wrote one   *)
(* of the two rows off: nothing automatic ever seats a second worker.       *)
(* (job-queue.mjs decide; job-reconcile.mjs rule 1; README "One background  *)
(* job runs at a time")                                                     *)
OneCall ==
  \A s, t \in Job :
    s # t /\ pc[s] = "calling" /\ pc[t] = "calling"
      => "operator-abandoned" \in {row[s].reason, row[t].reason}

(* The next four speak of one job each, so that JobQueueProofs can take a   *)
(* step one job at a time.                                                  *)
Spared(s) ==
  \/ row[s].state = "cancelled"
  \/ row[s].reason \in {"worker-died", "cancel-unconfirmed", "worker-never-started"}
  => pc[s] \in {"none", "spawned", "exited"}

Unsent(s) ==
  row[s].reason \in {"queue-timeout", "worker-never-started", "worker-launch-unconfirmed"}
    => ~row[s].started /\ pc[s] \notin Owning

Confirmed(s) ==
  row[s].state = "cancelled" /\ row[s].started
    => s \in ack /\ s \notin died /\ s \notin answered

Kept(s) ==
  s \in answered /\ pc[s] = "exited" /\ s \notin died
    => row[s].state = "completed" \/ s \in salvaged

(* A row recovery settled has no worker behind it that could still run: it  *)
(* either exited or has yet to ask, and will be refused.  It holds although *)
(* the reader judges each row by a listing that may be long out of date.    *)
(* (job-reconcile.mjs rule 1; abandonUnstarted's waiter_pid IS NULL)        *)
RecoverySparesTheLiving == \A s \in Job : Spared(s)

(* "No request was sent" is true wherever a verdict says so: a job that gave*)
(* up waiting, never started, or whose launch was not confirmed never held  *)
(* the slot, not even later.  (job-queue.mjs timeOut,                       *)
(* job-launch-outcome.mjs, job-reconcile.mjs terminalizeUnstarted)          *)
NothingSent == \A s \in Job : Unsent(s)

(* `cancelled` never hides a crash or an answer: a job that had started     *)
(* reads `cancelled` only if its worker said so, and then it was not killed *)
(* and had produced nothing.  (job-reconcile.mjs terminalizeDead,           *)
(* job-heartbeat.mjs exitOnCancel)                                          *)
CancelledIsConfirmed == \A s \in Job : Confirmed(s)

(* An answer the model gave is in its row or in its log once its worker has *)
(* exited, however the final write went, unless the worker was killed while *)
(* holding it.  (cmd-task-worker.mjs runAndPublish, salvageOutcome)         *)
AnswerKept == \A s \in Job : Kept(s)

(* A verdict is written once: whoever comes second, the worker, a reader,   *)
(* a waiter's transaction, the submitter or the operator, changes nothing.  *)
(* (job-record.mjs finish, abandonUnstarted)                                *)
TerminalStays ==
  [][\A s \in Job : row[s].state \in Terminal =>
       row'[s].state = row[s].state /\ row'[s].reason = row[s].reason]_vars

(* Queue order: when a job takes the slot no older row its build understands*)
(* is still waiting, and none it passed over can ever run afterwards.       *)
(* (job-queue.mjs scanQueued, decide)                                       *)
NoOvertaking ==
  [][\A s \in Job : row[s].state = "queued" /\ row'[s].state = "running" =>
       \A t \in Job : t < s /\ KnownTo(s, t) =>
         row'[t].state \in Terminal \/ (row'[t].state = "running" /\ ~PidLive(t))]_vars

(* A row a newer build wrote is never settled by recovery or an operator of *)
(* this build: with no other newer worker about, only its own worker or     *)
(* submitter gives it a verdict.  (job-reconcile.mjs rule 2,                *)
(* job-abandon.mjs abandonDecision)                                         *)
ForeignRowsAreLeft ==
  \A s \in Foreign :
    Foreign = {s} =>
      /\ row[s].state # "cancelled"
      /\ row[s].reason \in {"none", "model", "queue-timeout", "worker-launch-unconfirmed"}

-----------------------------------------------------------------------------
(* The inductive invariant of JobQueueProofs.                                *)

(* The columns of a row move together with its worker: what a claim,        *)
(* a registration and a verdict leave behind.                               *)
RowMatchesWorker(s) ==
  /\ row[s].state = "absent" => row[s] = NoRow /\ pc[s] = "none" /\ sub[s] = "none"
  /\ row[s].state \in Active => row[s].reason = "none"
  /\ row[s].state = "queued" => ~row[s].started
  /\ row[s].state = "running" =>
       row[s].worker /\ row[s].started /\ pc[s] \in Owning \cup {"exited"}
  /\ row[s].started => row[s].waiter
  /\ row[s].waiter => pc[s] \notin {"none", "spawned"}
  /\ pc[s] \in Waiting => row[s].waiter /\ ~row[s].started
  /\ pc[s] \in Owning => row[s].state = "running" \/ row[s].reason = "operator-abandoned"
  /\ sub[s] = "inserted" => pc[s] = "none"

(* One live worker owns a running row at a time. *)
Owner(s) == row[s].state = "running" /\ pc[s] \in Owning
OneOwner == \A s, t \in Job : Owner(s) /\ Owner(t) => s = t

(* What stays true between a listing and the writes made on the strength of *)
(* it: a cancellation read is still asked for, and a row read as queued and *)
(* cancelled is never started afterwards.                                   *)
ListingsAge ==
  \A c \in Readers, s \in Job :
    seen[c][s].cancel =>
      row[s].cancel /\ (seen[c][s].state = "queued" => ~row[s].started)

(* Sequence numbers are handed out in order. *)
InOrder ==
  \A s, t \in Job : t < s /\ row[t].state = "absent" => row[s].state = "absent"

(* The histories agree with the processes. *)
HistoryMatches(s) ==
  /\ s \in died => pc[s] = "exited"
  /\ s \in answered => pc[s] \in {"answered", "exited"}
  /\ pc[s] = "answered" => s \in answered
  /\ s \in ack => pc[s] = "exited" /\ s \notin died /\ s \notin answered

JobInv(s) ==
  /\ RowMatchesWorker(s) /\ HistoryMatches(s)
  /\ Spared(s) /\ Unsent(s) /\ Confirmed(s) /\ Kept(s)

IInv == TypeOK /\ OneOwner /\ ListingsAge /\ InOrder /\ \A s \in Job : JobInv(s)

-----------------------------------------------------------------------------
(* What the comments promise of a cancellation, and a stale listing breaks. *)

(* "A cancellation asked for first wins": a row that recovery closes as     *)
(* never started, or as an unexplained death, carries no request to cancel  *)
(* it.  (job-record.mjs abandonUnstarted, job-reconcile.mjs)                *)
CancelFirstWins ==
  \A s \in Job :
    row[s].reason \in {"worker-never-started", "worker-died"} => ~row[s].cancel

-----------------------------------------------------------------------------
(* Liveness *)

(* A running process is scheduled and its calls return: the background cap  *)
(* DEFAULT_BACKGROUND_MAX_SECONDS ends every model call.  Contention is not *)
(* permanent, so an attempt made again and again is sometimes not refused.  *)
WorkerFairness ==
  \A s \in Job :
    /\ WF_vars(Poll(s)) /\ SF_vars(TryAcquire(s))
    /\ WF_vars(TimeOut(s))
    /\ WF_vars(ModelAnswers(s) \/ ModelFails(s))
    /\ WF_vars(PublishAnswer(s)) /\ WF_vars(PublishFailure(s))
    /\ WF_vars(GraceEnds(s))

(* Somebody runs /oai:status again and again and lets it finish. *)
ReaderFairness ==
  \E c \in Readers :
    /\ SF_vars(ReaderLists(c, Look))
    /\ \A s \in Job : SF_vars(ReaderVisits(c, s))
    /\ SF_vars(ReaderDone(c))

FairWorkers == Spec /\ WorkerFairness

(* A waiting worker runs or gives up without any reader's help: dead rows   *)
(* ahead of it are collected by its own attempts, and a submission whose    *)
(* worker never came stops holding the line when its grace ends.            *)
WaiterResolves ==
  \A s \in Job : pc[s] \in Waiting ~> pc[s] \notin Waiting

(* Every row this build can read is settled in the end, provided somebody   *)
(* keeps looking: crashed submitters and workers leave rows that only a     *)
(* reader collects.  (job-reconcile.mjs, job-view.mjs reconcileAll)         *)
EverySubmissionSettles ==
  ReaderFairness =>
    \A s \in Job \ Foreign : row[s].state \in Active ~> row[s].state \in Terminal
=============================================================================
