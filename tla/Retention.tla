----------------------------- MODULE Retention ------------------------------
(***************************************************************************)
(* Keeping the record bounded: the sweep every submission runs before it   *)
(* inserts its row, beside the workers, recoveries and operators that      *)
(* settle rows meanwhile.  The rows are pruned in one DELETE; the files of *)
(* rows that no longer exist, logs and cancellation acknowledgements, are  *)
(* unlinked one by one afterwards, from a directory listing taken BEFORE   *)
(* the rows were read.  Any submitter may die between any two steps.       *)
(*                                                                         *)
(* The life of a row is JobQueue's, reduced to what the sweep can tell     *)
(* apart.  Sequence numbers are never reused: jobs.db is not deleted while *)
(* its logs survive (job-retention.mjs names that residue).                *)
(***************************************************************************)
EXTENDS Integers, FiniteSets

CONSTANTS
  Job,       \* sequence numbers, in the order they are handed out
  Submitter, \* bound: sessions, each with at most one submission under way
  Regular,   \* those that go on submitting
  Foreign,   \* rows a newer build wrote
  Retain     \* RETAIN: finished rows kept

ASSUME RetentionAssumption ==
  Job \subseteq Nat \ {0} /\ Regular \subseteq Submitter /\ Retain \in Nat

VARIABLES
  row,     \* each sequence number's row, as the sweep tells rows apart
  started, \* rows whose started_at is set
  worker,  \* each row's worker process
  logs, acks, \* the files present
  sub      \* the submissions under way

vars == <<row, started, worker, logs, acks, sub>>

(* "exempt" is finished, started, and written off by an operator.          *)
RowStates == {"none", "open", "finished", "exempt", "pruned"}
Present == {"open", "finished", "exempt"}

Steps == {"idle", "prune", "list", "read", "unlink", "insert", "open", "spawn"}
Submission == [at: Steps, names: SUBSET Job, orphans: SUBSET Job, seq: Job \cup {0}]
NoSubmission == [at |-> "idle", names |-> {}, orphans |-> {}, seq |-> 0]

(* "salvaged": exited after writing SALVAGED_OUTCOME to its log descriptor;  *)
(* "confirmed": exited after writing its acknowledgement.                    *)
WorkerStates == {"none", "alive", "salvaged", "confirmed", "gone"}

TypeOK ==
  /\ row \in [Job -> RowStates]
  /\ started \subseteq Job
  /\ worker \in [Job -> WorkerStates]
  /\ logs \subseteq Job /\ acks \subseteq Job
  /\ sub \in [Submitter -> Submission]

Init ==
  /\ row = [s \in Job |-> "none"]
  /\ started = {} /\ logs = {} /\ acks = {}
  /\ worker = [s \in Job |-> "none"]
  /\ sub = [p \in Submitter |-> NoSubmission]

-----------------------------------------------------------------------------
(* The sweep. *)

ForgetsExemption == {s \in Job : row[s] \in {"finished", "exempt"} /\ s \notin Foreign} \* mutant

(* The inner SELECT: what may be deleted, and what is counted. *)
Candidates == {s \in Job : row[s] = "finished" /\ s \notin Foreign}

(* ORDER BY seq DESC LIMIT -1 OFFSET retain: all but the newest Retain. *)
Excess == {s \in Candidates : Cardinality({t \in Candidates : t > s}) >= Retain}

Begin(p) ==
  /\ sub[p].at = "idle"
  /\ sub' = [sub EXCEPT ![p].at = "prune"]
  /\ UNCHANGED <<row, started, worker, logs, acks>>

Prune(p) ==
  /\ sub[p].at = "prune"
  /\ row' = [s \in Job |-> IF s \in Excess THEN "pruned" ELSE row[s]]
  /\ sub' = [sub EXCEPT ![p].at = "list"]
  /\ UNCHANGED <<started, worker, logs, acks>>

(* sweepQuietly: contention leaves the sweep to the next submission. *)
SweepBusy(p) ==
  /\ sub[p].at \in {"prune", "read"}
  /\ sub' = [sub EXCEPT ![p] = [NoSubmission EXCEPT !.at = "insert"]]
  /\ UNCHANGED <<row, started, worker, logs, acks>>

ListFiles(p) ==
  /\ sub[p].at = "list"
  /\ sub' = [sub EXCEPT ![p].at = "read", ![p].names = logs \cup acks]
  /\ UNCHANGED <<row, started, worker, logs, acks>>

OwnRows == {s \in Job : row[s] \in Present /\ s \notin Foreign} \* mutant: this build's rows
ActiveRows == {s \in Job : row[s] = "open"} \* mutant: active rows only
KnownRows == {s \in Job : row[s] \in Present}

ReadRows(p) ==
  /\ sub[p].at = "read"
  /\ sub' = [sub EXCEPT ![p].at = "unlink", ![p].names = {},
                        ![p].orphans = sub[p].names \ KnownRows]
  /\ UNCHANGED <<row, started, worker, logs, acks>>

UnlinksLogOnly(p, s) == \* mutant: the acknowledgement is forgotten
  /\ sub[p].at = "unlink" /\ s \in sub[p].orphans
  /\ logs' = logs \ {s}
  /\ sub' = [sub EXCEPT ![p].orphans = @ \ {s}]
  /\ UNCHANGED <<row, started, worker, acks>>

(* removeFiles: each of the two unlinks is tolerated when it fails. *)
RemoveFiles(p, s) ==
  /\ sub[p].at = "unlink" /\ s \in sub[p].orphans
  /\ logs' \in {logs, logs \ {s}}
  /\ acks' \in {acks, acks \ {s}}
  /\ sub' = [sub EXCEPT ![p].orphans = @ \ {s}]
  /\ UNCHANGED <<row, started, worker>>

SweepDone(p) ==
  /\ sub[p].at = "unlink" /\ sub[p].orphans = {}
  /\ sub' = [sub EXCEPT ![p].at = "insert"]
  /\ UNCHANGED <<row, started, worker, logs, acks>>

-----------------------------------------------------------------------------
(* The rest of the submission: the row, then its log, then its worker. *)

InsertJob(p, s) ==
  /\ sub[p].at = "insert"
  /\ row[s] = "none" /\ \A t \in Job : t < s => row[t] # "none"
  /\ row' = [row EXCEPT ![s] = "open"]
  /\ sub' = [sub EXCEPT ![p].at = "open", ![p].seq = s]
  /\ UNCHANGED <<started, worker, logs, acks>>

OpenLog(p) ==
  /\ sub[p].at = "open"
  /\ logs' = logs \cup {sub[p].seq}
  /\ sub' = [sub EXCEPT ![p].at = "spawn"]
  /\ UNCHANGED <<row, started, worker, acks>>

Spawn(p) ==
  /\ sub[p].at = "spawn"
  /\ worker' = [worker EXCEPT ![sub[p].seq] = "alive"]
  /\ sub' = [sub EXCEPT ![p] = NoSubmission]
  /\ UNCHANGED <<row, started, logs, acks>>

(* The session is closed, or the insert or the spawn is refused. *)
SubmitterEnds(p) ==
  /\ sub[p].at # "idle"
  /\ sub' = [sub EXCEPT ![p] = NoSubmission]
  /\ UNCHANGED <<row, started, worker, logs, acks>>

-----------------------------------------------------------------------------
(* Rows are settled meanwhile. *)

Claim(s) ==
  /\ worker[s] = "alive" /\ row[s] = "open" /\ s \notin started
  /\ started' = started \cup {s}
  /\ UNCHANGED <<row, worker, logs, acks, sub>>

(* The worker ends: it completes its row, loses the compare-and-set and      *)
(* salvages its answer, acknowledges a cancellation, or just goes.           *)
WorkerEnds(s) ==
  /\ worker[s] = "alive"
  /\ \/ /\ s \in started /\ row[s] = "open"
        /\ row' = [row EXCEPT ![s] = "finished"]
        /\ worker' = [worker EXCEPT ![s] = "gone"]
        /\ UNCHANGED acks
     \/ /\ s \in started
        /\ worker' = [worker EXCEPT ![s] = "salvaged"]
        /\ UNCHANGED <<row, acks>>
     \/ /\ s \in started /\ row[s] = "open"
        /\ worker' = [worker EXCEPT ![s] = "confirmed"]
        /\ acks' = acks \cup {s}
        /\ UNCHANGED row
     \/ /\ worker' = [worker EXCEPT ![s] = "gone"]
        /\ UNCHANGED <<row, acks>>
  /\ UNCHANGED <<started, logs, sub>>

(* Ordinary recovery, of a worker that is gone or never came. *)
Recover(s) ==
  /\ row[s] = "open" /\ worker[s] # "alive"
  /\ row' = [row EXCEPT ![s] = "finished"]
  /\ UNCHANGED <<started, worker, logs, acks, sub>>

(* /oai:abandon of a row whose worker may be alive, or a waiter giving up. *)
WriteOff(s) ==
  /\ row[s] = "open" /\ worker[s] = "alive"
  /\ row' = [row EXCEPT ![s] = IF s \in started THEN "exempt" ELSE "finished"]
  /\ UNCHANGED <<started, worker, logs, acks, sub>>

Next ==
  \/ \E p \in Submitter :
       \/ Begin(p) \/ Prune(p) \/ SweepBusy(p) \/ ListFiles(p) \/ ReadRows(p)
       \/ (\E s \in Job : RemoveFiles(p, s) \/ InsertJob(p, s))
       \/ SweepDone(p) \/ OpenLog(p) \/ Spawn(p) \/ SubmitterEnds(p)
  \/ \E s \in Job : Claim(s) \/ WorkerEnds(s) \/ Recover(s) \/ WriteOff(s)

Spec == Init /\ [][Next]_vars

-----------------------------------------------------------------------------
(* No sweep unlinks the log of a row that exists: a worker that is writing,  *)
(* or an operator who is told to read it, finds it.  The directory is listed *)
(* before the rows are read, so what looks like an orphan is one.            *)
(* (job-retention.mjs orphanSeqs)                                            *)
LogsOfRowsStay ==
  \A s \in Job : row[s] \in Present /\ worker[s] # "none" => s \in logs

(* The proof of a confirmed cancellation is there for as long as recovery    *)
(* may ask for it.  (job-retention.mjs removeFiles, cancel-ack.mjs)          *)
ProofOutlivesQuestion ==
  \A s \in Job : row[s] = "open" /\ worker[s] = "confirmed" => s \in acks

(* An answer whose row an operator wrote off has one copy, in the log, and   *)
(* no number of later submissions removes it.  (job-retention.mjs PRUNE,     *)
(* cmd-task-worker.mjs salvageOutcome)                                       *)
AbandonedAnswerSurvives ==
  [][\A s \in Job : row[s] = "exempt" /\ worker[s] = "salvaged" =>
       row'[s] = "exempt" /\ s \in logs']_vars

-----------------------------------------------------------------------------
(* The inductive invariant of RetentionProofs: files belong to rows that     *)
(* were inserted, and what a sweep takes for an orphan is a pruned row's.    *)

Inserted == {s \in Job : row[s] # "none"}
Pruned == {s \in Job : row[s] = "pruned"}

OrphansArePruned ==
  \A p \in Submitter : sub[p].names \subseteq Inserted /\ sub[p].orphans \subseteq Pruned

RowsComeFirst ==
  /\ logs \cup acks \subseteq Inserted
  /\ \A s \in Job : worker[s] # "none" => s \in Inserted
  /\ \A p \in Submitter :
       /\ sub[p].at \in {"open", "spawn"} => sub[p].seq \in Inserted
       /\ sub[p].at = "spawn" => sub[p].seq \in logs \cup Pruned

SweepInv ==
  TypeOK /\ OrphansArePruned /\ RowsComeFirst /\ LogsOfRowsStay /\ ProofOutlivesQuestion

-----------------------------------------------------------------------------
(* Liveness *)

(* Submissions go on arriving, from at least the sessions of Regular: each   *)
(* process ends, and some of them sweep to the end; an unlink tried again    *)
(* and again succeeds at last.  Nothing is asked of the other sessions.      *)
Removes(p, s) == RemoveFiles(p, s) /\ s \notin logs' /\ s \notin acks'

SweepFairness ==
  /\ \A p \in Regular :
       /\ WF_vars(Begin(p)) /\ WF_vars(SubmitterEnds(p)) /\ SF_vars(Prune(p)) /\ SF_vars(ListFiles(p))
       /\ SF_vars(ReadRows(p)) /\ SF_vars(SweepDone(p))
       /\ \A s \in Job : SF_vars(Removes(p, s))

FairSweeps == Spec /\ SweepFairness

(* Nothing leaks: a file whose row was pruned is removed in the end, after   *)
(* crashes between the two and failed unlinks alike.  (job-retention.mjs     *)
(* sweep)                                                                    *)
OrphansAreCollected ==
  \A s \in Job : row[s] = "pruned" ~> row[s] = "pruned" /\ s \notin logs \cup acks
=============================================================================
