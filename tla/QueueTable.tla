----------------------------- MODULE QueueTable -----------------------------
(***************************************************************************)
(* What the commands say about the queue against what the queue does: for  *)
(* every small table, rows of newer builds, rows nobody can read and pids  *)
(* the OS has handed on included, what one attempt to acquire decides,     *)
(* whether /oai:abandon may write a row off and what it then promises, and *)
(* which row /oai:status blames.  Finished rows are not in the table.      *)
(***************************************************************************)
EXTENDS QueueRules, FiniteSets

CONSTANTS
  Seqs,    \* bound: sequence numbers of the rows
  Detailed \* bound: tables of up to so many rows have every clock read either way

ASSUME SeqsAssumption == Seqs \subseteq Nat \ {0}

VARIABLES table, said

tableVars == <<table, said>>

(* The columns, as far as the rules tell them apart: the relevant pid, the   *)
(* startup age of a row without one, the last beat, `late` for a wait cap    *)
(* (queued) or a run cap (running) that has elapsed, and whether the row     *)
(* belongs to the workspace that asks.                                       *)
RawRow ==
  [state: Active, pid: PidKinds, age: AgeKinds, cancel: BOOLEAN, known: BOOLEAN,
   beat: {"fresh", "stale", "unreadable"}, late: BOOLEAN, here: BOOLEAN]

(* Columns nothing looks at are given one value. *)
Canonical(r) ==
  /\ r.state = "running" \/ r.pid # "none" => r.age = "young"
  /\ r.pid # "live" => r.beat = "fresh"

Rows == {r \in RawRow : Canonical(r)}
Prompt == {r \in Rows : r.age = "young" /\ r.beat = "fresh" /\ ~r.late}
Tables ==
  UNION {[S -> IF Cardinality(S) <= Detailed THEN Rows ELSE Prompt] : S \in SUBSET Seqs}

Views(t) ==
  [s \in DOMAIN t |->
     [state |-> t[s].state, cancel |-> t[s].cancel, known |-> t[s].known,
      beat |-> t[s].beat, expired |-> t[s].late, here |-> t[s].here,
      liveness |-> LivenessOf(t[s].state, t[s].pid, t[s].age)]]

q == Views(table)

Only(t, S) == [s \in S |-> t[s]]
Without(t, S) == Only(t, DOMAIN t \ S)

-----------------------------------------------------------------------------
(* job-view.mjs *)

DisplayCancelFirst(v) == \* mutant: the request is shown as though it had been received
  CASE v.liveness \in {"malformed", "dead", "never-started"} -> v.liveness
    [] v.liveness = "starting" -> v.state
    [] OTHER -> IF v.cancel THEN "cancelling"
                ELSE IF v.state = "running" /\ v.expired THEN "overdue"
                ELSE IF v.beat = "stale" THEN "stalled" ELSE v.state

DisplayOf(v) ==
  CASE v.liveness \in {"malformed", "dead", "never-started"} -> v.liveness
    [] v.liveness = "starting" -> v.state
    [] OTHER -> IF v.state = "running" /\ v.expired THEN "overdue"
                ELSE IF v.beat = "stale" THEN "stalled"
                ELSE IF v.cancel THEN "cancelling" ELSE v.state

(* A row of this workspace that something is waiting on behalf of. *)
Eligible(v) ==
  v.state = "queued" /\ v.here /\ ~v.cancel /\ v.liveness \in {"live", "starting"}

Lowest(S) == CHOOSE s \in S : \A t \in S : s <= t

BlockingByState(w) == \* mutant: a dead running row is taken for an obstacle
  IF (\E s \in DOMAIN w : Eligible(w[s])) /\ RunningIn(w) # {} /\ ~w[Lowest(RunningIn(w))].here
  THEN Lowest(RunningIn(w)) ELSE 0

(* blockingSeqFor: the foreign row this workspace waits on, or 0. *)
BlockingSeq(w) ==
  LET blockers == RunningBlockers(w)
      heads == {h \in QueuedIn(w) : IsHead(w, h)}
  IN
  IF ~\E s \in DOMAIN w : Eligible(w[s]) THEN 0
  ELSE IF blockers # {} THEN IF w[Lowest(blockers)].here THEN 0 ELSE Lowest(blockers)
  ELSE IF \E h \in heads : ~w[h].here /\ \E s \in DOMAIN w : Eligible(w[s]) /\ s > h
  THEN Lowest(heads) ELSE 0

ShownWithoutBlocker(w) == {s \in DOMAIN w : w[s].here \/ w[s].state = "running"} \* mutant

(* statusView: the rows a bare /oai:status shows. *)
Shown(w) == {s \in DOMAIN w : w[s].here \/ w[s].state = "running" \/ s = BlockingSeq(w)}

-----------------------------------------------------------------------------
(* job-reconcile.mjs and job-abandon.mjs *)

Recoverable(v) == v.known /\ v.liveness \in {"dead", "never-started"}

(* Whether the terminal write of `reconcile` matches the row: finish asks    *)
(* for an active state, abandonUnstarted for no waiter as well.              *)
RecoveryLands(r, liveness) ==
  liveness = "dead" \/ (liveness = "never-started" /\ r.state = "queued" /\ r.pid = "none")

NeverLiftsMalformed(v, force) == \* mutant: no operator escape from a corrupt row
  CASE ~v.known -> "unknown-version"
    [] v.known /\ v.liveness \in {"starting", "malformed"} -> v.liveness
    [] v.known /\ v.liveness \in {"dead", "never-started"} -> "dead"
    [] OTHER -> IF force THEN "forced" ELSE "beating"

(* abandonDecision: the reason; the last three allow it. *)
AbandonDecision(v, force) ==
  CASE ~v.known -> "unknown-version"
    [] v.known /\ v.liveness = "starting" -> "starting"
    [] v.known /\ v.liveness \in {"dead", "never-started"} -> "dead"
    [] v.known /\ v.liveness = "malformed" -> IF force THEN "forced-malformed" ELSE "malformed"
    [] OTHER ->
         CASE v.beat = "stale" -> "stale"
           [] v.beat = "unreadable" -> IF force THEN "forced" ELSE "no-beat"
           [] OTHER -> IF force THEN "forced" ELSE "beating"
Allows(reason) == reason \in {"forced", "forced-malformed", "stale"}

-----------------------------------------------------------------------------
Silence == [by |-> 0, verdict |-> "none", drains |-> FALSE]

TableInit ==
  /\ table \in Tables
  /\ said = Silence
TableIdle == table = <<>> /\ said = Silence

(* One attempt by the worker of a queued row. *)
Attempt(s) ==
  /\ s \in DOMAIN table
  /\ table[s].pid = "live" /\ table[s].state = "queued"
  /\ LET left == Without(table, CollectedBy(q, s)) IN
     table' = IF Verdict(q, s) = "acquired"
              THEN [left EXCEPT ![s].state = "running", ![s].late = FALSE]
              ELSE left
  /\ said' = [by |-> s, verdict |-> Verdict(q, s), drains |-> FALSE]

DrainsBeforeWriting(s, force) == \* mutant: the question is asked before the row is terminal
  LET reason == AbandonDecision(q[s], force) IN
  /\ s \in DOMAIN table
  /\ Allows(reason) \/ reason = "dead"
  /\ table' = Without(table, {s})
  /\ said' = [by |-> s, verdict |-> reason, drains |-> CouldDrain(q) \/ IsHead(q, s)]

(* abandonRow: the row is written off, or handed to recovery; either way     *)
(* couldDrain is asked of the table that leaves.                             *)
Abandon(s, force) ==
  LET reason == AbandonDecision(q[s], force)
      left == Without(table, {s})
  IN
  /\ s \in DOMAIN table
  /\ Allows(reason) \/ reason = "dead"
  /\ table' = left
  /\ said' = [by |-> s, verdict |-> reason, drains |-> CouldDrain(Views(left))]

(* reconcileAll, with nobody else about. *)
Collect ==
  /\ \E s \in DOMAIN q : Recoverable(q[s])
  /\ table' = Without(table, {s \in DOMAIN table :
                                Recoverable(q[s]) /\ RecoveryLands(table[s], q[s].liveness)})
  /\ said' = Silence

TableNext ==
  \/ \E s \in Seqs : Attempt(s) \/ (\E force \in BOOLEAN : Abandon(s, force))
  \/ Collect

TableSpec == TableInit /\ [][TableNext]_tableVars

-----------------------------------------------------------------------------
(* "The queue can move on" is never said of a queue that cannot: whenever    *)
(* abandon says so, some worker's very next attempt takes the slot.          *)
(* (job-drain.mjs couldDrain against job-queue.mjs decide)                   *)
DrainIsTrue ==
  said.drains => \E s \in DOMAIN q : q[s].liveness = "live" /\ Verdict(q, s) = "acquired"

(* The row status blames is a row of another workspace that would hold a     *)
(* waiting job of this one even if nothing else were in the queue, and that  *)
(* job is held now.  (job-view.mjs blockingSeqFor against decide)            *)
BlamedRowBlocks ==
  LET b == BlockingSeq(q) IN
  b # 0 => /\ ~q[b].here
           /\ \E s \in DOMAIN q : /\ Eligible(q[s])
                                  /\ Verdict(q, s) = "blocked"
                                  /\ Verdict(Only(q, {s, b}), s) = "blocked"

(* Nobody is left without an explanation: whenever a waiting job of this     *)
(* workspace is held, a row that holds it by itself is on the screen.        *)
(* (job-view.mjs statusView)                                                 *)
CauseIsShown ==
  \A s \in DOMAIN q : Eligible(q[s]) /\ Verdict(q, s) = "blocked" =>
    \E b \in Shown(q) : Verdict(Only(q, {s, b}), s) = "blocked"

(* Between recovery and --force no row this build understands can hold the   *)
(* queue for good: what neither clears is starting, and its grace ends.      *)
(* (job-abandon.mjs abandonDecision against job-reconcile.mjs)               *)
OperatorCanClear ==
  \A s \in DOMAIN q : q[s].known =>
    \/ q[s].liveness = "starting"
    \/ Allows(AbandonDecision(q[s], TRUE))
    \/ Recoverable(q[s]) /\ RecoveryLands(table[s], q[s].liveness)

(* What /oai:abandon is for can be had of it, and what it says is so.        *)
(* (job-abandon.mjs abandonRow)                                              *)
AbandonIsReliable == DrainIsTrue /\ OperatorCanClear

(* "cancelling" is shown only of a worker that still checks in and is within *)
(* its time; otherwise the row reads as the trouble it is in.  The successor *)
(* couldDrain counts on reads plain "queued".  (job-view.mjs displayOf)      *)
DisplayIsHonest ==
  /\ \A s \in DOMAIN q : DisplayOf(q[s]) = "cancelling" =>
       /\ q[s].liveness = "live" /\ q[s].beat # "stale"
       /\ q[s].state = "running" => ~q[s].expired
  /\ CouldDrain(q) => \E s \in DOMAIN q : Verdict(q, s) = "acquired" /\ DisplayOf(q[s]) = "queued"

(* What /oai:status says of a queue is so: of each row's state, of the row   *)
(* that is to blame for the waiting, and of every wait there is.             *)
(* (job-view.mjs statusView)                                                 *)
StatusIsHonest == DisplayIsHonest /\ BlamedRowBlocks /\ CauseIsShown
=============================================================================
