--------------------------- MODULE JobQueueProofs ---------------------------
(***************************************************************************)
(* One call at a time, true verdicts and the queue's order, for every      *)
(* number of jobs; and, last, that JobQueue implements CallSlot: each step *)
(* is taken job by job to a step of the slot or to none.                   *)
(***************************************************************************)
EXTENDS JobQueueSlot, TLAPS

LEMMA FinishType ==
  ASSUME NEW r \in Row, NEW state \in Terminal, NEW reason \in Reasons
  PROVE  /\ Finish(r, state, reason) \in Row
         /\ r.state \notin Active => Finish(r, state, reason) = r
         /\ r.state \in Active =>
              /\ Finish(r, state, reason).state = state
              /\ Finish(r, state, reason).reason = reason
              /\ Finish(r, state, reason).waiter = r.waiter
              /\ Finish(r, state, reason).started = r.started
              /\ Finish(r, state, reason).cancel = r.cancel
  BY DEF Finish, Row

LEMMA AbandonUnstartedType ==
  ASSUME NEW r \in Row, NEW state \in Terminal, NEW reason \in Reasons
  PROVE  /\ AbandonUnstarted(r, state, reason) \in Row
         /\ ~CanRegister(r) => AbandonUnstarted(r, state, reason) = r
         /\ CanRegister(r) =>
              /\ AbandonUnstarted(r, state, reason).state = state
              /\ AbandonUnstarted(r, state, reason).reason = reason
              /\ AbandonUnstarted(r, state, reason).waiter = r.waiter
              /\ AbandonUnstarted(r, state, reason).started = r.started
              /\ AbandonUnstarted(r, state, reason).cancel = r.cancel
  BY DEF AbandonUnstarted, Row, CanRegister

RecoveryReasons == {"worker-died", "cancel-unconfirmed", "worker-never-started"}

LEMMA ReconcileFacts ==
  ASSUME row \in [Job -> Row], NEW g \in Row, NEW t \in Job
  PROVE  /\ Reconcile(g, t) \in Row
         /\ Reconcile(g, t) # row[t] =>
              /\ row[t].state \in Active
              /\ \/ pc[t] \in {"none", "exited"}
                 \/ row[t].state = "queued" /\ ~row[t].waiter
              /\ \/ Reconcile(g, t).state = "failed" /\ Reconcile(g, t).reason \in RecoveryReasons
                 \/ /\ Reconcile(g, t).state = "cancelled" /\ Reconcile(g, t).reason = "none"
                    /\ g.cancel
                    /\ g.state = "queued" \/ t \in ack \/ ~row[t].waiter
              /\ Reconcile(g, t).waiter = row[t].waiter
              /\ Reconcile(g, t).started = row[t].started
              /\ Reconcile(g, t).cancel = row[t].cancel
              /\ Reconcile(g, t).reason = "worker-never-started" => ~row[t].waiter
  <1>1. row[t] \in Row
    OBVIOUS
  <1>2. {"failed", "cancelled"} \subseteq Terminal /\ {"none"} \cup RecoveryReasons \subseteq Reasons
    BY DEF Terminal, RecoveryReasons, Reasons
  <1>3. CASE Liveness(g, t) = "dead"
    <2>1. Reconcile(g, t) = TerminalizeDead(g, t)
      BY <1>3 DEF Reconcile
    <2>2. pc[t] \in {"none", "exited"}
      BY <1>3 DEF Liveness, LivenessOf, RelevantPid, PidLive, Exists
    <2>3. PICK state \in {"failed", "cancelled"}, reason \in {"none", "worker-died", "cancel-unconfirmed"} :
            /\ TerminalizeDead(g, t) = Finish(row[t], state, reason)
            /\ \/ state = "failed" /\ reason # "none"
               \/ state = "cancelled" /\ reason = "none" /\ g.cancel
                  /\ (g.state # "running" \/ t \in ack)
      BY DEF TerminalizeDead
    <2>4. /\ Finish(row[t], state, reason) \in Row
          /\ row[t].state \notin Active => Finish(row[t], state, reason) = row[t]
          /\ row[t].state \in Active =>
               /\ Finish(row[t], state, reason).state = state
               /\ Finish(row[t], state, reason).reason = reason
               /\ Finish(row[t], state, reason).waiter = row[t].waiter
               /\ Finish(row[t], state, reason).started = row[t].started
               /\ Finish(row[t], state, reason).cancel = row[t].cancel
      <3>1. state \in Terminal /\ reason \in Reasons
        BY DEF Terminal, Reasons
      <3>2. QED
        BY <1>1, <3>1, FinishType
    <2>5. g.state \in {"queued", "running"}
      BY <1>3 DEF Liveness, LivenessOf, RelevantPid
    <2>6. QED
      BY <2>1, <2>2, <2>3, <2>4, <2>5 DEF RecoveryReasons
  <1>4. CASE Liveness(g, t) = "never-started"
    <2>1. Reconcile(g, t) = TerminalizeUnstarted(g, t)
      BY <1>4 DEF Reconcile
    <2>2. g.state # "running"
      BY <1>4 DEF Liveness, LivenessOf, RelevantPid, PidKinds, Row
    <2>3. QED
      BY <1>1, <1>2, <2>1, <2>2, AbandonUnstartedType
      DEF TerminalizeUnstarted, RecoveryReasons, CanRegister, Active
  <1>5. CASE Liveness(g, t) \notin {"dead", "never-started"}
    BY <1>1, <1>5 DEF Reconcile
  <1>6. QED
    BY <1>3, <1>4, <1>5


(* What one step does to one job: it keeps the per-job invariant, a recorded *)
(* cancellation is never dropped and never followed by a start, no new owner *)
(* appears, a verdict is final, and a row comes into being by its insertion  *)
(* alone.                                                                    *)
Ages(t) ==
  /\ row[t].cancel => row'[t].cancel /\ (row'[t].started => row[t].started)
  /\ row[t].state \in Terminal => row'[t].state = row[t].state /\ row'[t].reason = row[t].reason
  /\ row[t].state # "absent" => row'[t].state # "absent"
  /\ row[t].state = "absent" => row'[t].state = "absent" \/ InsertJob(t)

Keeps(t) ==
  /\ JobInv(t)' /\ Ages(t)
  /\ Owner(t)' => Owner(t)
  /\ row'[t].state = "running" => row[t].state = "running"

SameHistory(t) ==
  /\ (t \in ack') = (t \in ack)
  /\ (t \in salvaged') = (t \in salvaged)
  /\ (t \in answered') = (t \in answered)
  /\ (t \in died') = (t \in died)

LEMMA UntouchedKeeps ==
  ASSUME NEW t \in Job, JobInv(t), SameHistory(t),
         row'[t] = row[t], pc'[t] = pc[t], sub'[t] = sub[t]
  PROVE  Keeps(t)
  BY DEF Keeps, Ages, Owner, SameHistory,
         JobInv, RowMatchesWorker, HistoryMatches, Spared, Unsent, Confirmed, Kept

LEMMA RecoveredKeeps ==
  ASSUME row \in [Job -> Row], pc \in [Job -> Phases],
         NEW t \in Job, NEW g \in Row, JobInv(t), SameHistory(t),
         row'[t] = Reconcile(g, t), pc'[t] = pc[t], sub'[t] = sub[t],
         g.state = "queued" /\ g.cancel => ~row[t].started
  PROVE  Keeps(t)
  <1>1. CASE row'[t] = row[t]
    BY <1>1, UntouchedKeeps
  <1>2. CASE row'[t] # row[t]
    <2>1. /\ row[t].state \in Active
          /\ \/ pc[t] \in {"none", "exited"}
             \/ row[t].state = "queued" /\ ~row[t].waiter
          /\ \/ row'[t].state = "failed" /\ row'[t].reason \in RecoveryReasons
             \/ /\ row'[t].state = "cancelled" /\ row'[t].reason = "none"
                /\ g.cancel
                /\ g.state = "queued" \/ t \in ack \/ ~row[t].waiter
          /\ row'[t].waiter = row[t].waiter
          /\ row'[t].started = row[t].started
          /\ row'[t].cancel = row[t].cancel
          /\ row'[t].reason = "worker-never-started" => ~row[t].waiter
      BY <1>2, ReconcileFacts
    <2>2. JobInv(t)'
      <3> USE DEF SameHistory, RecoveryReasons, Active
      <3>1. pc[t] \in {"none", "spawned", "exited"} /\ ~(pc[t] \in Owning)
        BY <2>1 DEF JobInv, RowMatchesWorker, Owning, Waiting, Phases
      <3>2. RowMatchesWorker(t)'
        BY <2>1, <3>1 DEF JobInv, RowMatchesWorker, Waiting, Owning
      <3>3. HistoryMatches(t)'
        BY DEF JobInv, HistoryMatches
      <3>4. Spared(t)' /\ Unsent(t)'
        BY <2>1, <3>1 DEF JobInv, RowMatchesWorker, Spared, Unsent, Owning
      <3>5. Confirmed(t)'
        BY <2>1 DEF JobInv, RowMatchesWorker, HistoryMatches, Confirmed
      <3>6. Kept(t)'
        BY <2>1 DEF JobInv, Kept
      <3>7. QED
        BY <3>2, <3>3, <3>4, <3>5, <3>6 DEF JobInv
    <2>3. Ages(t)
      BY <2>1 DEF Ages, Active, Terminal
    <2>4. Owner(t)' => Owner(t)
      BY <2>1 DEF Owner, RecoveryReasons
    <2>5. QED
      BY <2>1, <2>2, <2>3, <2>4 DEF Keeps, RecoveryReasons
  <1>3. QED
    BY <1>1, <1>2

-----------------------------------------------------------------------------
(* One lemma per group of actions: the step keeps every job.                 *)

LEMMA SubmitterKeeps ==
  ASSUME TypeOK, NEW s \in Job, JobInv(s), Submitter(s)
  PROVE  Keeps(s)
  <1> USE DEF TypeOK, procVars, fileVars, readerVars
  <1>0. row[s] \in Row
    OBVIOUS
  <1>h. SameHistory(s)
    BY DEF SameHistory, Submitter, InsertJob, SpawnConfirmed, SpawnRejected, MarkSpawned,
           TerminalizeSpawnFailure, SubmitterDies
  <1>1. CASE InsertJob(s)
    <2>1. /\ row[s] = NoRow /\ pc[s] = "none" /\ pc'[s] = "none"
          /\ row'[s] = [NoRow EXCEPT !.state = "queued", !.young = TRUE]
          /\ sub'[s] = "inserted"
      BY <1>1 DEF InsertJob, JobInv, RowMatchesWorker
    <2>2. /\ row'[s].state = "queued" /\ row'[s].reason = "none"
          /\ row'[s].waiter = FALSE /\ row'[s].started = FALSE /\ row[s].cancel = FALSE
          /\ row[s].state = "absent"
      BY <2>1 DEF NoRow
    <2>3. JobInv(s)'
      BY <1>h, <2>1, <2>2 DEF SameHistory, JobInv, RowMatchesWorker, HistoryMatches,
         Spared, Unsent, Confirmed, Kept, Waiting, Owning
    <2>4. QED
      BY <1>1, <2>1, <2>2, <2>3 DEF Keeps, Ages, Owner, Terminal
  <1>2. CASE SpawnConfirmed(s) \/ SpawnRejected(s) \/ SubmitterDies(s)
    <2>1. /\ row'[s] = row[s]
          /\ sub[s] # "none"
          /\ sub'[s] # "inserted"
          /\ pc'[s] = pc[s] \/ (pc[s] = "none" /\ pc'[s] = "spawned")
      BY <1>2 DEF SpawnConfirmed, SpawnRejected, SubmitterDies, JobInv, RowMatchesWorker
    <2>2. ~row[s].waiter \/ pc'[s] = pc[s]
      BY <2>1 DEF JobInv, RowMatchesWorker
    <2>3. JobInv(s)'
      BY <1>h, <2>1, <2>2 DEF SameHistory, JobInv, RowMatchesWorker, HistoryMatches,
         Spared, Unsent, Confirmed, Kept, Waiting, Owning
    <2>4. QED
      BY <2>1, <2>3 DEF Keeps, Ages, Owner, Owning
  <1>3. CASE MarkSpawned(s)
    <2>1. /\ sub[s] # "none" /\ sub'[s] # "inserted" /\ pc'[s] = pc[s]
          /\ row'[s] = Stamp(row[s]) \/ row'[s] = row[s]
      BY <1>3 DEF MarkSpawned
    <2>2. /\ row'[s].state = row[s].state /\ row'[s].reason = row[s].reason
          /\ row'[s].waiter = row[s].waiter /\ row'[s].started = row[s].started
          /\ row'[s].cancel = row[s].cancel /\ row'[s].worker = row[s].worker
          /\ row[s].state # "absent"
      BY <1>0, <2>1 DEF Stamp, Row, JobInv, RowMatchesWorker
    <2>3. JobInv(s)'
      BY <1>h, <2>1, <2>2 DEF SameHistory, JobInv, RowMatchesWorker, HistoryMatches,
         Spared, Unsent, Confirmed, Kept
    <2>4. QED
      BY <2>1, <2>2, <2>3 DEF Keeps, Ages, Owner
  <1>4. CASE TerminalizeSpawnFailure(s)
    <2>1. /\ sub[s] # "none" /\ sub'[s] # "inserted" /\ pc'[s] = pc[s]
          /\ \/ row'[s] = AbandonUnstarted(row[s], "failed", "worker-launch-unconfirmed")
             \/ row'[s] = row[s]
      BY <1>4 DEF TerminalizeSpawnFailure
    <2>2. "failed" \in Terminal /\ "worker-launch-unconfirmed" \in Reasons
      BY DEF Terminal, Reasons
    <2>3. \/ row'[s] = row[s]
          \/ /\ CanRegister(row[s])
             /\ row'[s].state = "failed" /\ row'[s].reason = "worker-launch-unconfirmed"
             /\ row'[s].waiter = row[s].waiter /\ row'[s].started = row[s].started
             /\ row'[s].cancel = row[s].cancel
      BY <1>0, <2>1, <2>2, AbandonUnstartedType
    <2>4. JobInv(s)'
      BY <1>h, <2>1, <2>3 DEF SameHistory, JobInv, RowMatchesWorker, HistoryMatches,
         Spared, Unsent, Confirmed, Kept, Waiting, Owning, CanRegister, Active
    <2>5. QED
      BY <2>1, <2>3, <2>4 DEF Keeps, Ages, Owner, CanRegister, Terminal
  <1>5. QED
    BY <1>1, <1>2, <1>3, <1>4 DEF Submitter

LEMMA WorkerKeeps ==
  ASSUME TypeOK, NEW s \in Job, JobInv(s),
         Register(s) \/ TryAcquireBusy(s) \/ Poll(s) \/ TimeOut(s) \/ ExitOnCancel(s)
         \/ ModelAnswers(s) \/ ModelFails(s) \/ PublishAnswer(s) \/ PublishFailure(s)
         \/ WorkerKilled(s)
  PROVE  Keeps(s)
  <1> USE DEF TypeOK, procVars, fileVars, readerVars, Goto
  <1>0. row[s] \in Row /\ pc[s] \in Phases
    OBVIOUS
  <1>1. CASE Register(s)
    <2>h. SameHistory(s)
      BY <1>1 DEF SameHistory, Register
    <2>1. /\ pc[s] = "spawned" /\ sub'[s] = sub[s]
          /\ \/ CanRegister(row[s]) /\ row'[s] = RegisterWaiter(row[s]) /\ pc'[s] = "due"
             \/ row'[s] = row[s] /\ pc'[s] = "exited"
      BY <1>1 DEF Register
    <2>2. CASE CanRegister(row[s]) /\ row'[s] = RegisterWaiter(row[s]) /\ pc'[s] = "due"
      <3>1. /\ row[s].state = "queued" /\ row'[s].state = "queued"
            /\ row'[s].waiter = TRUE /\ row'[s].started = row[s].started
            /\ row'[s].reason = row[s].reason /\ row'[s].cancel = row[s].cancel
        BY <1>0, <2>2 DEF RegisterWaiter, CanRegister, Row
      <3>2. JobInv(s)'
        BY <2>h, <2>1, <2>2, <3>1 DEF SameHistory, JobInv, RowMatchesWorker, HistoryMatches,
         Spared, Unsent, Confirmed, Kept, Waiting, Owning, Active
      <3>3. QED
        BY <3>1, <3>2 DEF Keeps, Ages, Owner, Terminal
    <2>3. CASE row'[s] = row[s] /\ pc'[s] = "exited"
      <3>1. JobInv(s)'
        BY <2>h, <2>1, <2>3 DEF SameHistory, JobInv, RowMatchesWorker, HistoryMatches,
         Spared, Unsent, Confirmed, Kept, Waiting, Owning
      <3>2. QED
        BY <2>3, <3>1 DEF Keeps, Ages, Owner, Owning
    <2>4. QED
      BY <2>1, <2>2, <2>3
  <1>2. CASE TryAcquireBusy(s) \/ Poll(s)
    <2>h. SameHistory(s)
      BY <1>2 DEF SameHistory, TryAcquireBusy, Poll
    <2>1. /\ row'[s] = row[s] /\ sub'[s] = sub[s]
          /\ pc[s] \in Waiting /\ pc'[s] \in Waiting
      BY <1>2 DEF TryAcquireBusy, Poll, Waiting
    <2>2. JobInv(s)'
      BY <2>h, <2>1 DEF SameHistory, JobInv, RowMatchesWorker, HistoryMatches,
         Spared, Unsent, Confirmed, Kept, Waiting, Owning
    <2>3. QED
      BY <2>1, <2>2 DEF Keeps, Ages, Owner, Owning, Waiting
  <1>3. CASE TimeOut(s)
    <2>h. SameHistory(s)
      BY <1>3 DEF SameHistory, TimeOut
    <2>0. "queue-timeout" \in Terminal /\ "queue-timeout" \in Reasons
      BY DEF Terminal, Reasons
    <2>1. /\ pc[s] = "timingOut" /\ pc'[s] = "exited" /\ sub'[s] = sub[s]
          /\ \/ row'[s] = Finish(row[s], "queue-timeout", "queue-timeout")
             \/ row'[s] = row[s]
      BY <1>3 DEF TimeOut
    <2>2. CASE row'[s] = row[s]
      <3>1. JobInv(s)'
        BY <2>h, <2>1, <2>2 DEF SameHistory, JobInv, RowMatchesWorker, HistoryMatches,
         Spared, Unsent, Confirmed, Kept, Waiting, Owning
      <3>2. QED
        BY <2>1, <2>2, <3>1 DEF Keeps, Ages, Owner, Owning
    <2>3. CASE row'[s] = Finish(row[s], "queue-timeout", "queue-timeout")
      <3>1. /\ row'[s].waiter = row[s].waiter /\ row'[s].started = row[s].started
            /\ row'[s].cancel = row[s].cancel
            /\ row[s].state \notin Active => row'[s] = row[s]
            /\ row[s].state \in Active =>
                 row'[s].state = "queue-timeout" /\ row'[s].reason = "queue-timeout"
        BY <1>0, <2>0, <2>3, FinishType
      <3>2. JobInv(s)'
        BY <2>h, <2>1, <3>1 DEF SameHistory, JobInv, RowMatchesWorker, HistoryMatches,
         Spared, Unsent, Confirmed, Kept, Waiting, Owning, Active
      <3>3. QED
        BY <2>1, <3>1, <3>2 DEF Keeps, Ages, Owner, Owning, Active, Terminal
    <2>4. QED
      BY <2>1, <2>2, <2>3
  <1>4. CASE ExitOnCancel(s)
    <2>1. /\ row'[s] = row[s] /\ sub'[s] = sub[s]
          /\ pc[s] = "calling" /\ pc'[s] = "exited"
          /\ (s \in salvaged') = (s \in salvaged)
          /\ (s \in answered') = (s \in answered)
          /\ (s \in died') = (s \in died)
      BY <1>4 DEF ExitOnCancel
    <2>2. JobInv(s)'
      BY <2>1 DEF SameHistory, JobInv, RowMatchesWorker, HistoryMatches,
         Spared, Unsent, Confirmed, Kept, Waiting, Owning
    <2>3. QED
      BY <2>1, <2>2 DEF Keeps, Ages, Owner, Owning
  <1>5. CASE ModelAnswers(s) \/ ModelFails(s)
    <2>1. /\ row'[s] = row[s] /\ sub'[s] = sub[s]
          /\ pc[s] = "calling" /\ pc'[s] \in {"answered", "failing"}
          /\ (s \in ack') = (s \in ack)
          /\ (s \in answered') = (s \in answered \/ pc'[s] = "answered")
          /\ (s \in died') = (s \in died)
      BY <1>5 DEF ModelAnswers, ModelFails
    <2>2. JobInv(s)'
      BY <2>1 DEF SameHistory, JobInv, RowMatchesWorker, HistoryMatches,
         Spared, Unsent, Confirmed, Kept, Waiting, Owning, Active
    <2>3. QED
      BY <2>1, <2>2 DEF Keeps, Ages, Owner, Owning
  <1>6. CASE PublishAnswer(s) \/ PublishFailure(s)
    <2>0. "completed" \in Terminal /\ "failed" \in Terminal /\ "none" \in Reasons /\ "model" \in Reasons
      BY DEF Terminal, Reasons
    <2>1. /\ pc'[s] = "exited" /\ sub'[s] = sub[s]
          /\ (s \in ack') = (s \in ack)
          /\ (s \in answered') = (s \in answered)
          /\ (s \in died') = (s \in died)
      BY <1>6 DEF PublishAnswer, PublishFailure
    <2>2. \/ /\ pc[s] = "answered" /\ row'[s] = Finish(row[s], "completed", "none")
             /\ s \in salvaged' \/ row[s].state \in Active
          \/ pc[s] = "answered" /\ row'[s] = row[s] /\ s \in salvaged'
          \/ pc[s] = "failing" /\ row'[s] = Finish(row[s], "failed", "model")
          \/ pc[s] = "failing" /\ row'[s] = row[s]
      BY <1>6 DEF PublishAnswer, PublishFailure
    <2>3. /\ row'[s].waiter = row[s].waiter /\ row'[s].started = row[s].started
          /\ row'[s].cancel = row[s].cancel
          /\ \/ row'[s] = row[s] /\ (pc[s] = "answered" => s \in salvaged')
             \/ /\ row[s].state \in Active
                /\ \/ pc[s] = "answered" /\ row'[s].state = "completed" /\ row'[s].reason = "none"
                   \/ pc[s] = "failing" /\ row'[s].state = "failed" /\ row'[s].reason = "model"
      BY <1>0, <2>0, <2>2, FinishType
    <2>4. pc[s] \in Owning /\ pc[s] \in {"answered", "failing"}
      BY <2>2 DEF Owning
    <2>5. s \in answered => pc[s] = "answered"
      BY <2>4 DEF JobInv, HistoryMatches
    <2>6. JobInv(s)'
      BY <2>1, <2>3, <2>4, <2>5 DEF SameHistory, JobInv, RowMatchesWorker, HistoryMatches,
         Spared, Unsent, Confirmed, Kept, Waiting, Owning, Active
    <2>7. QED
      BY <2>1, <2>3, <2>6 DEF Keeps, Ages, Owner, Owning, Active, Terminal
  <1>7. CASE WorkerKilled(s)
    <2>1. /\ row'[s] = row[s] /\ sub'[s] = sub[s]
          /\ pc[s] \notin {"none", "exited"} /\ pc'[s] = "exited" /\ s \in died'
          /\ (s \in ack') = (s \in ack)
          /\ (s \in answered') = (s \in answered)
      BY <1>7 DEF WorkerKilled, Exists
    <2>2. JobInv(s)'
      BY <2>1 DEF SameHistory, JobInv, RowMatchesWorker, HistoryMatches,
         Spared, Unsent, Confirmed, Kept, Waiting, Owning
    <2>3. QED
      BY <2>1, <2>2 DEF Keeps, Ages, Owner, Owning
  <1>8. QED
    BY <1>1, <1>2, <1>3, <1>4, <1>5, <1>6, <1>7

LEMMA ReaderAndOperatorKeep ==
  ASSUME TypeOK, NEW s \in Job, JobInv(s), SameHistory(s), pc'[s] = pc[s], sub'[s] = sub[s],
         \/ row'[s] = MarkCancel(row[s])
         \/ row'[s] = Finish(row[s], "failed", "operator-abandoned")
         \/ row[s].state = "queued" /\ row'[s] = [row[s] EXCEPT !.young = FALSE]
  PROVE  Keeps(s)
  <1>0. row[s] \in Row /\ "failed" \in Terminal /\ "operator-abandoned" \in Reasons
    BY DEF TypeOK, Terminal, Reasons
  <1>2. CASE \/ row'[s] = MarkCancel(row[s])
             \/ row[s].state = "queued" /\ row'[s] = [row[s] EXCEPT !.young = FALSE]
    <2>1. CASE row'[s] = row[s]
      BY <2>1, UntouchedKeeps
    <2>2. CASE row'[s] # row[s]
      <3>1. /\ row[s].state # "absent"
            /\ row'[s].state = row[s].state /\ row'[s].reason = row[s].reason
            /\ row'[s].waiter = row[s].waiter /\ row'[s].started = row[s].started
            /\ row'[s].worker = row[s].worker
            /\ row[s].cancel => row'[s].cancel
        BY <1>0, <1>2, <2>2 DEF MarkCancel, Row, Active
      <3>2. JobInv(s)'
        BY <3>1 DEF SameHistory, JobInv, RowMatchesWorker, HistoryMatches,
           Spared, Unsent, Confirmed, Kept
      <3>3. QED
        BY <3>1, <3>2 DEF Keeps, Ages, Owner
    <2>3. QED
      BY <2>1, <2>2
  <1>3. CASE row'[s] = Finish(row[s], "failed", "operator-abandoned")
    <2>1. CASE row[s].state \notin Active
      <3>1. row'[s] = row[s]
        BY <1>3, <2>1 DEF Finish
      <3>2. QED
        BY <3>1, UntouchedKeeps
    <2>2. CASE row[s].state \in Active
      <3>1. /\ row'[s].state = "failed" /\ row'[s].reason = "operator-abandoned"
            /\ row'[s].waiter = row[s].waiter /\ row'[s].started = row[s].started
            /\ row'[s].cancel = row[s].cancel
        BY <1>0, <1>3, <2>2, FinishType
      <3>2. JobInv(s)'
        BY <2>2, <3>1 DEF SameHistory, JobInv, RowMatchesWorker, HistoryMatches,
           Spared, Unsent, Confirmed, Kept, Active
      <3>3. QED
        BY <2>2, <3>1, <3>2 DEF Keeps, Ages, Owner, Active, Terminal
    <2>3. QED
      BY <2>1, <2>2
  <1>4. QED
    BY <1>2, <1>3

(* What the transaction of an acquiring worker saw: the row it claims was    *)
(* queued and not cancelled, and every running row's worker was gone.        *)
LEMMA AcquiredMeans ==
  ASSUME TypeOK, NEW s \in Job, Verdict(ViewFor(s), s) = "acquired"
  PROVE  /\ row[s].state = "queued" /\ ~row[s].cancel
         /\ s \notin CollectedBy(ViewFor(s), s)
         /\ \A t \in Job : row[t].state = "running" => Liveness(row[t], t) = "dead"
  <1> DEFINE q == ViewFor(s)
  <1>1. /\ DOMAIN q = Job
        /\ \A t \in Job : /\ q[t].state = row[t].state /\ q[t].cancel = row[t].cancel
                          /\ q[t].liveness = Liveness(row[t], t)
    BY DEF ViewFor
  <1>2. row[s].state = "queued" /\ ~row[s].cancel
    BY <1>1 DEF Verdict, TypeOK, Row
  <1>3. RunningBlockers(q) = {} /\ IsHead(q, s)
    BY <1>1, <1>2 DEF Verdict
  <1>4. s \notin CollectedBy(q, s)
    BY <1>1, <1>2, <1>3, JobAssumption DEF CollectedBy, ScansPast, IsHead, RunningIn
  <1>5. \A t \in Job : row[t].state = "running" => Liveness(row[t], t) = "dead"
    BY <1>1, <1>3 DEF RunningBlockers, RunningIn
  <1>6. QED
    BY <1>2, <1>4, <1>5

(* An attempt that was granted the slot leaves no other job with a live owner.*)
Seats(s) ==
  /\ TryAcquire(s) /\ Verdict(ViewFor(s), s) = "acquired"
  /\ JobInv(s)' /\ Ages(s) /\ row'[s].state = "running"
  /\ \A t \in Job : t # s => Keeps(t) /\ ~Owner(t)'

LEMMA TryAcquireKeeps ==
  ASSUME TypeOK, \A t \in Job : JobInv(t), NEW s \in Job, TryAcquire(s)
  PROVE  (\A t \in Job : Keeps(t)) \/ Seats(s)
  <1> DEFINE verdict == Verdict(ViewFor(s), s)
             claims == verdict = "acquired" /\ row[s].waiter
  <1> USE DEF TypeOK
  <1>h. \A t \in Job : SameHistory(t) /\ sub'[t] = sub[t]
    BY DEF TryAcquire, SameHistory, fileVars
  <1>p. pc[s] = "due" /\ \A t \in Job : t # s => pc'[t] = pc[t]
    BY DEF TryAcquire, Goto
  <1>1. ASSUME NEW t \in Job, t # s PROVE Keeps(t)
    <2>1. row'[t] = Reconcile(row[t], t) \/ row'[t] = row[t]
      BY <1>1 DEF TryAcquire
    <2>2. row[t].state = "queued" => ~row[t].started
      BY DEF JobInv, RowMatchesWorker
    <2>3. QED
      BY <1>1, <1>h, <1>p, <2>1, <2>2, UntouchedKeeps, RecoveredKeeps
  <1>2. CASE ~claims
    <2>1. row'[s] = row[s] \/ row'[s] = Reconcile(row[s], s)
      BY <1>2 DEF TryAcquire
    <2>2. pc'[s] \in {"exited", "sleeping"}
      BY <1>2 DEF TryAcquire, Goto
    <2>3. row'[s] = row[s]
      <3>1. row[s].waiter /\ row[s] \in Row
        BY <1>p DEF JobInv, RowMatchesWorker, Waiting
      <3>2. Reconcile(row[s], s) = row[s]
        BY <1>p, <3>1, ReconcileFacts
      <3>3. QED
        BY <2>1, <3>2
    <2>4. JobInv(s)' /\ Ages(s) /\ ~Owner(s)'
      BY <1>h, <1>p, <2>2, <2>3 DEF SameHistory, JobInv, RowMatchesWorker, HistoryMatches,
         Spared, Unsent, Confirmed, Kept, Waiting, Owning, Ages, Owner
    <2>5. QED
      BY <1>1, <2>3, <2>4 DEF Keeps
  <1>3. CASE claims
    <2>1. /\ row[s].state = "queued" /\ row[s].cancel = FALSE
          /\ s \notin CollectedBy(ViewFor(s), s)
          /\ \A t \in Job : row[t].state = "running" => Liveness(row[t], t) = "dead"
      BY <1>3, AcquiredMeans DEF Row
    <2>2. row'[s] = ClaimJob(row[s]) /\ pc'[s] = "calling"
      BY <1>3, <2>1 DEF TryAcquire, Goto
    <2>3. /\ row'[s].state = "running" /\ row'[s].worker = TRUE /\ row'[s].started = TRUE
          /\ row'[s].waiter = row[s].waiter /\ row'[s].reason = row[s].reason
      BY <2>2 DEF ClaimJob, Row
    <2>4. JobInv(s)'
      BY <1>h, <1>p, <2>1, <2>2, <2>3 DEF SameHistory, JobInv, RowMatchesWorker, HistoryMatches,
         Spared, Unsent, Confirmed, Kept, Waiting, Owning, Active
    <2>5. Ages(s)
      BY <2>1, <2>3 DEF Ages, Terminal
    <2>6. \A t \in Job : t # s => ~Owner(t)'
      <3> SUFFICES ASSUME NEW t \in Job, t # s, Owner(t)' PROVE FALSE
        OBVIOUS
      <3>1. Owner(t)
        BY <1>1 DEF Keeps
      <3>2. Liveness(row[t], t) = "dead" /\ row[t].worker
        BY <2>1, <3>1 DEF Owner, JobInv, RowMatchesWorker
      <3>3. pc[t] \in {"none", "exited"}
        BY <3>1, <3>2 DEF Liveness, LivenessOf, RelevantPid, PidLive, Exists, Owner
      <3>4. QED
        BY <3>1, <3>3 DEF Owner, Owning
    <2>7. QED
      BY <1>1, <1>3, <2>3, <2>4, <2>5, <2>6 DEF Seats
  <1>4. QED
    BY <1>2, <1>3

-----------------------------------------------------------------------------
(* The whole step.                                                           *)

LEMMA StepKeeps ==
  ASSUME IInv, [Next]_vars
  PROVE  (\A t \in Job : Keeps(t)) \/ (\E s \in Job : Seats(s))
  <1> USE DEF IInv, TypeOK, procVars, fileVars, readerVars
  <1>0. TypeOK /\ \A t \in Job : JobInv(t)
    OBVIOUS
  <1>1. ASSUME NEW s \in Job, Submitter(s) PROVE \A t \in Job : Keeps(t)
    <2>1. Keeps(s)
      BY <1>0, <1>1, SubmitterKeeps
    <2>2. ASSUME NEW t \in Job, t # s PROVE Keeps(t)
      <3>1. SameHistory(t) /\ row'[t] = row[t] /\ pc'[t] = pc[t] /\ sub'[t] = sub[t]
        BY <1>1, <2>2 DEF Submitter, InsertJob, SpawnConfirmed, SpawnRejected, MarkSpawned,
           TerminalizeSpawnFailure, SubmitterDies, SameHistory
      <3>2. QED
        BY <1>0, <3>1, UntouchedKeeps
    <2>3. QED
      BY <2>1, <2>2
  <1>2. ASSUME NEW s \in Job, TryAcquire(s)
        PROVE  (\A t \in Job : Keeps(t)) \/ Seats(s)
    BY <1>0, <1>2, TryAcquireKeeps
  <1>3. ASSUME NEW s \in Job, Worker(s), ~TryAcquire(s) PROVE \A t \in Job : Keeps(t)
    <2>1. Register(s) \/ TryAcquireBusy(s) \/ Poll(s) \/ TimeOut(s) \/ ExitOnCancel(s)
          \/ ModelAnswers(s) \/ ModelFails(s) \/ PublishAnswer(s) \/ PublishFailure(s)
          \/ WorkerKilled(s)
      BY <1>3 DEF Worker
    <2>2. Keeps(s)
      BY <1>0, <2>1, WorkerKeeps
    <2>3. ASSUME NEW t \in Job, t # s PROVE Keeps(t)
      <3>1. SameHistory(t) /\ row'[t] = row[t] /\ pc'[t] = pc[t] /\ sub'[t] = sub[t]
        BY <2>1, <2>3 DEF Register, TryAcquireBusy, Poll, TimeOut, ExitOnCancel, ModelAnswers,
           ModelFails, PublishAnswer, PublishFailure, WorkerKilled, Goto, SameHistory
      <3>2. QED
        BY <1>0, <3>1, UntouchedKeeps
    <2>4. QED
      BY <2>2, <2>3
  <1>4. ASSUME NEW s \in Job, AbandonRow(s) PROVE \A t \in Job : Keeps(t)
    <2>h. \A t \in Job : SameHistory(t) /\ pc'[t] = pc[t] /\ sub'[t] = sub[t]
      BY <1>4 DEF AbandonRow, SameHistory
    <2>1. \/ row'[s] = Reconcile(row[s], s)
          \/ row'[s] = Finish(row[s], "failed", "operator-abandoned")
      BY <1>4 DEF AbandonRow
    <2>2. row[s] \in Row /\ (row[s].state = "queued" => ~row[s].started)
      BY <1>0 DEF JobInv, RowMatchesWorker
    <2>3. Keeps(s)
      BY <1>0, <2>h, <2>1, <2>2, RecoveredKeeps, ReaderAndOperatorKeep
    <2>4. ASSUME NEW t \in Job, t # s PROVE row'[t] = row[t]
      BY <1>4, <2>4 DEF AbandonRow
    <2>5. QED
      BY <1>0, <2>h, <2>3, <2>4, UntouchedKeeps
  <1>5. ASSUME NEW s \in Job, Environment(s) PROVE \A t \in Job : Keeps(t)
    <2>h. \A t \in Job : SameHistory(t) /\ pc'[t] = pc[t] /\ sub'[t] = sub[t]
      BY <1>5 DEF Environment, GraceEnds, CapElapses, PidRecycled, PidFreed, SameHistory
    <2>1. \/ row' = row
          \/ row[s].state = "queued" /\ row' = [row EXCEPT ![s].young = FALSE]
      BY <1>5 DEF Environment, GraceEnds, CapElapses, PidRecycled, PidFreed
    <2>2. ASSUME NEW t \in Job
          PROVE  \/ row'[t] = row[t]
                 \/ row[t].state = "queued" /\ row'[t] = [row[t] EXCEPT !.young = FALSE]
      BY <2>1
    <2>3. QED
      BY <1>0, <2>h, <2>2, UntouchedKeeps, ReaderAndOperatorKeep
  <1>6. ASSUME NEW c \in Readers, Reader(c) PROVE \A t \in Job : Keeps(t)
    <2>h. \A t \in Job : SameHistory(t) /\ pc'[t] = pc[t] /\ sub'[t] = sub[t]
      BY <1>6 DEF Reader, ReaderLists, ReaderVisits, ReaderDone, ReaderDies, SameHistory
    <2>1. ASSUME NEW t \in Job
          PROVE  \/ row'[t] = row[t]
                 \/ row'[t] = Reconcile(seen[c][t], t)
                 \/ row'[t] = MarkCancel(row[t])
      BY <1>6 DEF Reader, ReaderLists, ReaderVisits, ReaderDone, ReaderDies
    <2>2. ASSUME NEW t \in Job
          PROVE  seen[c][t] \in Row
                 /\ (seen[c][t].state = "queued" /\ seen[c][t].cancel => ~row[t].started)
      BY <2>2 DEF ListingsAge
    <2>3. QED
      BY <1>0, <2>h, <2>1, <2>2, UntouchedKeeps, RecoveredKeeps, ReaderAndOperatorKeep
  <1>7. CASE UNCHANGED vars
    <2>1. \A t \in Job : SameHistory(t) /\ row'[t] = row[t] /\ pc'[t] = pc[t] /\ sub'[t] = sub[t]
      BY <1>7 DEF vars, SameHistory
    <2>2. QED
      BY <1>0, <2>1, UntouchedKeeps
  <1>8. QED
    BY <1>1, <1>2, <1>3, <1>4, <1>5, <1>6, <1>7 DEF Next

-----------------------------------------------------------------------------
(* Types.                                                                    *)

LEMMA TypeStep == TypeOK /\ [Next]_vars => TypeOK'
  <1> SUFFICES ASSUME TypeOK, [Next]_vars PROVE TypeOK'
    OBVIOUS
  <1> USE DEF TypeOK, Idle, Look, procVars, fileVars, readerVars, Goto, Phases
  <1> NoRow \in Row
    BY DEF NoRow, Row, Reasons
  <1>1. ASSUME NEW s \in Job, InsertJob(s) PROVE TypeOK'
    <2>1. [row[s] EXCEPT !.state = "queued", !.young = TRUE] \in Row
      BY DEF Row, Active
    <2>2. row' = [row EXCEPT ![s] = [row[s] EXCEPT !.state = "queued", !.young = TRUE]]
      BY <1>1 DEF InsertJob
    <2>3. QED
      BY <1>1, <2>1, <2>2 DEF InsertJob
  <1>2. ASSUME NEW s \in Job, SpawnConfirmed(s) PROVE TypeOK'
    BY <1>2 DEF SpawnConfirmed
  <1>3. ASSUME NEW s \in Job, SpawnRejected(s) PROVE TypeOK'
    BY <1>3 DEF SpawnRejected
  <1>4. ASSUME NEW s \in Job, MarkSpawned(s) PROVE TypeOK'
    <2>1. Stamp(row[s]) \in Row
      BY DEF Stamp, Row
    <2>2. QED
      BY <1>4, <2>1 DEF MarkSpawned
  <1>5. ASSUME NEW s \in Job, TerminalizeSpawnFailure(s) PROVE TypeOK'
    <2>1. "failed" \in Terminal /\ "worker-launch-unconfirmed" \in Reasons
      BY DEF Terminal, Reasons
    <2>2. AbandonUnstarted(row[s], "failed", "worker-launch-unconfirmed") \in Row
      BY <2>1, AbandonUnstartedType
    <2>3. QED
      BY <1>5, <2>2 DEF TerminalizeSpawnFailure
  <1>6. ASSUME NEW s \in Job, SubmitterDies(s) PROVE TypeOK'
    BY <1>6 DEF SubmitterDies
  <1>7. ASSUME NEW s \in Job, Register(s) PROVE TypeOK'
    <2>1. RegisterWaiter(row[s]) \in Row
      BY DEF RegisterWaiter, Row
    <2>2. QED
      BY <1>7, <2>1 DEF Register
  <1>8. ASSUME NEW s \in Job, TryAcquire(s) PROVE TypeOK'
    <2> DEFINE verdict == Verdict(ViewFor(s), s)
               phase == CASE verdict = "acquired" /\ row[s].waiter -> "calling"
                          [] verdict \in {"gone", "cancelled"} -> "exited"
                          [] OTHER -> "sleeping"
    <2>1. ClaimJob(row[s]) \in Row
      BY DEF ClaimJob, Row, Active
    <2>2. \A t \in Job : Reconcile(row[t], t) \in Row
      BY ReconcileFacts
    <2>3. /\ row' = [t \in Job |->
                      IF t \in CollectedBy(ViewFor(s), s) THEN Reconcile(row[t], t)
                      ELSE IF t = s /\ verdict = "acquired" /\ row[s].waiter
                           THEN ClaimJob(row[s])
                           ELSE row[t]]
          /\ pc' = [pc EXCEPT ![s] = phase]
          /\ UNCHANGED <<sub, recycled, late, answered, died, fileVars, readerVars>>
      BY <1>8 DEF TryAcquire
    <2>4. phase \in Phases
      OBVIOUS
    <2> HIDE DEF verdict, phase
    <2>5. row' \in [Job -> Row]
      BY <2>1, <2>2, <2>3
    <2>6. QED
      BY <2>3, <2>4, <2>5
  <1>9. ASSUME NEW s \in Job, TryAcquireBusy(s) \/ Poll(s) PROVE TypeOK'
    BY <1>9 DEF TryAcquireBusy, Poll
  <1>10. ASSUME NEW s \in Job, TimeOut(s) PROVE TypeOK'
    <2>1. "queue-timeout" \in Terminal /\ "queue-timeout" \in Reasons
      BY DEF Terminal, Reasons
    <2>2. Finish(row[s], "queue-timeout", "queue-timeout") \in Row
      BY <2>1, FinishType
    <2>3. QED
      BY <1>10, <2>2 DEF TimeOut
  <1>11. ASSUME NEW s \in Job, ExitOnCancel(s) \/ ModelAnswers(s) \/ ModelFails(s) \/ WorkerKilled(s)
         PROVE TypeOK'
    BY <1>11 DEF ExitOnCancel, ModelAnswers, ModelFails, WorkerKilled
  <1>12. ASSUME NEW s \in Job, PublishAnswer(s) \/ PublishFailure(s) PROVE TypeOK'
    <2>1. {"completed", "failed"} \subseteq Terminal /\ {"none", "model"} \subseteq Reasons
      BY DEF Terminal, Reasons
    <2>2. /\ Finish(row[s], "completed", "none") \in Row
          /\ Finish(row[s], "failed", "model") \in Row
      BY <2>1, FinishType
    <2>3. QED
      BY <1>12, <2>2 DEF PublishAnswer, PublishFailure
  <1>13. ASSUME NEW s \in Job, AbandonRow(s) PROVE TypeOK'
    <2>0. "failed" \in Terminal /\ "operator-abandoned" \in Reasons
      BY DEF Terminal, Reasons
    <2>1. Finish(row[s], "failed", "operator-abandoned") \in Row
      BY <2>0, FinishType
    <2>2. Reconcile(row[s], s) \in Row
      BY ReconcileFacts
    <2>3. QED
      BY <1>13, <2>1, <2>2 DEF AbandonRow
  <1>14. ASSUME NEW s \in Job, GraceEnds(s) PROVE TypeOK'
    <2>1. [row[s] EXCEPT !.young = FALSE] \in Row
      BY DEF Row
    <2>2. QED
      BY <1>14, <2>1 DEF GraceEnds
  <1>15. ASSUME NEW s \in Job, CapElapses(s) \/ PidRecycled(s) \/ PidFreed(s) PROVE TypeOK'
    BY <1>15 DEF CapElapses, PidRecycled, PidFreed
  <1>16. ASSUME NEW c \in Readers, NEW e \in Errands, ReaderLists(c, e) PROVE TypeOK'
    BY <1>16, ErrandAssumption DEF ReaderLists
  <1>17. ASSUME NEW c \in Readers, NEW s \in Job, ReaderVisits(c, s) PROVE TypeOK'
    <2>1. Reconcile(seen[c][s], s) \in Row
      BY ReconcileFacts
    <2>2. QED
      BY <1>17, <2>1 DEF ReaderVisits
  <1>18. ASSUME NEW c \in Readers, ReaderDone(c) PROVE TypeOK'
    <2>1. \A s \in Job : MarkCancel(row[s]) \in Row
      BY DEF MarkCancel, Row
    <2>2. QED
      BY <1>18, <2>1 DEF ReaderDone
  <1>19. ASSUME NEW c \in Readers, ReaderDies(c) PROVE TypeOK'
    BY <1>19 DEF ReaderDies
  <1>20. CASE UNCHANGED vars
    BY <1>20 DEF vars
  <1>21. QED
    BY <1>1, <1>2, <1>3, <1>4, <1>5, <1>6, <1>7, <1>8, <1>9, <1>10, <1>11, <1>12, <1>13,
       <1>14, <1>15, <1>16, <1>17, <1>18, <1>19, <1>20
    DEF Next, Submitter, Worker, Reader, Environment

-----------------------------------------------------------------------------
(* What a listing said a while ago.                                          *)

LEMMA ListingsStep ==
  ASSUME IInv, [Next]_vars, \A t \in Job : Ages(t)
  PROVE  ListingsAge'
  <1> SUFFICES ASSUME NEW c \in Readers, NEW s \in Job, seen'[c][s].cancel
               PROVE  row'[s].cancel /\ (seen'[c][s].state = "queued" => ~row'[s].started)
    BY DEF ListingsAge
  <1>0. TypeOK /\ row[s] \in Row /\ seen \in [Readers -> [Job -> Row]]
    BY DEF IInv, TypeOK
  <1>1. CASE seen'[c][s] = seen[c][s]
    BY <1>1 DEF IInv, ListingsAge, Ages
  <1>2. CASE seen'[c][s] = NoRow
    BY <1>2 DEF NoRow
  <1>3. CASE seen'[c][s] = row[s]
    BY <1>3 DEF IInv, JobInv, RowMatchesWorker, Ages
  <1>4. seen'[c][s] = seen[c][s] \/ seen'[c][s] = NoRow \/ seen'[c][s] = row[s]
    <2>1. ASSUME NEW d \in Readers, Reader(d)
          PROVE  seen'[c][s] = seen[c][s] \/ seen'[c][s] = NoRow \/ seen'[c][s] = row[s]
      BY <1>0, <2>1 DEF Reader, ReaderLists, ReaderVisits, ReaderDone, ReaderDies
    <2>2. ASSUME NEW t \in Job, Submitter(t) \/ Worker(t) \/ AbandonRow(t) \/ Environment(t)
          PROVE  seen' = seen
      BY <2>2 DEF Submitter, Worker, AbandonRow, Environment, readerVars,
         InsertJob, SpawnConfirmed, SpawnRejected, MarkSpawned, TerminalizeSpawnFailure,
         SubmitterDies, Register, TryAcquire, TryAcquireBusy, Poll, TimeOut, ExitOnCancel,
         ModelAnswers, ModelFails, PublishAnswer, PublishFailure, WorkerKilled,
         GraceEnds, CapElapses, PidRecycled, PidFreed
    <2>3. CASE UNCHANGED vars
      BY <2>3 DEF vars
    <2>4. QED
      BY <2>1, <2>2, <2>3 DEF Next
  <1>5. QED
    BY <1>1, <1>2, <1>3, <1>4

LEMMA InitIInv == Init => IInv
  <1> SUFFICES ASSUME Init PROVE IInv
    OBVIOUS
  <1>1. NoRow \in Row
    BY DEF NoRow, Row, Reasons
  <1>2. TypeOK
    BY <1>1 DEF Init, TypeOK, Phases
  <1>3. ListingsAge /\ OneOwner /\ InOrder
    BY DEF Init, ListingsAge, OneOwner, Owner, InOrder, NoRow
  <1>4. \A s \in Job : JobInv(s)
    BY DEF Init, NoRow, JobInv, RowMatchesWorker, HistoryMatches, Spared, Unsent, Confirmed,
       Kept, Waiting, Owning, Active
  <1>5. QED
    BY <1>2, <1>3, <1>4 DEF IInv

LEMMA IInvStep == IInv /\ [Next]_vars => IInv'
  <1> SUFFICES ASSUME IInv, [Next]_vars PROVE IInv'
    OBVIOUS
  <1>1. TypeOK'
    BY TypeStep DEF IInv
  <1>2. \A t \in Job : JobInv(t)' /\ Ages(t)
    BY StepKeeps DEF Keeps, Seats
  <1>3. OneOwner'
    BY StepKeeps DEF IInv, OneOwner, Seats, Keeps
  <1>4. ListingsAge'
    BY <1>2, ListingsStep
  <1>5. InOrder'
    <2> SUFFICES ASSUME NEW s \in Job, NEW t \in Job, t < s, row'[t].state = "absent"
                 PROVE  row'[s].state = "absent"
      BY DEF InOrder
    <2>1. row[t].state = "absent" /\ row[s].state = "absent"
      BY <1>2 DEF Ages, IInv, InOrder
    <2>2. ~InsertJob(s)
      BY <2>1 DEF InsertJob
    <2>3. QED
      BY <1>2, <2>1, <2>2 DEF Ages
  <1>6. QED
    BY <1>1, <1>2, <1>3, <1>4, <1>5 DEF IInv

-----------------------------------------------------------------------------
(* The theorems.                                                             *)

(* The inductive invariant holds in every reachable state.                   *)
THEOREM JobQueueInvariant == Spec => []IInv
  <1>1. Init => IInv
    BY InitIInv
  <1>2. IInv /\ [Next]_vars => IInv'
    BY IInvStep
  <1>3. QED
    BY <1>1, <1>2, PTL DEF Spec

(* The table, the processes and the readers' listings keep their types.      *)
THEOREM TypeCorrect == Spec => []TypeOK
  <1>1. IInv => TypeOK
    BY DEF IInv
  <1>2. QED
    BY <1>1, JobQueueInvariant, PTL

(* For any number of jobs, workers, readers and builds: two model calls in   *)
(* flight means an operator wrote one of the two rows off.                   *)
THEOREM OneCallAlways == Spec => []OneCall
  <1>1. IInv => OneCall
    <2> SUFFICES ASSUME IInv, NEW s \in Job, NEW t \in Job, s # t,
                        pc[s] = "calling", pc[t] = "calling"
                 PROVE  "operator-abandoned" \in {row[s].reason, row[t].reason}
      BY DEF OneCall
    <2>1. ~Owner(s) \/ ~Owner(t)
      BY DEF IInv, OneOwner
    <2>2. QED
      BY <2>1 DEF IInv, Owner, Owning, JobInv, RowMatchesWorker
  <1>2. QED
    BY <1>1, JobQueueInvariant, PTL

(* Recovery, however stale the listing it works from, settles no row whose   *)
(* worker is waiting or calling; a verdict that says no request was sent is  *)
(* right; `cancelled` on a started job is a confirmed one; and an answer     *)
(* the model gave is not lost.                                               *)
THEOREM VerdictsAreTrue ==
  Spec => [](RecoverySparesTheLiving /\ NothingSent /\ CancelledIsConfirmed /\ AnswerKept)
  <1>1. IInv => RecoverySparesTheLiving /\ NothingSent /\ CancelledIsConfirmed /\ AnswerKept
    BY DEF IInv, JobInv, RecoverySparesTheLiving, NothingSent, CancelledIsConfirmed, AnswerKept
  <1>2. QED
    BY <1>1, JobQueueInvariant, PTL

(* Of these: no verdict of recovery is about a worker that is at work.       *)
(* (reconcile, abandonUnstarted)                                             *)
THEOREM LivingAreSpared == Spec => []RecoverySparesTheLiving
  BY VerdictsAreTrue, PTL

(* `cancelled` on a started job is a cancellation its worker confirmed.      *)
(* (reconcile, exitOnCancel)                                                 *)
THEOREM CancellationsAreConfirmed == Spec => []CancelledIsConfirmed
  BY VerdictsAreTrue, PTL

(* An answer the model gave is in its row or in its log.  (runAndPublish,    *)
(* salvageOutcome)                                                           *)
THEOREM AnswersAreKept == Spec => []AnswerKept
  BY VerdictsAreTrue, PTL

(* Whoever writes second changes nothing: a verdict is never rewritten.      *)
THEOREM VerdictsAreFinal == Spec => TerminalStays
  <1>1. IInv /\ [Next]_vars =>
          [\A s \in Job : row[s].state \in Terminal =>
             row'[s].state = row[s].state /\ row'[s].reason = row[s].reason]_vars
    BY StepKeeps DEF Ages, Keeps, Seats
  <1>2. QED
    BY <1>1, JobQueueInvariant, PTL DEF Spec, TerminalStays

(* A row the scan may pass over is settled by the transaction that passes it. *)
LEMMA PassedOverSettles ==
  ASSUME TypeOK, NEW s \in Job, NEW t \in Job, t < s, KnownTo(s, t),
         row[t].state = "queued", TryAcquire(s), Verdict(ViewFor(s), s) = "acquired"
  PROVE  row'[t].state \in Terminal
  <1> DEFINE q == ViewFor(s)
  <1>0. row[t] \in Row
    BY DEF TypeOK
  <1>1. /\ DOMAIN q = Job
        /\ \A u \in Job : /\ q[u].state = row[u].state /\ q[u].cancel = row[u].cancel
                          /\ q[u].liveness = Liveness(row[u], u) /\ q[u].known = KnownTo(s, u)
    BY DEF ViewFor
  <1>2. row[s].state = "queued" /\ ~row[s].cancel
    BY AcquiredMeans
  <1>3. RunningBlockers(q) = {} /\ IsHead(q, s)
    BY <1>1, <1>2 DEF Verdict
  <1>4. \A u \in QueuedIn(q) : u < s => Role(q, u) = "skip"
    BY <1>3 DEF IsHead
  <1>5. Liveness(row[t], t) \in {"dead", "never-started"}
    <2>1. Role(q, t) = "skip"
      BY <1>1, <1>4 DEF QueuedIn
    <2>2. Liveness(row[t], t) \in LivenessKinds
      BY DEF Liveness, LivenessOf, LivenessKinds
    <2>3. QED
      BY <1>1, <2>1, <2>2 DEF Role, QueuedRole, LivenessKinds
  <1>6. t \in CollectedBy(q, s)
    <2>1. \A u \in QueuedIn(q) : u <= t => u < s
      <3>1. QueuedIn(q) \subseteq Job
        BY <1>1 DEF QueuedIn
      <3>2. \A u \in Job : u <= t => u < s
        <4> SUFFICES ASSUME NEW u \in Job, u <= t PROVE u < s
          OBVIOUS
        <4>1. u \in Int /\ t \in Int /\ s \in Int
          BY JobAssumption
        <4>2. QED
          BY <4>1
      <3>3. QED
        BY <3>1, <3>2
    <2>2. ScansPast(q, t)
      BY <1>1, <1>4, <2>1 DEF ScansPast, QueuedIn
    <2>3. QED
      BY <1>1, <1>2, <1>3, <2>2 DEF CollectedBy
  <1>7. row'[t] = Reconcile(row[t], t)
    BY <1>6 DEF TryAcquire
  <1>8. Reconcile(row[t], t).state \in {"failed", "cancelled"}
    <2>1. row[t].waiter \/ Liveness(row[t], t) # "dead"
      BY DEF Liveness, LivenessOf, RelevantPid
    <2>2. ~row[t].waiter \/ Liveness(row[t], t) # "never-started"
      BY DEF Liveness, LivenessOf, RelevantPid
    <2>3. QED
      BY <1>0, <1>5, <2>2 DEF Reconcile, TerminalizeDead, TerminalizeUnstarted, Finish,
         AbandonUnstarted, Active, Row
  <1>9. QED
    BY <1>7, <1>8 DEF Terminal

(* First come, first served, in every order the processes may run: the job   *)
(* that takes the slot leaves nobody waiting before it, and none it passed   *)
(* can ever run.                                                             *)
THEOREM NobodyOvertakes == Spec => NoOvertaking
  <1>1. ASSUME IInv, [Next]_vars, NEW s \in Job, row[s].state = "queued", row'[s].state = "running",
               NEW t \in Job, t < s, KnownTo(s, t)
        PROVE  row'[t].state \in Terminal \/ (row'[t].state = "running" /\ ~PidLive(t))
    <2>0. TypeOK /\ row[t] \in Row
      BY <1>1 DEF IInv, TypeOK
    <2>1. Seats(s)
      BY <1>1, StepKeeps DEF Keeps, Seats
    <2>2. TryAcquire(s) /\ Verdict(ViewFor(s), s) = "acquired" /\ Ages(t) /\ t # s
      BY <1>1, <2>1, JobAssumption DEF Seats, Keeps
    <2>3. row[t].state # "absent"
      BY <1>1 DEF IInv, InOrder
    <2>4. CASE row[t].state = "queued"
      BY <1>1, <2>0, <2>2, <2>4, PassedOverSettles
    <2>5. CASE row[t].state = "running"
      <3>1. Liveness(row[t], t) = "dead"
        BY <2>0, <2>2, <2>5, AcquiredMeans
      <3>2. ~PidLive(t)
        BY <3>1 DEF Liveness, LivenessOf, RelevantPid
      <3>3. row'[t] = row[t] \/ row'[t] = Reconcile(row[t], t)
        BY <2>2 DEF TryAcquire
      <3>4. Reconcile(row[t], t).state \in {"failed", "cancelled", "running"}
        BY <2>0, <2>5, ReconcileFacts DEF TypeOK
      <3>5. QED
        BY <2>5, <3>2, <3>3, <3>4 DEF Terminal
    <2>6. CASE row[t].state \in Terminal
      BY <2>2, <2>6 DEF Ages
    <2>7. QED
      BY <2>0, <2>3, <2>4, <2>5, <2>6 DEF Row, Active
  <1>2. IInv /\ [Next]_vars =>
          [\A s \in Job : row[s].state = "queued" /\ row'[s].state = "running" =>
             \A t \in Job : t < s /\ KnownTo(s, t) =>
               row'[t].state \in Terminal \/ (row'[t].state = "running" /\ ~PidLive(t))]_vars
    BY <1>1
  <1>3. QED
    BY <1>2, JobQueueInvariant, PTL DEF Spec, NoOvertaking
-----------------------------------------------------------------------------
(* Rows of a newer build.                                                    *)

(* What its own submitter and worker may make of it.                         *)
OwnVerdict(s) ==
  /\ row[s].state # "cancelled"
  /\ row[s].reason \in {"none", "model", "queue-timeout", "worker-launch-unconfirmed"}

(* Every write that may reach the row leaves it one of these.                *)
LEMMA OwnVerdictStep ==
  ASSUME TypeOK, NEW s \in Job, Foreign = {s}, JobInv(s), OwnVerdict(s), [Next]_vars
  PROVE  OwnVerdict(s)'
  <1> USE DEF OwnVerdict
  <1>0. row[s] \in Row
    BY DEF TypeOK
  <1>1. ASSUME NEW t \in Job, Submitter(t) PROVE OwnVerdict(s)'
    <2>1. \/ row'[s] = row[s]
          \/ row'[s] = Stamp(row[s])
          \/ row'[s] = AbandonUnstarted(row[s], "failed", "worker-launch-unconfirmed")
          \/ row'[s] = [row[s] EXCEPT !.state = "queued", !.young = TRUE]
      BY <1>1 DEF TypeOK, Submitter, InsertJob, SpawnConfirmed, SpawnRejected, MarkSpawned,
         TerminalizeSpawnFailure, SubmitterDies
    <2>2. QED
      BY <1>0, <2>1 DEF Row, Stamp, AbandonUnstarted
  <1>2. ASSUME NEW t \in Job, Worker(t), ~TryAcquire(t) PROVE OwnVerdict(s)'
    <2>1. \/ row'[s] = row[s]
          \/ row'[s] = RegisterWaiter(row[s])
          \/ row'[s] = Finish(row[s], "queue-timeout", "queue-timeout")
          \/ row'[s] = Finish(row[s], "completed", "none")
          \/ row'[s] = Finish(row[s], "failed", "model")
      BY <1>2 DEF TypeOK, Worker, Register, TryAcquireBusy, Poll, TimeOut, ExitOnCancel,
         ModelAnswers, ModelFails, PublishAnswer, PublishFailure, WorkerKilled
    <2>2. QED
      BY <1>0, <2>1 DEF Row, RegisterWaiter, Finish
  <1>3. ASSUME NEW t \in Job, TryAcquire(t) PROVE OwnVerdict(s)'
    <2>1. CASE t = s
      <3>1. row[s].waiter /\ pc[s] = "due"
        BY <1>3, <2>1 DEF TryAcquire, JobInv, RowMatchesWorker, Waiting
      <3>2. Reconcile(row[s], s) = row[s]
        BY <1>0, <3>1, ReconcileFacts DEF TypeOK
      <3>3. row'[s] = row[s] \/ row'[s] = ClaimJob(row[s])
        BY <1>3, <2>1, <3>2 DEF TryAcquire
      <3>4. QED
        BY <1>0, <3>3 DEF Row, ClaimJob
    <2>2. CASE t # s
      <3>1. ViewFor(t)[s].known = FALSE
        BY <2>2 DEF ViewFor, KnownTo
      <3>2. s \notin CollectedBy(ViewFor(t), t)
        BY <3>1 DEF CollectedBy
      <3>3. row'[s] = row[s]
        BY <1>3, <2>2, <3>2 DEF TryAcquire
      <3>4. QED
        BY <3>3
    <2>3. QED
      BY <2>1, <2>2
  <1>4. ASSUME NEW t \in Job, AbandonRow(t) PROVE OwnVerdict(s)'
    <2>1. t # s
      BY <1>4 DEF AbandonRow, KnownHere
    <2>2. QED
      BY <1>4, <2>1 DEF AbandonRow, TypeOK
  <1>5. ASSUME NEW t \in Job, Environment(t) PROVE OwnVerdict(s)'
    <2>1. row'[s] = row[s] \/ row'[s] = [row[s] EXCEPT !.young = FALSE]
      BY <1>5 DEF TypeOK, Environment, GraceEnds, CapElapses, PidRecycled, PidFreed
    <2>2. QED
      BY <1>0, <2>1 DEF Row
  <1>6. ASSUME NEW c \in Readers, Reader(c) PROVE OwnVerdict(s)'
    <2>1. row'[s] = row[s] \/ row'[s] = MarkCancel(row[s])
      BY <1>6 DEF TypeOK, Reader, ReaderLists, ReaderVisits, ReaderDone, ReaderDies, KnownHere
    <2>2. QED
      BY <1>0, <2>1 DEF Row, MarkCancel
  <1>7. CASE UNCHANGED vars
    BY <1>7 DEF vars
  <1>8. QED
    BY <1>1, <1>2, <1>3, <1>4, <1>5, <1>6, <1>7 DEF Next

(* While one row is a newer build's, no recovery and no operator of this     *)
(* build settles it, whoever reads, waits behind it or writes rows off.      *)
(* (reconcile rule 2, scanQueued, abandonDecision)                           *)
THEOREM NewerRowsAreLeft == Spec => []ForeignRowsAreLeft
  <1> DEFINE Left == \A s \in Job : Foreign = {s} => OwnVerdict(s)
  <1>1. Init => Left
    BY DEF Init, NoRow, OwnVerdict
  <1>2. IInv /\ Left /\ [Next]_vars => Left'
    BY OwnVerdictStep DEF IInv
  <1>3. Left => ForeignRowsAreLeft
    BY ForeignAssumption DEF ForeignRowsAreLeft, OwnVerdict
  <1> HIDE DEF Left
  <1>4. QED
    BY <1>1, <1>2, <1>3, JobQueueInvariant, PTL DEF Spec

-----------------------------------------------------------------------------
(* The refinement.                                                           *)

(* What the slot sees of a job, before and after.                            *)
Unseen(t) ==
  /\ row'[t].state = row[t].state
  /\ row'[t].cancel = row[t].cancel
  /\ Owner(t)' <=> Owner(t)

Closed(t) ==
  /\ row[t].state \in Active /\ ~Owner(t) /\ ~Owner(t)'
  /\ row'[t].state \in {"failed", "cancelled"}
  /\ row'[t].state = "cancelled" => row[t].cancel
  /\ row'[t].cancel = row[t].cancel

WrittenOff(s) ==
  /\ row[s].state \in Active
  /\ row'[s].state \in {"failed", "queue-timeout"}
  /\ row'[s].state = "queue-timeout" => row[s].state = "queued"
  /\ row'[s].cancel = row[s].cancel
  /\ ~Owner(s)'

LEMMA UnseenStutters ==
  ASSUME \A t \in Job : Unseen(t)
  PROVE  UNCHANGED Slot!slotVars
  BY DEF Unseen, Slot!slotVars

LEMMA RecoverMaps ==
  ASSUME \A t \in Job : Unseen(t) \/ Closed(t)
  PROVE  Slot!Recover
  <1>1. \A t \in Job : row'[t].cancel = row[t].cancel /\ (Owner(t)' <=> Owner(t))
    BY DEF Unseen, Closed
  <1>2. \A t \in Job : row'[t].state = row[t].state
                       \/ /\ row[t].state \in Active /\ ~Owner(t)
                          /\ row'[t].state \in {"failed", "cancelled"}
                          /\ row'[t].state = "cancelled" => row[t].cancel
    BY DEF Unseen, Closed
  <1>3. QED
    BY <1>1, <1>2 DEF Slot!Recover, Slot!Closes, Slot!Open, Active

LEMMA WriteOffMaps ==
  ASSUME NEW s \in Job, WrittenOff(s), \A t \in Job : t # s => Unseen(t)
  PROVE  Slot!WriteOff(s)
  BY DEF WrittenOff, Unseen, Slot!WriteOff, Slot!Open, Active

LEMMA VanishMaps ==
  ASSUME NEW s \in Job, Owner(s), ~Owner(s)', row'[s].state = row[s].state,
         row'[s].cancel = row[s].cancel, \A t \in Job : t # s => Unseen(t)
  PROVE  Slot!Vanish(s)
  BY DEF Unseen, Slot!Vanish

LEMMA ReportMaps ==
  ASSUME NEW s \in Job, Owner(s), ~Owner(s)', row'[s].state \in {"completed", "failed"},
         row'[s].cancel = row[s].cancel, \A t \in Job : t # s => Unseen(t)
  PROVE  Slot!Report(s)
  BY DEF Unseen, Slot!Report

LEMMA ReconcileCloses ==
  ASSUME IInv, NEW t \in Job, NEW g \in Row, row'[t] = Reconcile(g, t), pc'[t] = pc[t],
         g.cancel => row[t].cancel
  PROVE  Unseen(t) \/ Closed(t)
  <1>0. row \in [Job -> Row] /\ JobInv(t)
    BY DEF IInv, TypeOK
  <1>1. CASE row'[t] = row[t]
    BY <1>1 DEF Unseen, Owner
  <1>2. CASE row'[t] # row[t]
    <2>1. /\ row[t].state \in Active
          /\ \/ pc[t] \in {"none", "exited"}
             \/ row[t].state = "queued" /\ ~row[t].waiter
          /\ \/ row'[t].state = "failed"
             \/ row'[t].state = "cancelled" /\ g.cancel
          /\ row'[t].cancel = row[t].cancel
      BY <1>0, <1>2, ReconcileFacts
    <2>2. QED
      BY <2>1 DEF Closed, Owner, Owning
  <1>3. QED
    BY <1>1, <1>2

SlotStep == Slot!SlotNext \/ UNCHANGED Slot!slotVars

LEMMA SubmitterMaps ==
  ASSUME IInv, NEW s \in Job, Submitter(s)
  PROVE  SlotStep
  <1> USE DEF TypeOK, procVars, fileVars, readerVars
  <1>0. TypeOK /\ JobInv(s) /\ row[s] \in Row
    BY DEF IInv
  <1>1. ASSUME NEW t \in Job, t # s PROVE Unseen(t)
    <2>1. row'[t] = row[t] /\ pc'[t] = pc[t]
      BY <1>0, <1>1 DEF Submitter, InsertJob, SpawnConfirmed, SpawnRejected, MarkSpawned,
         TerminalizeSpawnFailure, SubmitterDies
    <2>2. QED
      BY <2>1 DEF Unseen, Owner
  <1>2. CASE InsertJob(s)
    <2>1. row[s] = NoRow /\ row'[s] = [NoRow EXCEPT !.state = "queued", !.young = TRUE]
      BY <1>0, <1>2 DEF InsertJob, JobInv, RowMatchesWorker
    <2>2. /\ row[s].state = "absent" /\ row'[s].state = "queued"
          /\ row'[s].cancel = row[s].cancel
          /\ ~Owner(s) /\ ~Owner(s)'
      BY <2>1 DEF NoRow, Owner
    <2>3. Slot!Submit(s)
      BY <1>1, <2>2 DEF Unseen, Slot!Submit
    <2>4. QED
      BY <2>3 DEF SlotStep, Slot!SlotNext
  <1>3. CASE ~InsertJob(s)
    <2>a. \/ row'[s] = row[s]
          \/ row'[s] = Stamp(row[s])
          \/ row'[s] = AbandonUnstarted(row[s], "failed", "worker-launch-unconfirmed")
      BY <1>0, <1>3 DEF Submitter, SpawnConfirmed, SpawnRejected, MarkSpawned,
         TerminalizeSpawnFailure, SubmitterDies
    <2>b. pc'[s] = pc[s] \/ (sub[s] = "inserted" /\ pc'[s] = "spawned")
      BY <1>0, <1>3 DEF Submitter, SpawnConfirmed, SpawnRejected, MarkSpawned,
         TerminalizeSpawnFailure, SubmitterDies
    <2>1. pc'[s] = pc[s] \/ (pc'[s] = "spawned" /\ pc[s] = "none")
      BY <1>0, <2>b DEF JobInv, RowMatchesWorker
    <2>2. \/ row'[s].state = row[s].state /\ row'[s].cancel = row[s].cancel
          \/ /\ row[s].state = "queued" /\ row'[s].state = "failed"
             /\ row'[s].cancel = row[s].cancel
      BY <1>0, <2>a DEF Stamp, AbandonUnstarted, Row
    <2>3. (pc'[s] \in Owning) = (pc[s] \in Owning)
      BY <2>1 DEF Owning
    <2>4. Unseen(s) \/ WrittenOff(s)
      BY <2>2, <2>3 DEF Unseen, WrittenOff, Owner, Active
    <2>5. QED
      BY <1>1, <2>4, UnseenStutters, WriteOffMaps DEF SlotStep, Slot!SlotNext
  <1>4. QED
    BY <1>2, <1>3

LEMMA StartMaps ==
  ASSUME IInv, NEW s \in Job, TryAcquire(s)
  PROVE  SlotStep
  <1>0. TypeOK /\ \A t \in Job : JobInv(t) /\ row[t] \in Row
    BY DEF IInv, TypeOK
  <1>1. ASSUME NEW t \in Job, t # s PROVE Unseen(t) \/ Closed(t)
    <2>1. pc'[t] = pc[t]
      BY <1>0, <1>1 DEF TryAcquire, Goto, TypeOK
    <2>2. row'[t] = row[t] \/ row'[t] = Reconcile(row[t], t)
      BY <1>1 DEF TryAcquire
    <2>3. row'[t] = row[t] => Unseen(t)
      BY <2>1 DEF Unseen, Owner
    <2>4. QED
      BY <1>0, <2>1, <2>2, <2>3, ReconcileCloses
  <1>2. CASE Seats(s)
    <2>1. /\ row[s].state = "queued" /\ row[s].cancel = FALSE
          /\ s \notin CollectedBy(ViewFor(s), s)
          /\ \A t \in Job : row[t].state = "running" => Liveness(row[t], t) = "dead"
          /\ Verdict(ViewFor(s), s) = "acquired"
      BY <1>0, <1>2, AcquiredMeans DEF Seats, Row
    <2>2. row[s].waiter = TRUE
      BY <1>0, <1>2 DEF TryAcquire, JobInv, RowMatchesWorker, Waiting, Row
    <2>3. row'[s] = ClaimJob(row[s]) /\ pc'[s] = "calling"
      BY <1>0, <2>1, <2>2 DEF TryAcquire, Goto, TypeOK
    <2>4. /\ row'[s].state = "running" /\ row'[s].cancel = FALSE /\ Owner(s)'
      BY <1>0, <2>1, <2>3 DEF ClaimJob, Row, Owner, Owning
    <2>5. \A t \in Job : ~Owner(t)
      <3> SUFFICES ASSUME NEW t \in Job, Owner(t) PROVE FALSE
        OBVIOUS
      <3>1. Liveness(row[t], t) = "dead" /\ row[t].worker /\ row[t].state = "running"
        BY <1>0, <2>1 DEF Owner, JobInv, RowMatchesWorker
      <3>2. pc[t] \in {"none", "exited"}
        BY <3>1 DEF Liveness, LivenessOf, RelevantPid, PidLive, Exists
      <3>3. QED
        BY <3>2 DEF Owner, Owning
    <2>6. \A t \in Job \ {s} : ~Owner(t)' /\ row'[t].cancel = row[t].cancel
      BY <1>1, <2>5 DEF Unseen, Closed
    <2>7. \A t \in Job \ {s} : t < s /\ KnownTo(s, t) => row'[t].state \notin {"absent", "queued"}
      <3> SUFFICES ASSUME NEW t \in Job \ {s}, t < s, KnownTo(s, t)
                   PROVE  row'[t].state \notin {"absent", "queued"}
        OBVIOUS
      <3>1. row[t].state # "absent"
        BY <2>1 DEF IInv, InOrder
      <3>2. CASE row[t].state = "queued"
        BY <1>0, <2>1, <3>2, PassedOverSettles DEF Terminal
      <3>3. CASE row[t].state # "queued"
        BY <1>1, <3>1, <3>3 DEF Unseen, Closed
      <3>4. QED
        BY <3>2, <3>3
    <2>8. \A t \in Job \ {s} : row'[t].state = row[t].state
                               \/ /\ row[t].state \in Active
                                  /\ row'[t].state \in {"failed", "cancelled"}
                                  /\ row'[t].state = "cancelled" => row[t].cancel
      BY <1>1 DEF Unseen, Closed
    <2>9. Slot!Start(s)
      BY <2>1, <2>4, <2>5, <2>6, <2>7, <2>8 DEF Slot!Start, Slot!Closes, Slot!Open, Active
    <2>10. QED
      BY <2>9 DEF SlotStep, Slot!SlotNext
  <1>3. CASE \A t \in Job : Keeps(t)
    <2>1. row[s].waiter /\ pc[s] = "due"
      BY <1>0 DEF TryAcquire, JobInv, RowMatchesWorker, Waiting
    <2>2. row'[s] = row[s] \/ row'[s] = Reconcile(row[s], s) \/ row'[s] = ClaimJob(row[s])
      BY DEF TryAcquire
    <2>3. row[s].state # "running" /\ ~Owner(s)
      BY <1>0, <2>1 DEF JobInv, RowMatchesWorker, Waiting, Owner
    <2>4. row'[s] # ClaimJob(row[s])
      BY <1>0, <1>3, <2>3 DEF Keeps, ClaimJob, Row
    <2>5. Reconcile(row[s], s) = row[s]
      BY <1>0, <2>1, ReconcileFacts DEF TypeOK
    <2>6. row'[s] = row[s] /\ ~Owner(s)'
      BY <1>3, <2>2, <2>3, <2>4, <2>5 DEF Keeps
    <2>7. Unseen(s)
      BY <2>3, <2>6 DEF Unseen
    <2>8. QED
      BY <1>1, <2>7, RecoverMaps DEF SlotStep, Slot!SlotNext
  <1>4. QED
    BY <1>0, <1>2, <1>3, TryAcquireKeeps

LEMMA WorkerMaps ==
  ASSUME IInv, NEW s \in Job, Worker(s), ~TryAcquire(s)
  PROVE  SlotStep
  <1> USE DEF TypeOK, procVars, fileVars, readerVars, Goto
  <1>0. TypeOK /\ JobInv(s) /\ row[s] \in Row /\ pc[s] \in Phases
    BY DEF IInv
  <1>1. ASSUME NEW t \in Job, t # s PROVE Unseen(t)
    <2>1. row'[t] = row[t] /\ pc'[t] = pc[t]
      BY <1>0, <1>1 DEF Worker, Register, TryAcquireBusy, Poll, TimeOut, ExitOnCancel,
         ModelAnswers, ModelFails, PublishAnswer, PublishFailure, WorkerKilled
    <2>2. QED
      BY <2>1 DEF Unseen, Owner
  <1>2. CASE row'[s] = row[s] \/ Register(s)
    <2>1. row'[s].state = row[s].state /\ row'[s].cancel = row[s].cancel
      <3>1. row'[s] = row[s] \/ row'[s] = RegisterWaiter(row[s])
        BY <1>0, <1>2 DEF Register
      <3>2. QED
        BY <1>0, <3>1 DEF RegisterWaiter, Row
    <2>2. Owner(s)' => Owner(s)
      <3>1. pc'[s] \in Owning => pc[s] \in Owning
        BY <1>0 DEF Worker, Register, TryAcquireBusy, Poll, TimeOut, ExitOnCancel,
         ModelAnswers, ModelFails, PublishAnswer, PublishFailure, WorkerKilled, Owning
      <3>2. QED
        BY <2>1, <3>1 DEF Owner
    <2>3. CASE Owner(s)' \/ ~Owner(s)
      <3>1. Unseen(s)
        BY <2>1, <2>2, <2>3 DEF Unseen
      <3>2. QED
        BY <1>1, <3>1, UnseenStutters DEF SlotStep
    <2>4. CASE Owner(s) /\ ~Owner(s)'
      <3>1. Slot!Vanish(s)
        BY <1>1, <2>1, <2>4, VanishMaps
      <3>2. QED
        BY <3>1 DEF SlotStep, Slot!SlotNext
    <2>5. QED
      BY <2>3, <2>4
  <1>3. CASE row'[s] # row[s] /\ TimeOut(s)
    <2>1. /\ pc[s] = "timingOut" /\ pc'[s] = "exited"
          /\ row'[s] = Finish(row[s], "queue-timeout", "queue-timeout")
      BY <1>0, <1>3 DEF TimeOut
    <2>2. /\ row[s].state \in Active
          /\ row'[s].state = "queue-timeout" /\ row'[s].cancel = row[s].cancel
      BY <1>0, <1>3, <2>1 DEF Finish, Row
    <2>3. row[s].state = "queued"
      BY <1>0, <2>1, <2>2 DEF JobInv, RowMatchesWorker, Waiting, Active
    <2>4. WrittenOff(s)
      BY <2>1, <2>2, <2>3 DEF WrittenOff, Owner
    <2>5. QED
      BY <1>1, <2>4, WriteOffMaps DEF SlotStep, Slot!SlotNext
  <1>4. CASE row'[s] # row[s] /\ (PublishAnswer(s) \/ PublishFailure(s))
    <2>1. /\ pc[s] \in Owning /\ pc'[s] = "exited"
          /\ \/ row'[s] = Finish(row[s], "completed", "none")
             \/ row'[s] = Finish(row[s], "failed", "model")
      BY <1>0, <1>4 DEF PublishAnswer, PublishFailure, Owning
    <2>2. /\ row[s].state \in Active
          /\ row'[s].state \in {"completed", "failed"} /\ row'[s].cancel = row[s].cancel
      BY <1>0, <1>4, <2>1 DEF Finish, Row
    <2>3. Owner(s) /\ ~Owner(s)'
      BY <1>0, <2>1, <2>2 DEF JobInv, RowMatchesWorker, Owner, Active
    <2>4. Slot!Report(s)
      BY <1>1, <2>2, <2>3, ReportMaps
    <2>5. QED
      BY <2>4 DEF SlotStep, Slot!SlotNext
  <1>5. QED
    BY <1>2, <1>3, <1>4 DEF Worker, TryAcquireBusy, Poll, ExitOnCancel, ModelAnswers,
       ModelFails, WorkerKilled

LEMMA AbandonMaps ==
  ASSUME IInv, NEW s \in Job, AbandonRow(s)
  PROVE  SlotStep
  <1>0. TypeOK /\ row[s] \in Row /\ \A t \in Job : pc'[t] = pc[t]
    BY DEF IInv, TypeOK, AbandonRow, procVars
  <1>1. ASSUME NEW t \in Job, t # s PROVE Unseen(t)
    BY <1>0, <1>1 DEF AbandonRow, Unseen, Owner, TypeOK
  <1>2. CASE row'[s] = Reconcile(row[s], s)
    <2>1. Unseen(s) \/ Closed(s)
      BY <1>0, <1>2, ReconcileCloses
    <2>2. QED
      BY <1>1, <2>1, RecoverMaps DEF SlotStep, Slot!SlotNext
  <1>3. CASE row'[s] = Finish(row[s], "failed", "operator-abandoned")
    <2>1. /\ row[s].state \in Active /\ row'[s].state = "failed"
          /\ row'[s].cancel = row[s].cancel
      <3>1. row[s].state \in Active
        BY DEF AbandonRow
      <3>2. QED
        BY <1>0, <1>3, <3>1 DEF Finish, Row
    <2>2. WrittenOff(s)
      BY <2>1 DEF WrittenOff, Owner
    <2>3. QED
      BY <1>1, <2>2, WriteOffMaps DEF SlotStep, Slot!SlotNext
  <1>4. QED
    BY <1>0, <1>2, <1>3 DEF AbandonRow, TypeOK

LEMMA EnvironmentMaps ==
  ASSUME IInv, NEW s \in Job, Environment(s)
  PROVE  SlotStep
  <1>1. pc' = pc /\ (row' = row \/ row' = [row EXCEPT ![s].young = FALSE])
    BY DEF Environment, GraceEnds, CapElapses, PidRecycled, PidFreed, procVars
  <1>2. ASSUME NEW t \in Job PROVE Unseen(t)
    <2>1. row[t] \in Row /\ row \in [Job -> Row]
      BY DEF IInv, TypeOK
    <2>2. row'[t].state = row[t].state /\ row'[t].cancel = row[t].cancel
      BY <1>1, <2>1 DEF Row
    <2>3. QED
      BY <1>1, <2>2 DEF Unseen, Owner
  <1>3. QED
    BY <1>2, UnseenStutters DEF SlotStep

LEMMA ReaderMaps ==
  ASSUME IInv, NEW c \in Readers, Reader(c)
  PROVE  SlotStep
  <1> USE DEF procVars, fileVars, readerVars
  <1>0. /\ TypeOK /\ row \in [Job -> Row] /\ seen \in [Readers -> [Job -> Row]]
        /\ \A t \in Job : pc'[t] = pc[t]
    BY DEF IInv, TypeOK, Reader, ReaderLists, ReaderVisits, ReaderDone, ReaderDies
  <1>1. CASE row' = row
    <2>1. \A t \in Job : Unseen(t)
      BY <1>0, <1>1 DEF Unseen, Owner
    <2>2. QED
      BY <2>1, UnseenStutters DEF SlotStep
  <1>2. CASE \E s \in Job : row' = [row EXCEPT ![s] = Reconcile(seen[c][s], s)]
    <2>1. PICK s \in Job : row' = [row EXCEPT ![s] = Reconcile(seen[c][s], s)]
      BY <1>2
    <2>2. seen[c][s] \in Row /\ (seen[c][s].cancel => row[s].cancel)
      BY <1>0 DEF IInv, ListingsAge
    <2>3. Unseen(s) \/ Closed(s)
      BY <1>0, <2>1, <2>2, ReconcileCloses
    <2>4. ASSUME NEW t \in Job, t # s PROVE Unseen(t)
      BY <1>0, <2>1, <2>4 DEF Unseen, Owner
    <2>5. QED
      BY <2>3, <2>4, RecoverMaps DEF SlotStep, Slot!SlotNext
  <1>3. CASE \E s \in Job : row' = [row EXCEPT ![s] = MarkCancel(row[s])]
    <2>1. PICK s \in Job : row' = [row EXCEPT ![s] = MarkCancel(row[s])]
      BY <1>3
    <2>2. ASSUME NEW t \in Job, t # s PROVE Unseen(t)
      BY <1>0, <2>1, <2>2 DEF Unseen, Owner
    <2>3. /\ row'[s].state = row[s].state
          /\ \/ row'[s].cancel = row[s].cancel
             \/ row[s].state \in Active /\ row'[s].cancel = TRUE
      BY <1>0, <2>1 DEF MarkCancel, Row
    <2>4. Owner(s)' <=> Owner(s)
      BY <1>0, <2>3 DEF Owner
    <2>5. CASE row'[s].cancel = row[s].cancel
      <3>1. Unseen(s)
        BY <2>3, <2>4, <2>5 DEF Unseen
      <3>2. QED
        BY <2>2, <3>1, UnseenStutters DEF SlotStep
    <2>6. CASE row[s].state \in Active /\ row'[s].cancel = TRUE
      <3>1. Slot!Ask(s)
        BY <2>2, <2>3, <2>4, <2>6 DEF Unseen, Slot!Ask, Slot!Open, Active
      <3>2. QED
        BY <3>1 DEF SlotStep, Slot!SlotNext
    <2>7. QED
      BY <2>3, <2>5, <2>6
  <1>4. QED
    BY <1>0, <1>1, <1>2, <1>3
    DEF Reader, ReaderLists, ReaderVisits, ReaderDone, ReaderDies, TypeOK, Idle, Look

(* The queue is the slot it promises to be: with any number of jobs, readers *)
(* and builds, every behaviour of the processes is a behaviour of CallSlot.  *)
THEOREM QueueImplementsSlot == Spec => ImplementsSlot
  <1>1. Init => Slot!SlotInit
    BY DEF Init, Slot!SlotInit, NoRow, Owner
  <1>2. IInv /\ [Next]_vars => [Slot!SlotNext]_(Slot!slotVars)
    <2> SUFFICES ASSUME IInv, [Next]_vars PROVE SlotStep
      BY DEF SlotStep
    <2>1. CASE UNCHANGED vars
      <3>1. \A t \in Job : Unseen(t)
        BY <2>1 DEF vars, Unseen, Owner
      <3>2. QED
        BY <3>1, UnseenStutters DEF SlotStep
    <2>2. QED
      BY <2>1, SubmitterMaps, StartMaps, WorkerMaps, AbandonMaps, EnvironmentMaps, ReaderMaps
      DEF Next
  <1>3. QED
    BY <1>1, <1>2, JobQueueInvariant, PTL DEF Spec, ImplementsSlot, Slot!SlotSpec
=============================================================================
