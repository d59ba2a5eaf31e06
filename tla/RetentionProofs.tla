-------------------------- MODULE RetentionProofs ---------------------------
(* No sweep takes a file that is still wanted: SweepInv is inductive, for    *)
(* any number of rows and submissions and any Retain.                        *)
EXTENDS Retention, TLAPS

LEMMA InitSweep == Init => SweepInv
  BY DEF Init, SweepInv, TypeOK, OrphansArePruned, RowsComeFirst, LogsOfRowsStay,
     ProofOutlivesQuestion, Submission, NoSubmission, Steps, RowStates, WorkerStates,
     Inserted, Pruned, Present

(* Submission p moved on, and what it holds is still what it may hold.       *)
Moves(p) ==
  /\ sub' \in [Submitter -> Submission]
  /\ \A q \in Submitter : q # p => sub'[q] = sub[q]
  /\ sub'[p].names \subseteq Inserted /\ sub'[p].orphans \subseteq Pruned

(* Rows only go forward, so what was inserted or pruned stays so.            *)
LEMMA RowsGoForward ==
  ASSUME TypeOK, [Next]_vars
  PROVE  /\ row' \in [Job -> RowStates]
         /\ Inserted \subseteq Inserted' /\ Pruned \subseteq Pruned'
         /\ Inserted' \subseteq Job
         /\ \A s \in Job : row[s] = "exempt" => row'[s] = "exempt"
  BY DEF TypeOK, Next, vars, RowStates, Inserted, Pruned, Begin, Prune, SweepBusy, ListFiles,
     ReadRows, RemoveFiles, InsertJob, SweepDone, OpenLog, Spawn, SubmitterEnds,
     Claim, WorkerEnds, Recover, WriteOff, Excess, Candidates

LEMMA SweepStep == SweepInv /\ [Next]_vars => SweepInv'
  <1> SUFFICES ASSUME SweepInv, [Next]_vars PROVE SweepInv'
    OBVIOUS
  <1> USE DEF SweepInv
  <1>t. /\ TypeOK /\ sub \in [Submitter -> Submission] /\ row \in [Job -> RowStates]
        /\ \A p \in Submitter : /\ sub[p] \in Submission
                                /\ sub[p].names \subseteq Inserted
                                /\ sub[p].orphans \subseteq Pruned
    BY DEF TypeOK, OrphansArePruned
  <1>f. /\ row' \in [Job -> RowStates]
        /\ Inserted \subseteq Inserted' /\ Pruned \subseteq Pruned'
    BY <1>t, RowsGoForward
  (* Only sub moves.                                                         *)
  <1>1. ASSUME NEW p \in Submitter, UNCHANGED <<row, started, worker, logs, acks>>,
               Moves(p), sub'[p].at \notin {"open", "spawn"}
        PROVE  SweepInv'
    <2>1. TypeOK'
      BY <1>1 DEF TypeOK, Moves
    <2>2. Inserted' = Inserted /\ Pruned' = Pruned
      BY <1>1 DEF Inserted, Pruned
    <2>3. OrphansArePruned'
      BY <1>1, <2>2 DEF OrphansArePruned, Moves
    <2>4. RowsComeFirst'
      BY <1>1, <2>2 DEF RowsComeFirst, Moves
    <2>5. LogsOfRowsStay' /\ ProofOutlivesQuestion'
      BY <1>1 DEF LogsOfRowsStay, ProofOutlivesQuestion
    <2>6. QED
      BY <2>1, <2>3, <2>4, <2>5
  <1>2. ASSUME NEW p \in Submitter, Begin(p) \/ SweepBusy(p) \/ SweepDone(p) \/ SubmitterEnds(p)
        PROVE  SweepInv'
    <2>1. Moves(p) /\ sub'[p].at \notin {"open", "spawn"}
      BY <1>t, <1>2 DEF Begin, SweepBusy, SweepDone, SubmitterEnds, Moves, NoSubmission,
         Submission, Steps
    <2>2. QED
      BY <1>1, <1>2, <2>1 DEF Begin, SweepBusy, SweepDone, SubmitterEnds
  <1>3. ASSUME NEW p \in Submitter, ListFiles(p) PROVE SweepInv'
    <2>1. logs \cup acks \subseteq Job /\ logs \cup acks \subseteq Inserted
      BY DEF TypeOK, RowsComeFirst
    <2>2. Moves(p) /\ sub'[p].at \notin {"open", "spawn"}
      BY <1>t, <1>3, <2>1 DEF ListFiles, Moves, Submission, Steps
    <2>3. QED
      BY <1>1, <1>3, <2>2 DEF ListFiles
  (* The heart of it: what was listed had been inserted, so what is not      *)
  (* present now was pruned.                                                 *)
  <1>4. ASSUME NEW p \in Submitter, ReadRows(p) PROVE SweepInv'
    <2>1. sub[p].names \ KnownRows \subseteq Pruned
      BY <1>t DEF KnownRows, Inserted, Pruned, Present, RowStates
    <2>2. Moves(p) /\ sub'[p].at \notin {"open", "spawn"}
      BY <1>t, <1>4, <2>1 DEF ReadRows, Moves, Submission, Steps, Pruned
    <2>3. QED
      BY <1>1, <1>4, <2>2 DEF ReadRows
  <1>5. ASSUME NEW p \in Submitter, Prune(p) PROVE SweepInv'
    <2>1. /\ UNCHANGED <<started, worker, logs, acks>>
          /\ \A s \in Job : row'[s] = row[s] \/ row'[s] = "pruned"
      BY <1>5 DEF Prune
    <2>2. Moves(p) /\ sub'[p].at = "list"
      BY <1>t, <1>5 DEF Prune, Moves, Submission, Steps
    <2>3. TypeOK'
      BY <1>f, <2>1, <2>2 DEF TypeOK, Moves
    <2>4. OrphansArePruned'
      BY <1>f, <1>t, <2>2 DEF OrphansArePruned, Moves
    <2>5. RowsComeFirst'
      BY <1>f, <2>1, <2>2 DEF RowsComeFirst, Moves
    <2>6. LogsOfRowsStay' /\ ProofOutlivesQuestion'
      BY <2>1 DEF LogsOfRowsStay, ProofOutlivesQuestion, Present
    <2>7. QED
      BY <2>3, <2>4, <2>5, <2>6
  <1>6. ASSUME NEW p \in Submitter, NEW s \in Job, RemoveFiles(p, s) PROVE SweepInv'
    <2>1. /\ UNCHANGED <<row, started, worker>>
          /\ logs \ {s} \subseteq logs' /\ logs' \subseteq logs
          /\ acks \ {s} \subseteq acks' /\ acks' \subseteq acks
          /\ row[s] = "pruned"
      BY <1>t, <1>6 DEF RemoveFiles, Pruned
    <2>2. Moves(p) /\ sub'[p].at = "unlink"
      BY <1>t, <1>6 DEF RemoveFiles, Moves, Submission, Steps
    <2>3. TypeOK'
      BY <2>1, <2>2 DEF TypeOK, Moves
    <2>4. Inserted' = Inserted /\ Pruned' = Pruned /\ s \in Pruned
      BY <2>1 DEF Inserted, Pruned
    <2>5. OrphansArePruned'
      BY <1>t, <2>2, <2>4 DEF OrphansArePruned, Moves
    <2>6. RowsComeFirst'
      BY <2>1, <2>2, <2>4 DEF RowsComeFirst, Moves
    <2>7. LogsOfRowsStay' /\ ProofOutlivesQuestion'
      BY <2>1 DEF LogsOfRowsStay, ProofOutlivesQuestion, Present
    <2>8. QED
      BY <2>3, <2>5, <2>6, <2>7
  <1>7. ASSUME NEW p \in Submitter, NEW s \in Job, InsertJob(p, s) PROVE SweepInv'
    <2>1. /\ UNCHANGED <<started, worker, logs, acks>>
          /\ row[s] = "none" /\ row'[s] = "open"
          /\ \A t \in Job : t # s => row'[t] = row[t]
      BY <1>t, <1>7 DEF InsertJob
    <2>2. Moves(p) /\ sub'[p].at = "open" /\ sub'[p].seq = s
      BY <1>t, <1>7 DEF InsertJob, Moves, Submission, Steps
    <2>3. TypeOK'
      BY <1>f, <2>1, <2>2 DEF TypeOK, Moves
    <2>4. OrphansArePruned'
      BY <1>f, <1>t, <2>2 DEF OrphansArePruned, Moves
    <2>5. RowsComeFirst'
      <3>1. s \in Inserted'
        BY <2>1 DEF Inserted
      <3>2. QED
        BY <1>f, <2>1, <2>2, <3>1 DEF RowsComeFirst, Moves
    <2>6. worker[s] = "none"
      BY <2>1 DEF RowsComeFirst, Inserted
    <2>7. LogsOfRowsStay' /\ ProofOutlivesQuestion'
      BY <2>1, <2>6 DEF LogsOfRowsStay, ProofOutlivesQuestion
    <2>8. QED
      BY <2>3, <2>4, <2>5, <2>7
  <1>8. ASSUME NEW p \in Submitter, OpenLog(p) \/ Spawn(p) PROVE SweepInv'
    <2>1. /\ UNCHANGED <<row, started, acks>>
          /\ sub[p].seq \in Inserted /\ sub[p].seq \in Job
          /\ Inserted' = Inserted /\ Pruned' = Pruned
      BY <1>8 DEF OpenLog, Spawn, RowsComeFirst, Inserted, Pruned
    <2>2. CASE OpenLog(p)
      <3>1. Moves(p) /\ sub'[p].at = "spawn" /\ sub'[p].seq = sub[p].seq
        BY <1>t, <2>2 DEF OpenLog, Moves, Submission, Steps
      <3>2. logs' = logs \cup {sub[p].seq} /\ worker' = worker
        BY <2>2 DEF OpenLog
      <3>3. TypeOK' /\ OrphansArePruned'
        BY <1>t, <2>1, <3>1, <3>2 DEF TypeOK, OrphansArePruned, Moves
      <3>4. RowsComeFirst'
        BY <2>1, <3>1, <3>2 DEF RowsComeFirst, Moves
      <3>5. LogsOfRowsStay' /\ ProofOutlivesQuestion'
        BY <2>1, <3>2 DEF LogsOfRowsStay, ProofOutlivesQuestion
      <3>6. QED
        BY <3>3, <3>4, <3>5
    <2>3. CASE Spawn(p)
      <3>1. Moves(p) /\ sub'[p].at = "idle"
        BY <1>t, <2>3 DEF Spawn, Moves, Submission, Steps, NoSubmission
      <3>2. /\ logs' = logs /\ worker'[sub[p].seq] = "alive"
            /\ worker' \in [Job -> WorkerStates]
            /\ \A t \in Job : t # sub[p].seq => worker'[t] = worker[t]
            /\ sub[p].seq \in logs \cup Pruned
        BY <2>1, <2>3 DEF Spawn, TypeOK, WorkerStates, RowsComeFirst
      <3>3. TypeOK' /\ OrphansArePruned'
        BY <1>t, <2>1, <3>1, <3>2 DEF TypeOK, OrphansArePruned, Moves
      <3>4. RowsComeFirst'
        BY <2>1, <3>1, <3>2 DEF RowsComeFirst, Moves
      <3>5. LogsOfRowsStay' /\ ProofOutlivesQuestion'
        BY <2>1, <3>2 DEF LogsOfRowsStay, ProofOutlivesQuestion, Pruned, Present
      <3>6. QED
        BY <3>3, <3>4, <3>5
    <2>4. QED
      BY <1>8, <2>2, <2>3
  <1>9. ASSUME NEW s \in Job, Claim(s) \/ WorkerEnds(s) \/ Recover(s) \/ WriteOff(s)
        PROVE  SweepInv'
    <2>1. /\ UNCHANGED <<logs, sub>> /\ started' \subseteq Job
          /\ \A t \in Job : t # s => row'[t] = row[t] /\ worker'[t] = worker[t]
          /\ row'[s] = row[s] \/ row[s] = "open"
          /\ row[s] \notin {"none", "pruned"} \/ row'[s] = row[s]
          /\ row'[s] # "pruned" \/ row'[s] = row[s]
          /\ worker' \in [Job -> WorkerStates]
          /\ worker'[s] = worker[s] \/ worker[s] = "alive"
          /\ acks' = acks \/ (acks' = acks \cup {s} /\ worker[s] = "alive")
          /\ worker'[s] = "confirmed" => worker[s] = "confirmed" \/ s \in acks'
      BY <1>9 DEF Claim, WorkerEnds, Recover, WriteOff, TypeOK, WorkerStates
    <2>2. Pruned' = Pruned /\ Inserted' = Inserted
      BY <1>f, <1>t, <2>1 DEF Inserted, Pruned
    <2>3. TypeOK'
      BY <1>f, <2>1 DEF TypeOK
    <2>4. OrphansArePruned'
      BY <2>1, <2>2 DEF OrphansArePruned
    <2>5. worker[s] = "alive" => s \in Inserted
      BY DEF RowsComeFirst
    <2>6. RowsComeFirst'
      BY <2>1, <2>2, <2>5 DEF RowsComeFirst
    <2>7. row'[s] \in Present => row[s] \in Present
      BY <2>1 DEF Present
    <2>8. LogsOfRowsStay'
      BY <2>1, <2>7 DEF LogsOfRowsStay
    <2>9. ProofOutlivesQuestion'
      BY <2>1 DEF ProofOutlivesQuestion
    <2>10. QED
      BY <2>3, <2>4, <2>6, <2>8, <2>9
  <1>10. CASE UNCHANGED vars
    BY <1>10 DEF vars, TypeOK, OrphansArePruned, RowsComeFirst, LogsOfRowsStay,
       ProofOutlivesQuestion, Inserted, Pruned
  <1>11. QED
    BY <1>2, <1>3, <1>4, <1>5, <1>6, <1>7, <1>8, <1>9, <1>10 DEF Next

THEOREM SweepInvariant == Spec => []SweepInv
  <1>1. QED
    BY InitSweep, SweepStep, PTL DEF Spec

(* However many submissions sweep at a time, and wherever they die, the log  *)
(* of a row that exists and the proof of a cancellation still to be judged   *)
(* are never unlinked.                                                       *)
THEOREM SweepsTakeOrphansOnly == Spec => [](LogsOfRowsStay /\ ProofOutlivesQuestion)
  <1>1. SweepInv => LogsOfRowsStay /\ ProofOutlivesQuestion
    BY DEF SweepInv
  <1>2. QED
    BY <1>1, SweepInvariant, PTL

(* Of these: recovery finds the proof of a cancellation it has yet to judge. *)
(* (orphanSeqs, cancel-ack.mjs)                                              *)
THEOREM ProofsOutliveQuestions == Spec => []ProofOutlivesQuestion
  BY SweepsTakeOrphansOnly, PTL

(* The only copy of an abandoned job's answer survives every later sweep.    *)
THEOREM AbandonedAnswersSurvive == Spec => AbandonedAnswerSurvives
  <1>1. ASSUME SweepInv, SweepInv', [Next]_vars, NEW s \in Job,
               row[s] = "exempt", worker[s] = "salvaged"
        PROVE  row'[s] = "exempt" /\ s \in logs'
    <2>1. row'[s] = "exempt"
      BY <1>1, RowsGoForward DEF SweepInv
    <2>2. worker'[s] # "none"
      BY <1>1 DEF SweepInv, TypeOK, Next, vars, Begin, Prune, SweepBusy, ListFiles, ReadRows,
         RemoveFiles, InsertJob, SweepDone, OpenLog, Spawn, SubmitterEnds,
         Claim, WorkerEnds, Recover, WriteOff
    <2>3. QED
      BY <1>1, <2>1, <2>2 DEF SweepInv, LogsOfRowsStay, Present
  <1>2. SweepInv /\ SweepInv' /\ [Next]_vars =>
          [\A s \in Job : row[s] = "exempt" /\ worker[s] = "salvaged" =>
             row'[s] = "exempt" /\ s \in logs']_vars
    BY <1>1
  <1>3. QED
    BY <1>2, SweepInvariant, PTL DEF Spec, AbandonedAnswerSurvives
=============================================================================
