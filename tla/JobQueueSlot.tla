---------------------------- MODULE JobQueueSlot ----------------------------
(* JobQueue implements CallSlot: the slot is held by the live worker of a    *)
(* running row, and a job is ahead of a younger one whose build knows it.    *)
EXTENDS JobQueue

Slot == INSTANCE CallSlot WITH
  Job    <- Job,
  Ahead  <- {p \in Job \X Job : p[1] < p[2] /\ KnownTo(p[2], p[1])},
  status <- [s \in Job |-> row[s].state],
  asked  <- {s \in Job : row[s].cancel},
  busy   <- {s \in Job : Owner(s)}

(* Every step of the workers, readers, submitters and operators is a step of *)
(* the slot or invisible to it: the slot is granted to one job at a time, in *)
(* order, never after a cancellation, and each job is closed once.           *)
(* (job-queue.mjs decide, job-record.mjs finish and requestCancel)           *)
ImplementsSlot == Slot!SlotSpec
=============================================================================
