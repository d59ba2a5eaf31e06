------------------------------ MODULE CallSlot ------------------------------
(***************************************************************************)
(* What the background queue promises, with no processes, databases or     *)
(* readers in it: jobs are submitted, at most one at a time holds the slot *)
(* that a model call needs, it is granted in order and never after a       *)
(* cancellation was asked for, and each job gets one verdict.  JobQueue    *)
(* implements it (JobQueueSlot).                                           *)
(***************************************************************************)
CONSTANTS
  Job,
  Ahead  \* pairs <<t, s>>: t must have had its turn, or lost it, before s starts

VARIABLES
  status, \* absent, queued, running or the verdict
  asked,  \* jobs whose cancellation was asked for
  busy    \* the job that holds the slot, if any

slotVars == <<status, asked, busy>>

Open == {"queued", "running"}

SlotInit ==
  /\ status = [s \in Job |-> "absent"]
  /\ asked = {} /\ busy = {}

Submit(s) ==
  /\ status[s] = "absent"
  /\ status' = [status EXCEPT ![s] = "queued"]
  /\ UNCHANGED <<asked, busy>>

Ask(s) ==
  /\ status[s] \in Open
  /\ asked' = asked \cup {s}
  /\ UNCHANGED <<status, busy>>

(* Recovery: any number of jobs that do not hold the slot are closed, as    *)
(* cancelled only when somebody asked.                                      *)
Closes(t) ==
  /\ status[t] \in Open /\ t \notin busy
  /\ status'[t] \in {"failed", "cancelled"}
  /\ status'[t] = "cancelled" => t \in asked

Recover ==
  /\ \A t \in Job : status'[t] = status[t] \/ Closes(t)
  /\ UNCHANGED <<asked, busy>>

(* The slot is free, nobody asked for this job to be cancelled, and every   *)
(* job ahead of it is past waiting; whatever was dead is closed with it.    *)
Start(s) ==
  /\ status[s] = "queued" /\ s \notin asked /\ busy = {}
  /\ status'[s] = "running" /\ busy' = {s}
  /\ \A t \in Job \ {s} :
       /\ status'[t] = status[t] \/ Closes(t)
       /\ <<t, s>> \in Ahead => status'[t] \notin {"absent", "queued"}
  /\ UNCHANGED asked

(* The holder reports.                                                      *)
Report(s) ==
  /\ s \in busy
  /\ \E verdict \in {"completed", "failed"} : status' = [status EXCEPT ![s] = verdict]
  /\ busy' = busy \ {s}
  /\ UNCHANGED asked

(* Gives up waiting, was never launched, or is written off by an operator.  *)
WriteOff(s) ==
  /\ status[s] \in Open
  /\ \E verdict \in {"failed", "queue-timeout"} :
       /\ verdict = "queue-timeout" => status[s] = "queued"
       /\ status' = [status EXCEPT ![s] = verdict]
  /\ busy' = busy \ {s}
  /\ UNCHANGED asked

(* The holder is gone without a word. *)
Vanish(s) ==
  /\ s \in busy
  /\ busy' = busy \ {s}
  /\ UNCHANGED <<status, asked>>

SlotNext ==
  \/ \E s \in Job : Submit(s) \/ Ask(s) \/ Start(s) \/ Report(s) \/ WriteOff(s) \/ Vanish(s)
  \/ Recover

SlotSpec == SlotInit /\ [][SlotNext]_slotVars
=============================================================================
