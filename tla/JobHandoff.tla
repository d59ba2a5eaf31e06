----------------------------- MODULE JobHandoff -----------------------------
(***************************************************************************)
(* What passes from a submission to its worker, the database both open     *)
(* (JobStore) and the row one leaves in it for the other (JobAuth), and    *)
(* what other commands meanwhile make of the table of rows (QueueTable).   *)
(***************************************************************************)
EXTENDS JobStore, JobAuth, QueueTable

StoreIdle ==
  /\ dirs = [d \in {"state", "logs"} |-> "tight"] /\ db = NoDatabase /\ began = db /\ lock = Unlocked
  /\ pc = [p \in Processes |-> "nothing"]
  /\ seen = [p \in Processes |-> 0] /\ retries = [p \in Processes |-> 0]

Init ==
  \/ StoreInit /\ AuthIdle /\ TableIdle
  \/ StoreIdle /\ AuthInit /\ TableIdle
  \/ StoreIdle /\ AuthIdle /\ TableInit

vars == <<storeVars, configVars, authVars, tableVars>>

Next ==
  \/ StoreNext /\ UNCHANGED <<configVars, authVars, tableVars>>
  \/ AuthNext /\ UNCHANGED <<storeVars, tableVars>>
  \/ TableNext /\ UNCHANGED <<storeVars, configVars, authVars>>

Spec == Init /\ [][Next]_vars
=============================================================================
