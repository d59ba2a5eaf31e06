----------------------------- MODULE MCJobQueue -----------------------------
(* Small instances of JobQueue for TLC. *)
EXTENDS JobQueueSlot

LookOnly       == {Look}
LookAndCancel1 == {Look, 1}
=============================================================================
