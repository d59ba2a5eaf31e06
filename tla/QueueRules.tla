----------------------------- MODULE QueueRules -----------------------------
(***************************************************************************)
(* The pure rules of the background queue: what the owner of a row is      *)
(* doing, which queued row is at the front, and what one attempt to        *)
(* acquire the slot decides and collects on its way.  They are asked of a  *)
(* table of views: per sequence number what job-view.mjs `viewOf` reads,   *)
(* the row plus the liveness resolved for it.                              *)
(*                                                                         *)
(*   q \in [Job -> [state, cancel, liveness, known, ...]]                  *)
(*                                                                         *)
(* JobQueue asks them of the live system, QueueTable of every small table. *)
(***************************************************************************)
EXTENDS Integers

Active == {"queued", "running"}
Terminal == {"completed", "failed", "cancelled", "queue-timeout"}

LivenessKinds == {"live", "dead", "starting", "never-started", "malformed"}

(* A pid column against the OS: "none" is NULL, "unreadable" is a recorded  *)
(* value that is not a pid.  An age is the startup grace measured from      *)
(* `spawned_at ?? created_at`; "unreadable" is a timestamp that won't parse.*)
PidKinds == {"none", "live", "gone", "unreadable"}
AgeKinds == {"young", "old", "unreadable"}

LivenessOf(state, pid, age) ==
  CASE pid = "live"        -> "live"
    [] pid = "gone"        -> "dead"
    [] pid = "unreadable"  -> "malformed"
    [] pid = "none" /\ (state = "running" \/ age = "unreadable") -> "malformed"
    [] pid = "none" /\ state # "running" /\ age = "young" -> "starting"
    [] OTHER -> "never-started"

(* Whether a queued row holds the line: "head" is next to run, "blocks"     *)
(* may still come to something, "skip" never will.                          *)
SkipsStarting(liveness, known) == \* mutant: a spawn under way does not hold the line
  CASE liveness = "live" -> IF known THEN "head" ELSE "blocks"
    [] liveness = "malformed" -> "blocks"
    [] OTHER -> "skip"
SkipsNothing(liveness, known) == \* mutant: a row that will never run holds the line
  IF liveness = "live" /\ known THEN "head" ELSE "blocks"

QueuedRole(liveness, known) ==
  CASE liveness = "live" -> IF known THEN "head" ELSE "blocks"
    [] liveness \in {"starting", "malformed"} -> "blocks"
    [] OTHER -> "skip"

RunningIn(q) == {t \in DOMAIN q : q[t].state = "running"}
QueuedIn(q)  == {t \in DOMAIN q : q[t].state = "queued"}
Role(q, t)   == QueuedRole(q[t].liveness, q[t].known)

(* The scan stops at the first queued row it does not skip. *)
ScansPast(q, t) ==
  t \in QueuedIn(q) /\ \A u \in QueuedIn(q) : u <= t => Role(q, u) = "skip"
IsHead(q, t) ==
  /\ t \in QueuedIn(q) /\ Role(q, t) # "skip"
  /\ \A u \in QueuedIn(q) : u < t => Role(q, u) = "skip"

(* Every running row that is not provably dead refuses every caller. *)
RunningBlockers(q) == {t \in RunningIn(q) : q[t].liveness # "dead"}

Verdict(q, s) ==
  CASE q[s].state # "queued"    -> "gone"
    [] q[s].state = "queued" /\ q[s].cancel -> "cancelled"
    [] OTHER ->
         IF RunningBlockers(q) # {} THEN "blocked"
         ELSE IF \A t \in QueuedIn(q) : Role(q, t) = "skip" THEN "gone"
         ELSE IF IsHead(q, s) /\ Role(q, s) = "head" THEN "acquired"
         ELSE "blocked"

(* The rows the same transaction reconciles before it reaches its verdict: *)
(* dead running rows met before the first blocker, then the queued rows    *)
(* the scan skips.  Rows of an unknown version are left as they are.       *)
CollectedBy(q, s) ==
  IF q[s].state # "queued" \/ q[s].cancel THEN {}
  ELSE {t \in DOMAIN q :
          /\ q[t].known
          /\ \/ /\ t \in RunningIn(q) /\ q[t].liveness = "dead"
                /\ \A u \in RunningBlockers(q) : t < u
             \/ RunningBlockers(q) = {} /\ ScansPast(q, t)}

(* What a completed finish or a recovery can drain to: the question         *)
(* job-drain.mjs `couldDrain` asks about the table a write leaves behind.   *)
CouldDrain(q) ==
  /\ RunningBlockers(q) = {}
  /\ \E h \in QueuedIn(q) :
       /\ IsHead(q, h) /\ Role(q, h) = "head"
       /\ ~q[h].cancel
       /\ q[h].beat = "fresh"
       /\ ~q[h].expired
=============================================================================
