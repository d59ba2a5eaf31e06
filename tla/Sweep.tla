------------------------------- MODULE Sweep -------------------------------
(***************************************************************************)
(* The overnight sweep (review-sweep.mjs): it reviews commits one by one,  *)
(* puts each on disk as it settles, and writes its report last.  It may    *)
(* die between any two steps or in the middle of a write, and any write    *)
(* may fail; recover-sweep.mjs may be run on what is there at any moment.  *)
(***************************************************************************)
EXTENDS SweepReading

CONSTANTS
  History,      \* the commits there are, newest first: [sha, code]
  MaxCommits, ScanLimit,
  Soft,         \* what the header records of each soft axis
  Replies,      \* what one review may come back with
  MaxFaults,    \* bound: writes that fail
  Rival,        \* what a run of the same millisecond had put in the ledger
  Reference     \* another night's ledger

(* No commit is walked twice, the threshold is `positive`, and stdout held a *)
(* report, an error envelope or neither; a report names the model that      *)
(* answered, or else the one that was asked.                                *)
ASSUME SweepAssumption ==
  /\ History \in Seq(Range(History)) /\ \A c \in Range(History) : c.code \in BOOLEAN
  /\ \A m, n \in DOMAIN History : History[m].sha = History[n].sha => m = n
  /\ AbortAfter \in Nat \ {0}
  /\ \A reply \in Replies : /\ reply.doc \in {"report", "envelope", "garbled"}
                            /\ reply.doc = "report" => reply.model # NoModel

VARIABLES
  phase,        \* the sweep's next step
  settled,      \* entries, as runSweep holds them
  ledger,       \* the file: Absent or its pieces
  late,         \* the deadline has passed
  streak,       \* consecutiveOutage
  aborted,
  record,       \* the final record: "absent", "fragment" or "complete"
  faults,       \* writes that failed
  wrote,        \* commits whose entry's write succeeded
  traced        \* commits of which any byte was left

vars == <<phase, settled, ledger, late, streak, aborted, record, faults, wrote, traced>>

Absent == <<Fragment, Fragment>>   \* no file; never the content of one
Ended == {"done", "failed", "dead"}

-----------------------------------------------------------------------------
(* `enumerateCommits`: commits passed over are kept; the walk ends with     *)
(* enough that touch code.                                                  *)
Enumerated ==
  LET enough(n) == Cardinality({m \in 1..(n - 1) : History[m].code}) < MaxCommits
      walked    == {n \in 1..Len(History) : n <= ScanLimit /\ enough(n)}
  IN  [n \in 1..Cardinality(walked) |-> [sha |-> History[n].sha, eligible |-> History[n].code]]

Envelope == [commits |-> Enumerated, setup |-> "setup", soft |-> Soft]

Commit == Enumerated[Len(settled) + 1]

Init ==
  /\ phase = "open"
  /\ settled = <<>>
  /\ ledger \in {Absent, Rival}
  /\ late = FALSE /\ streak = 0 /\ aborted = FALSE
  /\ record = "absent"
  /\ faults = 0 /\ wrote = {} /\ traced = {}

(* A write is whole, or fails having left nothing or a part.                *)
WriteOk(line) == ledger' = ledger \o Written(line)
WriteFails(line) ==
  /\ faults < MaxFaults /\ faults' = faults + 1
  /\ ledger' \in {ledger, ledger \o Torn(Written(line))}

(* `createExclusively`, and the header, of which a failure ends the run.    *)
OpenShared == \* mutant: a ledger that is there is appended to
  /\ phase = "open"
  /\ ledger' = IF ledger = Absent THEN <<>> ELSE ledger
  /\ phase' = "header"
  /\ UNCHANGED <<settled, late, streak, aborted, record, faults, wrote, traced>>

OpenLedger ==
  /\ phase = "open"
  /\ IF ledger = Absent THEN ledger' = <<>> /\ phase' = "header"
     ELSE phase' = "failed" /\ UNCHANGED ledger
  /\ UNCHANGED <<settled, late, streak, aborted, record, faults, wrote, traced>>

WriteHeader ==
  /\ phase = "header"
  /\ \/ WriteOk(HeaderLine(Envelope)) /\ phase' = "next" /\ UNCHANGED faults
     \/ WriteFails(HeaderLine(Envelope)) /\ phase' = "failed"
  /\ UNCHANGED <<settled, late, streak, aborted, record, wrote, traced>>

DeadlinePasses ==
  /\ phase \notin Ended /\ ~late /\ late' = TRUE
  /\ UNCHANGED <<phase, settled, ledger, streak, aborted, record, faults, wrote, traced>>

(* One turn of the loop, in the order its conditions are asked in.          *)
Settle(facts, attempted) ==
  /\ settled' = Append(settled, EntryOf(facts, Commit.sha, attempted))
  /\ phase' = "entry"
  /\ UNCHANGED <<ledger, late, streak, aborted, record, faults, wrote, traced>>

AtCommit == phase = "next" /\ Len(settled) < Len(Enumerated)

SkipNoCode == AtCommit /\ ~Commit.eligible /\ Settle(Unanswered("skipped-no-code", NoReason), FALSE)
SkipAbort == AtCommit /\ Commit.eligible /\ aborted /\ Settle(Unanswered("skipped-abort", NoReason), FALSE)
SkipDeadline ==
  AtCommit /\ Commit.eligible /\ ~aborted /\ late /\ Settle(Unanswered("skipped-deadline", NoReason), FALSE)
Review ==
  /\ AtCommit /\ Commit.eligible /\ ~aborted /\ ~late
  /\ \E reply \in Replies : Settle(Classify(reply), TRUE)

(* The sink: the entry, or the far smaller line that says it was lost.      *)
Current == Last(settled)

Traced == traced' = IF ledger' = ledger THEN traced ELSE traced \cup {Current.sha}

WriteEntry ==
  /\ phase = "entry"
  /\ \/ WriteOk(EntryLine(Current)) /\ phase' = "count" /\ wrote' = wrote \cup {Current.sha} /\ UNCHANGED faults
     \/ WriteFails(EntryLine(Current)) /\ phase' = "gap" /\ UNCHANGED wrote
  /\ Traced
  /\ UNCHANGED <<settled, late, streak, aborted, record>>

WriteGap ==
  /\ phase = "gap"
  /\ \/ WriteOk(GapLine(Current.sha)) /\ UNCHANGED faults
     \/ WriteFails(GapLine(Current.sha))
  /\ phase' = "count" /\ Traced
  /\ UNCHANGED <<settled, late, streak, aborted, record, wrote>>

StopsEarly(n) == n + 1 >= AbortAfter \* mutant: one failure too few stops the night
StopsAfter(n) == n >= AbortAfter

CountOfAll == \* mutant: a commit that was skipped resets the streak
  /\ phase = "count"
  /\ streak' = IF IsOutage(Current) THEN streak + 1 ELSE 0
  /\ aborted' = (aborted \/ StopsAfter(streak'))
  /\ phase' = "next"
  /\ UNCHANGED <<settled, ledger, late, record, faults, wrote, traced>>

Count ==
  /\ phase = "count"
  /\ streak' = IF ~Current.attempted THEN streak ELSE IF IsOutage(Current) THEN streak + 1 ELSE 0
  /\ aborted' = (aborted \/ StopsAfter(streak'))
  /\ phase' = "next"
  /\ UNCHANGED <<settled, ledger, late, record, faults, wrote, traced>>

(* `writeSweep`: the report, then the record, truncated and then filled.    *)
WriteReport ==
  /\ phase = "next" /\ Len(settled) = Len(Enumerated)
  /\ \/ phase' = "record" /\ UNCHANGED faults
     \/ faults < MaxFaults /\ faults' = faults + 1 /\ phase' = "failed"
  /\ UNCHANGED <<settled, ledger, late, streak, aborted, record, wrote, traced>>

BeginRecord ==
  /\ phase = "record" /\ record' = "fragment" /\ phase' = "filling"
  /\ UNCHANGED <<settled, ledger, late, streak, aborted, faults, wrote, traced>>

FillRecord ==
  /\ phase = "filling"
  /\ \/ record' = "complete" /\ phase' = "done" /\ UNCHANGED faults
     \/ faults < MaxFaults /\ faults' = faults + 1 /\ phase' = "failed" /\ UNCHANGED record
  /\ UNCHANGED <<settled, ledger, late, streak, aborted, wrote, traced>>

(* Killed, in the middle of a write or not.                                 *)
Writing == CASE phase = "header" -> HeaderLine(Envelope)
             [] phase = "entry" -> EntryLine(Current)
             [] phase = "gap" -> GapLine(Current.sha)

Dies ==
  /\ phase \notin Ended /\ phase' = "dead"
  /\ \/ UNCHANGED <<ledger, traced>>
     \/ /\ phase \in {"header", "entry", "gap"}
        /\ ledger' = ledger \o Torn(Written(Writing))
        /\ traced' = IF phase = "header" THEN traced ELSE traced \cup {Current.sha}
  /\ UNCHANGED <<settled, late, streak, aborted, record, faults, wrote>>

Next ==
  \/ OpenLedger \/ WriteHeader \/ DeadlinePasses
  \/ SkipNoCode \/ SkipAbort \/ SkipDeadline \/ Review
  \/ WriteEntry \/ WriteGap \/ Count
  \/ WriteReport \/ BeginRecord \/ FillRecord
  \/ Dies

Spec == Init /\ [][Next]_vars

-----------------------------------------------------------------------------
(* recover-sweep.mjs, were it run now.  It changes nothing the sweep reads. *)
FinishedByFile == record # "absent" \* mutant: a record that is there is a record that is whole
FinishedRun == record = "complete"

Recovery ==
  IF ledger = Absent THEN [kind |-> "no ledger"]
  ELSE IF FinishedRun THEN [kind |-> "finished"]
  ELSE LET read == ReadLedger(ledger) IN
       IF ~read.headed THEN [kind |-> "no header"] ELSE RecoveredRecord(read)

Ours == ledger \notin {Absent, Rival}

(* Whenever the ledger is read, whatever writes failed or were torn before: *)
(* a night that did not end is recovered, every enumerated commit is there, *)
(* as it settled if its own write succeeded, `unrecorded` only if it was    *)
(* settled and lost; and nobody else's record is mixed into it.             *)
(* (sweep-ledger.mjs openLedger, readLedger; recover-sweep.mjs)             *)
RecoveryIsTrue ==
  LET r == Recovery IN
  /\ Ours /\ r.kind = "finished" => phase = "done" /\ Len(settled) = Len(Enumerated)
  /\ settled # <<>> /\ phase # "done" => r.kind = "recovered"
  /\ Ours /\ r.kind = "recovered" =>
       /\ DOMAIN r.entries = DOMAIN Enumerated
       /\ \A n \in DOMAIN Enumerated :
            LET row == r.entries[n] IN
            /\ row.sha = Enumerated[n].sha
            /\ ~Missing(row) => n <= Len(settled) /\ row = settled[n]
            /\ row.outcome = "unrecorded" => n <= Len(settled)
            /\ row.sha \in wrote => ~Missing(row)

(* The first n commits are what the loop's counter has seen: they end in    *)
(* its streak, and reached the threshold exactly if it stopped opening work. *)
CountedTo(n) ==
  /\ n \in 0..Len(settled)
  /\ Replay(settled)[n].streak = streak
  /\ (Replay(settled)[n].longest >= AbortAfter) = aborted

(* A night's health as it is replayed is what the sweep went through, at    *)
(* every step: a streak reached the threshold exactly if the sweep stopped  *)
(* opening work, but for the one commit that is on disk before it is        *)
(* counted, which a sweep killed there never counts.  What is recovered     *)
(* with no warning names every outage there was, and replays as the night   *)
(* itself does.  (sweep-health.mjs replayStreak; review-sweep.mjs runSweep; *)
(* recover-sweep.mjs)                                                       *)
HealthIsTrue ==
  LET r == Recovery
      last == Len(settled) IN
  /\ phase \notin {"entry", "gap", "count", "dead"} => CountedTo(last)
  /\ phase \in {"entry", "gap", "count"} => CountedTo(last - 1)
  /\ phase = "dead" => CountedTo(last) \/ CountedTo(last - 1)
  /\ Ours /\ r.kind = "recovered" /\ r.timelineComplete => ReplayStreak(r.entries) = ReplayStreak(settled)

(* The replay can hold an outage the loop never counted, "which is why a    *)
(* recovered record renders the incomplete-timeline warning"                *)
(* (sweep-health.mjs:61-63): of a sweep that died, what is recovered with   *)
(* no warning implies only the stop that was decided.                       *)
UncountedIsWarned ==
  LET r == Recovery IN
  phase = "dead" /\ Ours /\ r.kind = "recovered" /\ r.timelineComplete =>
    (ReplayStreak(r.entries).longest >= AbortAfter) = aborted

(* As many failures as stop a night, in a row but for commits passed over.  *)
ServerGone(entries, first, last) ==
  /\ Cardinality({m \in first..last : entries[m].attempted}) >= AbortAfter
  /\ \A m \in first..last : entries[m].attempted => IsOutage(entries[m])

(* Of a night that ended every enumerated commit is disposed of once, and   *)
(* for the reason it is given: reviewed only by a finished look of the      *)
(* model asked for, skipped for the deadline only after it, and for the     *)
(* server only after as many failures in a row; and each has its words.     *)
(* (sweep-outcome.mjs classify, review-sweep.mjs runSweep, sweep-report.mjs)*)
NightIsTrue ==
  /\ phase = "done" => [n \in DOMAIN settled |-> settled[n].sha] = [n \in DOMAIN Enumerated |-> Enumerated[n].sha]
  /\ \A n \in DOMAIN settled :
       LET e == settled[n]
       IN  /\ Explained(e)
           /\ e.outcome \in REVIEWED => e.findings # "unread" /\ ~e.cut /\ e.model \in {Requested, e.declared}
           /\ e.outcome = "skipped-deadline" => late
           /\ e.outcome = "skipped-abort" => \E m \in 1..(n - 1) : ServerGone(settled, m, n - 1)
           /\ (e.outcome = "skipped-no-code") = ~Enumerated[n].eligible

(* Two nights are taken together only when every reply that left a trace    *)
(* was the one model's, as confirmed by the server or so disclosed; and a   *)
(* commit counts as reproduced only where both reviewed it and agree.       *)
(* (sweep-reproduction.mjs signatureOf, groupRuns, reproductionOf)          *)
ReproductionIsTrue ==
  LET run == ReadLedger(ledger)
      other == ReadLedger(Reference)
      left == {e \in Range(settled) : e.sha \in traced /\ e.answered}
  IN  Ours /\ Grouped(run, other) =>
        /\ \A e \in left : e.model = ObservedModel(run.entries) /\ e.reported
        /\ Verified(run.entries) => \A e \in left : e.model = Requested
        /\ \A n \in DOMAIN settled :
             Reproduced(run, other, settled[n].sha) =>
               settled[n].outcome \in REVIEWED /\ settled[n].outcome = OutcomeIn(other, settled[n].sha)
=============================================================================
