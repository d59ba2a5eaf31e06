---------------------------- MODULE SweepReading ----------------------------
(***************************************************************************)
(* What a sweep makes of what it has in hand: of a review's output         *)
(* (sweep-outcome.mjs, outcome.mjs), of its own ledger read back           *)
(* (sweep-ledger.mjs, recover-sweep.mjs), of the night as a whole          *)
(* (sweep-health.mjs, sweep-report.mjs) and of two nights together         *)
(* (sweep-reproduction.mjs).                                               *)
(***************************************************************************)
EXTENDS Naturals, Sequences, SequencesExt, FiniteSets

CONSTANTS
  Requested,    \* the id the night asks for
  AbortAfter    \* --abort-after

NoModel == "(no model)"
NoReason == "(no reason)"

-----------------------------------------------------------------------------
(* A review's output: whether it outgrew the capture, its exit status, and  *)
(* what its stdout held, with an id the server confirmed or only echoed.    *)
REVIEWED == {"findings", "clean"}
STARVED_REASONS == {"token-exhaustion", "token-reserve-cutoff", "reasoning-only"}

ServerUnwell(reason) ==
  reason \in {"transport", "non-retryable-transport", "empty-completion", "stream-unfinished",
              "blank-completion", "idle-timeout"}

IsOutage(entry) ==
  \/ entry.outcome = "crashed"
  \/ entry.outcome = "failed" /\ (entry.reason = NoReason \/ ServerUnwell(entry.reason))

(* `declaredMatch` and `substitution`.                                      *)
DeclaredMatch(of) == of.declared # NoModel /\ of.model = of.declared /\ of.model # Requested
Substituted(report) == report.model \notin {NoModel, Requested} /\ ~DeclaredMatch(report)

Unanswered(outcome, reason) ==
  [outcome |-> outcome, reason |-> reason, findings |-> "unread", model |-> NoModel,
   declared |-> NoModel, reported |-> FALSE, cut |-> FALSE, answered |-> FALSE]

(* `reported`, and the verdict that overrides it; the facts stay.           *)
VerdictByFindings(report) == \* mutant: the findings list alone is read
  IF Substituted(report) THEN "substituted"
  ELSE IF report.findings = "unread" THEN "unreadable"
  ELSE IF report.findings = "some" THEN "findings" ELSE "clean"

Verdict(report) ==
  IF Substituted(report) THEN "substituted"
  ELSE IF report.findings = "unread" THEN "unreadable"
  ELSE IF report.cut THEN "truncated"
  ELSE IF report.findings = "some" THEN "findings" ELSE "clean"

Reported(report) ==
  [outcome |-> Verdict(report), reason |-> IF Substituted(report) THEN "model-substituted" ELSE NoReason,
   findings |-> report.findings, model |-> report.model, declared |-> report.declared,
   reported |-> report.reported, cut |-> report.cut, answered |-> TRUE]

Classify(reply) ==
  IF reply.overflow THEN Unanswered("output-too-large", NoReason)
  ELSE IF reply.doc = "garbled"
    THEN Unanswered(IF reply.status = 0 THEN "unreadable" ELSE "crashed", NoReason)
  ELSE IF reply.doc = "envelope"
    THEN Unanswered(IF reply.reason \in STARVED_REASONS THEN "starved" ELSE "failed", reply.reason)
  ELSE Reported(reply)

(* What the loop settles: a commit, and what came of it.  Only a review that *)
(* was started has the time it was started at.                              *)
EntryOf(facts, sha, attempted) ==
  [sha |-> sha, attempted |-> attempted, outcome |-> facts.outcome, reason |-> facts.reason,
   findings |-> facts.findings, model |-> facts.model, declared |-> facts.declared,
   reported |-> facts.reported, cut |-> facts.cut, answered |-> facts.answered]

-----------------------------------------------------------------------------
(* The ledger's lines, in a file that is newlines and what is between them. *)
(* A write that fails part-way leaves what it began with.                   *)
Newline == [kind |-> "newline"]
Fragment == [kind |-> "fragment"]
HeaderLine(envelope) == [kind |-> "header", envelope |-> envelope]
EntryLine(entry) == [kind |-> "entry", entry |-> entry]
GapLine(sha) == [kind |-> "gap", sha |-> sha]

Terminated(line) == <<line, Newline>> \* mutant: the newline comes after the record
Written(line) == <<Newline, line>>
Torn(bytes) == IF Head(bytes) = Newline THEN <<Newline, Fragment>> ELSE <<Fragment>>

(* `readLedger`.  A blank line is nothing; a line of anything but one whole *)
(* record is discarded, and so is every header but the first.               *)
Lines(file) == {n \in DOMAIN file : file[n] # Newline /\ (n = 1 \/ file[n - 1] = Newline)}
Whole(file) == {n \in Lines(file) : file[n] # Fragment /\ (n = Len(file) \/ file[n + 1] = Newline)}
Records(file, kind) == {n \in Whole(file) : file[n].kind = kind}

ReadLedger(file) ==
  LET headers == Records(file, "header") IN
  [headed |-> headers # {},
   envelope |-> IF headers # {} THEN file[Min(headers)].envelope ELSE [commits |-> <<>>],
   entries |-> [n \in Records(file, "entry") |-> file[n].entry],
   gaps |-> {file[n].sha : n \in Records(file, "gap")},
   discarded |-> (Lines(file) \ Whole(file)) \cup {n \in headers : \E m \in headers : m < n}]

(* `mergeManifest`: every enumerated commit, disposed of once; of several    *)
(* entries the last.                                                        *)
At(entries, sha) == {n \in DOMAIN entries : entries[n].sha = sha}
LastAt(entries, sha) == entries[Max(At(entries, sha))]

Absence(sha, outcome) == EntryOf(Unanswered(outcome, NoReason), sha, FALSE)

MergedByEntry(ledger) == \* mutant: what has no entry is taken for lost
  [n \in DOMAIN ledger.envelope.commits |->
     LET sha == ledger.envelope.commits[n].sha IN
     IF At(ledger.entries, sha) # {} THEN LastAt(ledger.entries, sha) ELSE Absence(sha, "unrecorded")]

MergeManifest(ledger) ==
  [n \in DOMAIN ledger.envelope.commits |->
     LET sha == ledger.envelope.commits[n].sha IN
     IF At(ledger.entries, sha) # {} THEN LastAt(ledger.entries, sha)
     ELSE Absence(sha, IF sha \in ledger.gaps THEN "unrecorded" ELSE "unobserved")]

Missing(entry) == entry.outcome \in {"unobserved", "unrecorded"}

(* The health timeline is whole when what is missing was never attempted.   *)
CompleteWhenUnlost(ledger, merged) == \* mutant: only a declared or a torn hole counts
  ledger.gaps = {} /\ ledger.discarded = {}
TimelineComplete(ledger, merged) ==
  \A n \in DOMAIN merged : Missing(merged[n]) => ~ledger.envelope.commits[n].eligible

RecoveredRecord(ledger) ==
  [kind |-> "recovered", entries |-> MergeManifest(ledger),
   timelineComplete |-> TimelineComplete(ledger, MergeManifest(ledger))]

-----------------------------------------------------------------------------
(* `replayStreak`, over the commits that were attempted.                    *)
Quiet == [streak |-> 0, longest |-> 0, resets |-> 0, outages |-> 0]

Judged(s, entry) ==
  IF IsOutage(entry)
    THEN [s EXCEPT !.streak = @ + 1, !.outages = @ + 1,
                   !.longest = IF s.streak + 1 > @ THEN s.streak + 1 ELSE @]
    ELSE [s EXCEPT !.streak = 0, !.resets = @ + (IF s.streak > 0 THEN 1 ELSE 0)]

CountedOfAll(s, entry) == Judged(s, entry) \* mutant: commits that were skipped are replayed too
Counted(s, entry) == IF entry.attempted THEN Judged(s, entry) ELSE s

Replay(entries) ==
  LET after[n \in 0..Len(entries)] == IF n = 0 THEN Quiet ELSE Counted(after[n - 1], entries[n])
  IN  after

ReplayStreak(entries) == Replay(entries)[Len(entries)]

(* Where the report has an entry: findings, nothing reported, or coverage,  *)
(* where what a disqualified reply reported is still shown; and whether it  *)
(* has words for why.                                                       *)
Section(entry) ==
  IF entry.outcome \notin REVIEWED THEN "coverage"
  ELSE IF entry.findings = "some" THEN "findings" ELSE "nothing reported"

WHY == {"starved", "failed", "truncated", "unreadable", "substituted", "crashed", "output-too-large",
        "skipped-deadline", "skipped-abort", "skipped-no-code", "unobserved", "unrecorded"}

Explained(entry) == Section(entry) = "coverage" => entry.outcome \in WHY

-----------------------------------------------------------------------------
(* Two nights: one run's identity, and what they agree on.                  *)
Unknown == "(unknown)"

ObservedModel(entries) ==
  LET answered  == {e \in Range(entries) : e.answered}
      answerers == {e.model : e \in answered}
  IN  IF \/ ~ \E e \in answered : e.outcome \in REVIEWED
         \/ \E e \in answered : ~e.reported \/ e.model = NoModel
         \/ Cardinality(answerers) # 1
      THEN Unknown ELSE CHOOSE m \in answerers : TRUE

IntactByGaps(ledger) == ledger.gaps = {} \* mutant: a line that did not parse is no loss
Intact(ledger) ==
  /\ ledger.gaps = {} /\ ledger.discarded = {}
  /\ \A m, n \in DOMAIN ledger.entries : ledger.entries[m].sha = ledger.entries[n].sha => m = n

Verified(entries) == \A e \in Range(entries) : e.model # NoModel => e.reported /\ ~DeclaredMatch(e)

(* `groupRuns` and `reproductionOf`, of two runs: they are taken together    *)
(* when the model observed and the setup are equal, and suppressed when a    *)
(* soft axis (SOFT_AXES) that both headers carry differs.  A header written  *)
(* before the envelope grew lacks an axis, and suppresses nothing by it.     *)
Groupable(ledger) == ledger.headed /\ Intact(ledger) /\ ObservedModel(ledger.entries) # Unknown

Diverge(a, b) == \E axis \in DOMAIN a.soft \cap DOMAIN b.soft : a.soft[axis] # b.soft[axis]

Grouped(a, b) ==
  /\ Groupable(a) /\ Groupable(b)
  /\ a.envelope.setup = b.envelope.setup
  /\ ObservedModel(a.entries) = ObservedModel(b.entries)
  /\ ~Diverge(a.envelope, b.envelope)

OutcomeIn(ledger, sha) ==
  IF At(ledger.entries, sha) = {} THEN "unobserved" ELSE LastAt(ledger.entries, sha).outcome

Row(a, b, sha) ==
  LET reviewing == {l \in {"a", "b"} : OutcomeIn(IF l = "a" THEN a ELSE b, sha) \in REVIEWED}
      finding   == {l \in reviewing : OutcomeIn(IF l = "a" THEN a ELSE b, sha) = "findings"}
  IN  [n |-> Cardinality(reviewing), k |-> Cardinality(finding)]

Reproduced(a, b, sha) == Row(a, b, sha).n >= 2 /\ Row(a, b, sha).k \in {0, Row(a, b, sha).n}
=============================================================================
