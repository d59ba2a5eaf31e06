---------------------------- MODULE ReviewPasses ----------------------------
(***************************************************************************)
(* The passes of a review and what its reader is told of them: cmd-review  *)
(* asks pass after pass, review-passes merges or refuses what came of      *)
(* them, and review-report and review say it.  A note is something that    *)
(* narrows or qualifies a pass.                                            *)
(***************************************************************************)
EXTENDS Naturals, FiniteSets, Sequences, SequencesExt

CONSTANTS
  MaxPasses,    \* bound: the passes of a run
  Replies,      \* the findings a pass may report: sequences of [at, severity]
  OwnNotes      \* the notes a pass may have of its own: sets of them

NoLine == "no line"
Severities == <<"high", "medium", "low">>
SkipNotes == {"unsized window", "conservative count"}
CauseNotes == SkipNotes \cup {"conservative cut"}
WindowNotes == CauseNotes \cup {"hunks only"}
ReplyNotes == {"salvaged", "at cap", "analysis cut", "dropped", "degraded"}

ASSUME PassesAssumption ==
  /\ MaxPasses \in Nat \ {0} /\ OwnNotes \subseteq SUBSET ReplyNotes
  /\ \A findings \in Replies : \A f \in ToSet(findings) :
       f = [at |-> f.at, severity |-> f.severity] /\ f.severity \in ToSet(Severities)

VARIABLES
  plan,         \* [passes, lensed, unread, declares, requests]: of the requests a pass
                \* may send, the notes that each carries
  passes,       \* what came of each
  told          \* what the run ends with

passesVars == <<plan, passes, told>>

NoPlan == [passes |-> 0]
Silent == [kind |-> "silent"]

-----------------------------------------------------------------------------
(* One pass: findings, a reply that holds none, or an error.                *)
Pass(kind, findings, served, notes) ==
  [kind |-> kind, findings |-> findings, served |-> served, notes |-> notes]

IsReadable(pass) == pass.kind = "found"
Readable == {i \in DOMAIN passes : IsReadable(passes[i])}
Multi == plan.passes > 1 \/ plan.lensed
Asked == plan.passes > 0 /\ Len(passes) = plan.passes

(* `passReason` and `unparsedReply`: a reply cut short or empty has a       *)
(* reason of its own, any other is shown as it is.                          *)
Reason(pass) == CASE pass.kind = "prose" -> "unreadable"
                  [] pass.kind = "cut"   -> "token-exhaustion"
                  [] OTHER               -> pass.kind

(* `recordedCauses`: every reply has them, an error those of its request.   *)
Recorded(pass) == pass.kind # "not sent"
Recording == {i \in DOMAIN passes : Recorded(passes[i])}
Causes(pass) == pass.notes \cap (WindowNotes \cup {"salvaged"})

(* `runCauses`: each fact of any pass, and the first skip for the run's.    *)
SkipOf(S) == \* a set of notes, for the first of these passes that has one
  LET skipping == {i \in S : passes[i].notes \cap SkipNotes # {}}
      first == CHOOSE i \in skipping : \A j \in skipping : i <= j
  IN  IF skipping = {} THEN {} ELSE passes[first].notes \cap SkipNotes

RunCausesOfFirst == passes[1].notes \cap WindowNotes \* mutant: the first pass speaks for all
RunCauses ==
  SkipOf(Recording) \cup UNION {passes[i].notes \cap {"conservative cut", "hunks only"} : i \in Recording}

-----------------------------------------------------------------------------
(* `servedModelFailure`.                                                    *)
Declared(pass) == pass.served = "declared" /\ plan.declares
Substituted(pass) == pass.served \notin {"requested", "unnamed"} /\ ~Declared(pass)
Measured(pass) == IF Declared(pass) THEN "requested" ELSE pass.served

FailureOfNone == "none" \* mutant: only a run of one pass is checked for a substituted model
ServedModelFailure ==
  LET bad == {i \in Readable : passes[i].served = "unnamed" \/ Substituted(passes[i])}
      first == CHOOSE i \in bad : \A j \in bad : i <= j
  IN  IF bad # {} THEN IF passes[first].served = "unnamed" THEN "unconfirmed" ELSE "disagreement"
      ELSE IF Cardinality({Measured(passes[i]) : i \in Readable}) > 1 THEN "disagreement"
      ELSE "none"

(* `mergePasses`: a location is one finding, with a vote of each readable   *)
(* pass; what names no line stands alone.                                   *)
RankOf(severity) == CHOOSE i \in DOMAIN Severities : Severities[i] = severity
MostSevere(severities) == CHOOSE s \in severities : \A t \in severities : RankOf(s) <= RankOf(t)

At(i, location) == {f \in ToSet(passes[i].findings) : f.at = location}
Located == (UNION {{f.at : f \in ToSet(passes[i].findings)} : i \in Readable}) \ {NoLine}

MergedCounting(location) == \* mutant: every finding at a place is a vote
  [at |-> location,
   agreement |-> FoldSet(LAMBDA i, n : n + Cardinality(At(i, location)), 0, Readable),
   by |-> {i \in Readable : At(i, location) # {}},
   severity |-> MostSevere({f.severity : f \in UNION {At(i, location) : i \in Readable}})]
Merged(location) ==
  LET voters == {i \in Readable : At(i, location) # {}}
  IN  [at |-> location, agreement |-> Cardinality(voters), by |-> voters,
       severity |-> MostSevere({MostSevere({f.severity : f \in At(i, location)}) : i \in voters})]

MergePasses ==
  {Merged(l) : l \in Located}
    \cup UNION {{[at |-> NoLine, agreement |-> 1, by |-> {i}, severity |-> f.severity] : f \in At(i, NoLine)}
                : i \in Readable}

-----------------------------------------------------------------------------
(* `caveats`: what is written below the findings; `caveatUnion` is of the   *)
(* passes whose findings they are.                                          *)
UnreadFiles == IF plan.unread THEN {"unread file"} ELSE {}
CaveatsOfFirst == UnreadFiles \cup passes[CHOOSE i \in Readable : \A j \in Readable : i <= j].notes \* mutant
CaveatUnion == UnreadFiles \cup UNION {passes[i].notes : i \in Readable}
Written(notes) == notes \ {"degraded"}

LineOfReadable(pass) == \* mutant: what narrowed a failed pass is not on its line
  [reason |-> IF IsReadable(pass) THEN "none" ELSE Reason(pass), substituted |-> FALSE,
   notes |-> IF IsReadable(pass) THEN pass.notes ELSE {}]

(* `passSummary`: a line for each pass.                                     *)
LineOf(pass) ==
  IF IsReadable(pass)
    THEN [reason |-> "none", substituted |-> FALSE,
          notes |-> pass.notes \cap {"salvaged", "conservative count", "conservative cut",
                                     "analysis cut", "at cap", "hunks only"}]
    ELSE [reason |-> Reason(pass), substituted |-> pass.kind \in {"prose", "cut", "empty"} /\ pass.served # "unnamed" /\ Substituted(pass),
          notes |-> IF Recorded(pass)
                      THEN pass.notes \cap ({"conservative count", "conservative cut"}
                                              \cup IF pass.kind \in {"prose", "cut", "empty"} THEN {"salvaged"} ELSE {})
                      ELSE {}]

(* `errorReport` and the notes `noteCauses` adds to what is printed.        *)
FailedRun(reason, causes) ==
  [kind |-> "failed", reason |-> reason, json |-> causes,
   text |-> causes \cap {"conservative count", "conservative cut"}]

(* `report`, of a run of one pass.                                          *)
ReportSingle(pass) ==
  CASE pass.kind = "found" ->
         [kind |-> "findings", findings |-> ToSet(pass.findings), lines |-> <<>>,
          substituted |-> Substituted(pass), text |-> Written(CaveatUnion), json |-> CaveatUnion]
    [] pass.kind = "prose" ->
         [kind |-> "verbatim", substituted |-> Substituted(pass),
          text |-> UnreadFiles \cup Causes(pass), json |-> UnreadFiles \cup (pass.notes \ {"dropped"})]
    [] OTHER -> FailedRun(Reason(pass), IF Recorded(pass) THEN Causes(pass) ELSE {})

(* `runMultiPass` after its last pass.                                      *)
ReportPasses ==
  LET first == passes[1]
      salvaged == first.notes \cap {"salvaged"}
  IN  CASE Readable = {} ->
             FailedRun(IF first.kind = "prose" THEN "all-passes-unreadable" ELSE Reason(first),
                    IF Recording # {} THEN RunCauses \cup salvaged ELSE {})
        [] Readable # {} /\ ServedModelFailure # "none" -> FailedRun(ServedModelFailure, RunCauses)
        [] OTHER ->
             [kind |-> "findings", findings |-> MergePasses, lines |-> [i \in DOMAIN passes |-> LineOf(passes[i])],
              substituted |-> FALSE, text |-> Written(CaveatUnion), json |-> CaveatUnion]

-----------------------------------------------------------------------------
PassesIdle == plan = NoPlan /\ passes = <<>> /\ told = Silent

(* `reviewFlow`: --passes asks for so many, --lens for one of each lens.    *)
BeginPasses(unread, requests) ==
  /\ \E n \in 1..MaxPasses, lensed, declares \in BOOLEAN :
       plan' = [passes |-> n, lensed |-> lensed, unread |-> unread, declares |-> declares,
                requests |-> requests]
  /\ UNCHANGED <<passes, told>>

(* A pass is planned and asked with nothing left of the passes before it: by *)
(* its own rung, for its own reply budget, by a format of its own.  Its notes *)
(* are those of the last request it built.                                  *)
Answered ==
  /\ told = Silent /\ Len(passes) < plan.passes
  /\ \E request \in plan.requests, own \in OwnNotes,
        served \in {"requested", "other", "declared", "unnamed"} :
       \/ \E findings \in Replies :
            passes' = Append(passes, Pass("found", findings, served, own \cup request))
       \/ \E kind \in {"prose", "cut", "empty"} :
            passes' = Append(passes, Pass(kind, <<>>, served, (own \cap {"salvaged", "degraded"}) \cup request))
  /\ UNCHANGED <<plan, told>>

(* It fails with its request sent, or with none to send: refused here, be it *)
(* the first or one built again after the server refused the schema or the  *)
(* reply budget.                                                            *)
Errored ==
  /\ told = Silent /\ Len(passes) < plan.passes
  /\ \/ \E request \in plan.requests, salvaged \in SUBSET {"salvaged"} :
          passes' = Append(passes, Pass("error", <<>>, "unnamed", request \cup salvaged))
     \/ passes' = Append(passes, Pass("not sent", <<>>, "unnamed", {}))
  /\ UNCHANGED <<plan, told>>

Tell ==
  /\ told = Silent /\ Asked
  /\ told' = IF Multi THEN ReportPasses ELSE ReportSingle(passes[1])
  /\ UNCHANGED <<plan, passes>>

PassesNext == Answered \/ Errored \/ Tell

-----------------------------------------------------------------------------
(* The reader of findings is told everything that qualifies a pass they     *)
(* came from, whichever passes it held of, and in a run of several what     *)
(* became of every other pass and what had narrowed it, by the run's notes  *)
(* or on its own line; a clean result rests on a readable pass.  A run that *)
(* shows none says which of its passes, if any, a conservative count        *)
(* narrowed, and its JSON every cause that any pass recorded.  (review.mjs  *)
(* caveats, review-passes.mjs caveatUnion and runCauses, review-report.mjs  *)
(* passSummary)                                                             *)
NothingConcealed ==
  LET narrowed == UNION {passes[i].notes : i \in Recording}
  IN  /\ told.kind = "findings" =>
           /\ Readable # {}
           /\ \A i \in Readable : passes[i].notes \subseteq told.json /\ passes[i].notes \ {"degraded"} \subseteq told.text
           /\ plan.unread => "unread file" \in told.text \cap told.json
           /\ Multi => \A i \in DOMAIN passes : IsReadable(passes[i]) <=> told.lines[i].reason = "none"
           /\ Multi => \A i \in Recording : passes[i].notes \cap CauseNotes \subseteq told.text \cup told.lines[i].notes
      /\ told.kind \in {"verbatim", "failed"} =>
           /\ narrowed \cap {"conservative count", "conservative cut"} \subseteq told.text
           /\ narrowed \cap WindowNotes \subseteq told.json

(* The agreement of a merged finding is the number of passes that put one   *)
(* there, its severity the worst that any of them gave it, and no location  *)
(* is lost; and the passes merged all measured the one model that the run   *)
(* names.  (review-passes.mjs mergePasses, servedModelFailure)              *)
AgreementIsTrue ==
  told.kind = "findings" /\ Multi =>
    /\ \A i \in Readable : passes[i].served = "requested" \/ (passes[i].served = "declared" /\ plan.declares)
    /\ \A i \in Readable, f \in UNION {ToSet(passes[j].findings) : j \in Readable} :
         f \in ToSet(passes[i].findings) =>
           \E m \in told.findings : m.at = f.at /\ i \in m.by /\ RankOf(m.severity) <= RankOf(f.severity)
    /\ \A m \in told.findings :
         /\ m.agreement = Cardinality(m.by) /\ m.by \subseteq Readable
         /\ \E i \in m.by : [at |-> m.at, severity |-> m.severity] \in ToSet(passes[i].findings)
         /\ m.at # NoLine => \A i \in m.by : \E f \in ToSet(passes[i].findings) : f.at = m.at
=============================================================================
