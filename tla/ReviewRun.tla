----------------------------- MODULE ReviewRun -----------------------------
(***************************************************************************)
(* A review from its command line to what it tells (cmd-review.mjs         *)
(* `reviewFlow`): the provider, the target, the model and its window, the  *)
(* size of the request, the passes.  Each stage hands on only what the     *)
(* next ones use and lets the rest go.  What a pass reports is abstract in *)
(* ReviewPasses, so the two readers that the text of a reply goes through, *)
(* sse.mjs (SseParser) and the search for findings (FindingsReading), are  *)
(* behaviours of their own here, each of one text.  And of the requests    *)
(* that its passes build, one is followed through its sizing, while the    *)
(* passes take any that such a sizing may come to (RequestIsAdmitted).     *)
(***************************************************************************)
EXTENDS ProviderConfig, ModelChoice, ReviewTarget, ReviewSizing, ReviewPasses,
        SseParser, FindingsReading

VARIABLES
  stage,    \* "config", "target", "choice", "sizing" or "passes", what came of one, or "text"
  known     \* what the stages so far have found out

runVars == <<stage, known>>
reviewVars == <<configVars, targetVars, choiceVars, sizeVars, passesVars, runVars>>
vars == <<reviewVars, sseVars, readVars>>

NothingKnown == [window |-> FALSE]

NoStream ==
  /\ text = <<>> /\ sent = 0 /\ buffer = <<>> /\ data = <<>> /\ events = <<>>
  /\ done = FALSE /\ ended = TRUE

NoReply ==
  /\ content = <<>> /\ reasoning = <<>> /\ structured = FALSE /\ cut = FALSE
  /\ outcome = [kind |-> "none"]

Init ==
  /\ TargetIdle /\ ChoiceIdle /\ SizeIdle /\ PassesIdle /\ known = NothingKnown
  /\ \/ stage = "config" /\ ConfigInit /\ NoStream /\ NoReply
     \/ stage = "text" /\ ConfigIdle /\ SseInit /\ NoReply
     \/ stage = "text" /\ ConfigIdle /\ NoStream /\ ReadInit

-----------------------------------------------------------------------------
Configure ==
  /\ stage = "config" /\ ConfigNext
  /\ UNCHANGED <<targetVars, choiceVars, sizeVars, passesVars, runVars>>

(* There is a profile: `collectTarget`.                                     *)
Resolved ==
  /\ stage = "config" /\ profile.kind = "profile"
  /\ EndConfig
  /\ stage' = "resolved"
  /\ UNCHANGED <<targetVars, choiceVars, sizeVars, passesVars, known>>

Target ==
  /\ stage = "resolved" /\ BeginTarget
  /\ stage' = "target"
  /\ UNCHANGED <<configVars, choiceVars, sizeVars, passesVars, known>>

Collect ==
  /\ stage = "target" /\ TargetNext
  /\ UNCHANGED <<configVars, choiceVars, sizeVars, passesVars, runVars>>

(* There is a target: `resolveTarget`.                                      *)
HasTarget ==
  /\ stage = "target" /\ Collected
  /\ known' = [changed |-> Changed # {}, claims |-> ClaimsWhole, hasDiff |-> diff # {},
               deletionsOnly |-> DeletionsOnly, unread |-> unreadable # {}]
  /\ EndTarget
  /\ stage' = "collected"
  /\ UNCHANGED <<configVars, choiceVars, sizeVars, passesVars>>

Choice ==
  /\ stage = "collected" /\ BeginChoice
  /\ stage' = "choice"
  /\ UNCHANGED <<configVars, targetVars, sizeVars, passesVars, known>>

Describe ==
  /\ stage = "choice" /\ ChoiceNext
  /\ UNCHANGED <<configVars, targetVars, sizeVars, passesVars, runVars>>

(* There is a model: `requestFindings`.  A window that is known may be any. *)
HasModel ==
  /\ stage = "choice" /\ choice.kind = "chosen"
  /\ known' = [changed |-> known.changed, claims |-> known.claims, hasDiff |-> known.hasDiff,
               deletionsOnly |-> known.deletionsOnly, unread |-> known.unread,
               window |-> choice.window # No]
  /\ EndChoice
  /\ stage' = "chosen"
  /\ UNCHANGED <<configVars, targetVars, sizeVars, passesVars>>

(* The request of one pass, through the ladder.                             *)
Size ==
  /\ stage = "chosen"
  /\ \E window \in Windows :
       /\ known.window <=> window # 0
       /\ BeginSizing(window, [changed |-> known.changed, claims |-> known.claims,
                               hasDiff |-> known.hasDiff, deletionsOnly |-> known.deletionsOnly])
  /\ stage' = "sizing" /\ known' = NothingKnown
  /\ UNCHANGED <<configVars, targetVars, choiceVars, passesVars>>

Fit ==
  /\ stage = "sizing" /\ SizeNext
  /\ UNCHANGED <<configVars, targetVars, choiceVars, passesVars, runVars>>

(* What narrowed a request, and what one for this target may be narrowed by: *)
(* in a window that nothing could size, always the same; else by the rung it *)
(* went by and by what was cut of its reply.                                *)
NotesOf(asked) ==
  (IF asked.hunksOnly THEN {"hunks only"} ELSE {})
    \cup (IF asked.conservativeReserveCut THEN {"conservative cut"} ELSE {})
    \cup (CASE asked.skipped = "unsized-window"     -> {"unsized window"}
            [] asked.skipped = "conservative-count" -> {"conservative count"}
            [] OTHER                                  -> {})

RequestNotes(sizable, target) ==
  LET alone == IF target.hasDiff /\ ~target.deletionsOnly THEN {"hunks only"} ELSE {}
      rungs == IF target.changed THEN {{}, alone, alone \cup {"conservative count"}} ELSE {alone}
  IN  IF sizable THEN rungs \cup {rung \cup {"conservative cut"} : rung \in rungs}
      ELSE {IF target.changed THEN alone \cup {"unsized window"} ELSE alone}

(* The run of passes (`runMultiPass`).  Target, model and window are the    *)
(* run's; the plan, the lens in its text and the request are each pass's    *)
(* own, so a pass is narrowed by what it may be (RequestIsAdmitted).  A      *)
(* --max-tokens that can hold no review is refused before any.              *)
Ask ==
  /\ stage = "chosen" /\ BeginPasses(known.unread, RequestNotes(known.window, known))
  /\ stage' = "passes" /\ known' = NothingKnown
  /\ UNCHANGED <<configVars, targetVars, choiceVars, sizeVars>>

Review ==
  /\ stage = "passes" /\ PassesNext
  /\ UNCHANGED <<configVars, targetVars, choiceVars, sizeVars, runVars>>

ReviewNext ==
  \/ Configure \/ Resolved \/ Target \/ Collect \/ HasTarget \/ Choice \/ Describe \/ HasModel
  \/ Size \/ Fit \/ Ask \/ Review

Next ==
  \/ ReviewNext /\ UNCHANGED <<sseVars, readVars>>
  \/ SseNext /\ UNCHANGED <<reviewVars, readVars>>
  \/ ReadNext /\ UNCHANGED <<reviewVars, sseVars>>

Spec == Init /\ [][Next]_vars

-----------------------------------------------------------------------------
(* Requests of one run may differ in what narrowed them, but only so far: a *)
(* window is sized for all of them or for none, so the two reasons to have  *)
(* skipped the whole files never meet in one run, and no reply budget is    *)
(* cut where there is no window to cut it for; whatever the texts, the      *)
(* budgets asked for, a schema refused or a lower budget stated.  The run's *)
(* one skip (runCauses) and the silence of a pass's line about the window   *)
(* (causeNote) rest on it.  (review-ladder.mjs prepareLadder, delegate.mjs  *)
(* prepareRequest)                                                          *)
RequestIsAdmitted ==
  sizing = "sized" => NotesOf(built) \in RequestNotes(job.window # 0, job.target)
=============================================================================
