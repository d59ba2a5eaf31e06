----------------------------- MODULE AnswerRetry -----------------------------
(***************************************************************************)
(* What one task, or one pass of a review, asks of the model, from its     *)
(* first request to the reply or the error it reports: attempts after a    *)
(* failure of delivery, smaller requests after a refused capability, a     *)
(* review's retry at a reply budget the server stated and its follow-ups   *)
(* from cut-off reasoning, all under one wall-clock cap and in one record  *)
(* of every request sent.                                                  *)
(*                                                                         *)
(* The process is single-threaded: time passes, and the server acts, only  *)
(* while a request is outstanding or a retry is paused for.  How a request *)
(* comes to end is the transport's; here any ending its outcome admits.     *)
(***************************************************************************)
EXTENDS RequestEnds, Naturals, Sequences

CONSTANTS
  MaxAttempts, \* requests one answer may cost when delivery fails
  Cap,         \* --max-seconds, in ticks from the first request; 0 for none
  SalvageCap,  \* SALVAGE_MAX_MS
  RetryDelay,  \* RETRY_DELAY_MS
  Durations,   \* bound: how long a request may take when nothing cuts it
  DeathReasons \* bound: the ways a request may die, some of AllDeathReasons

ASSUME AttemptsAssumption == MaxAttempts \in Nat \ {0}
ASSUME TimeAssumption ==
  /\ Cap \in Nat /\ SalvageCap \in Nat \ {0} /\ RetryDelay \in Nat
  /\ Durations \subseteq Nat

VARIABLES
  now,      \* ticks since the command's first request was composed
  entries,  \* the ledger: one entry per request on the wire
  dispatched, \* prompts the ledger believes the model has read
  awaiting, \* the refused entry whose replacement has still to go out, or 0
  removed,  \* capability rungs refused so far, shared by every call
  grammar,  \* response_format: "off", "on", or "rejected" once refused
  lowered,  \* the reply budget is already the one the server stated
  call,     \* the completion call under way
  step,     \* where it is
  failure,  \* what ended it
  original, \* the failure a salvage follow-up is trying to make good
  result    \* what the command reports

ledgerVars == <<entries, dispatched, awaiting>>
learntVars == <<removed, grammar, lowered>>
vars == <<now, ledgerVars, learntVars, call, step, failure, original, result>>

-----------------------------------------------------------------------------
(* What may be asked, and how it may end. *)

Rungs == {"stream_options", "stream"}
Capabilities == Rungs \cup {"response_format", "budget"}
Salvages == {"trimmed", "untrimmed"}
Kinds == {"task", "structured", "plain"} \cup Salvages

SalvageReasons == {"token-reserve-cutoff", "reasoning-only"}
Reasons ==
  AllDeathReasons \cup SalvageReasons
  \cup {"none", "oversize", "empty-answer", "request-too-large"}

(* An HTTP error status: the rungs its body names, whether it names         *)
(* response_format, whether it is a 413, and whether that states a smaller  *)
(* budget a review could still use.  A cap is read from a 413 only, and the *)
(* body of a 413 is never read for a capability.                            *)
Refusals ==
  {r \in [names: SUBSET Rungs, format: BOOLEAN, tooLarge: BOOLEAN, cap: BOOLEAN] :
     /\ r.cap => r.tooLarge
     /\ r.tooLarge => r.names = {} /\ ~r.format}

Contents == {"answer", "reasoning-only", "empty"}

Failed(reason) == [reason |-> reason, format |-> FALSE, cap |-> FALSE]
NoFailure == Failed("none")
NoResult == [kind |-> "none", reason |-> "none"]

ASSUME DeathsAssumption == DeathReasons \subseteq AllDeathReasons

-----------------------------------------------------------------------------
(* One completion call: chatCompletion and the negotiation it carries. *)

Spent(t, expires) == expires > 0 /\ t >= expires

OwnExpiry(kind) == IF Cap = 0 THEN 0 ELSE now + Cap \* mutant: a duration, armed again by every call

(* A salvage follow-up runs inside the review's own deadline.               *)
ExpiryOf(kind) ==
  IF kind \notin Salvages THEN Cap
  ELSE IF Cap > 0 /\ Cap <= now + SalvageCap THEN Cap ELSE now + SalvageCap

Apply(rung, offered) == IF rung = "stream" THEN offered \ Rungs ELSE offered \ {rung}

Body(kind) == Rungs \cup (IF kind = "structured" THEN {"response_format"} ELSE {})

FreshNegotiation(kind, gone) == Body(kind) \* mutant: each call climbs the ladder again
Negotiated(kind, gone) ==
  IF "stream" \in gone THEN Apply("stream", Body(kind)) ELSE Body(kind) \ gone

BudgetOf(kind, low) == IF kind \in {"structured", "plain"} /\ ~low THEN {"budget"} ELSE {}

(* The messages of a call: a grammar leaves them alone, the prose schema    *)
(* names the budget, and a follow-up carries the reasoning back.            *)
PromptOf(kind, low) == IF kind = "structured" THEN <<kind, FALSE>> ELSE <<kind, low>>

NewCall(kind, gone, low) ==
  [kind    |-> kind,
   attempt |-> 1,
   content |-> "none",
   expires |-> ExpiryOf(kind),
   prompt  |-> PromptOf(kind, low),
   offers  |-> Negotiated(kind, gone) \cup BudgetOf(kind, low)]

AttemptsOf(kind) == IF kind \in Salvages THEN 1 ELSE MaxAttempts

Init ==
  /\ now = 0
  /\ entries = <<>> /\ dispatched = {} /\ awaiting = 0
  /\ removed = {} /\ lowered = FALSE
  /\ \/ grammar = "off" /\ call \in {NewCall("task", {}, FALSE), NewCall("plain", {}, FALSE)}
     \/ grammar = "on" /\ call = NewCall("structured", {}, FALSE)
  /\ step = "composing"
  /\ failure = NoFailure /\ original = NoFailure /\ result = NoResult

-----------------------------------------------------------------------------
(* The ledger. *)

(* The replacement exists, so the refusal it replaces is one: the only      *)
(* place the outcome is written.                                            *)
Settled(log, slot) == IF slot = 0 THEN log ELSE [log EXCEPT ![slot].outcome = "refused"]

Entry ==
  [prompt |-> call.prompt, offers |-> call.offers, warm |-> call.prompt \in dispatched,
   outcome |-> "open", responded |-> FALSE,
   blamed |-> "none",                  \* history: the capability its refusal named
   heard |-> FALSE, read |-> FALSE]    \* history: what really happened to it

Begin ==
  /\ entries' = Append(Settled(entries, awaiting), Entry)
  /\ awaiting' = 0
  /\ UNCHANGED dispatched

Last == Len(entries)

Revise(entry) == entries' = [entries EXCEPT ![Last] = entry]

Settle ==
  /\ Revise([entries[Last] EXCEPT !.outcome = "answered", !.responded = TRUE,
                                  !.heard = TRUE, !.read = TRUE])
  /\ dispatched' = dispatched \cup {entries[Last].prompt}
  /\ UNCHANGED awaiting

(* A failure is weighed: a completion shape or model text prove that the    *)
(* prompt was read; those, or the transport's own flag, that a response was *)
(* obtained.                                                                *)
ReachedByBytes(d) == d.heard \* mutant: any byte counts as evidence that the prompt was read
ReachedTheModel(d) == d.reason \in Shapes \/ d.text

FlaggedOnly(d) == d.heard /\ d.reason \notin Shapes \* mutant: the transport's flag alone
ObtainedResponse(d) == (d.heard /\ d.reason \notin Shapes) \/ ReachedTheModel(d)

Fail(d) ==
  /\ Revise([entries[Last] EXCEPT !.outcome = "failed", !.responded = ObtainedResponse(d),
                                  !.heard = d.heard, !.read = d.read])
  /\ dispatched' = IF ReachedTheModel(d) THEN dispatched \cup {entries[Last].prompt} ELSE dispatched
  /\ UNCHANGED awaiting

Closed(outcome, capability) ==
  [entries[Last] EXCEPT !.outcome = outcome, !.responded = TRUE, !.heard = TRUE,
                        !.blamed = capability]

FailRefused == \* a status: answered, and not by the model
  Revise(Closed("failed", "none")) /\ UNCHANGED <<dispatched, awaiting>>

(* Closed as the failure it is until its replacement goes out.              *)
PendUntilReplaced(capability) ==
  Revise(Closed("failed", capability)) /\ awaiting' = Last /\ UNCHANGED dispatched

MarkUnanswered ==
  Revise([entries[Last] EXCEPT !.outcome = "failed"]) /\ UNCHANGED <<dispatched, awaiting>>

-----------------------------------------------------------------------------
(* Sending, and what comes back. *)

Starts(next) == call' = next /\ step' = "composing" /\ failure' = NoFailure
Fails(error) == failure' = error /\ step' = "failed"

(* A review's messages must fit the window; a task's were sized before.     *)
Compose ==
  /\ step = "composing"
  /\ \/ step' = "dispatching" /\ UNCHANGED failure
     \/ call.kind # "task" /\ Fails(Failed("oversize"))
  /\ UNCHANGED <<now, ledgerVars, learntVars, call, original, result>>

(* The cap is asked once, before anything is recorded.                      *)
Dispatch ==
  /\ step = "dispatching"
  /\ IF Spent(now, call.expires)
     THEN Fails(Failed(Deadline)) /\ UNCHANGED ledgerVars
     ELSE Begin /\ step' = "flying" /\ UNCHANGED failure
  /\ UNCHANGED <<now, learntVars, call, original, result>>

(* Under a cap the total timer ends a request that would outlast it.        *)
Lands ==
  /\ step = "flying"
  /\ \E d \in Durations :
       now' = IF call.expires > 0 /\ call.expires < now + d THEN call.expires ELSE now + d

Answered(content) ==
  /\ Lands
  /\ Settle
  /\ call' = [call EXCEPT !.content = content]
  /\ step' = "replied"
  /\ UNCHANGED <<learntVars, failure, original, result>>

WorthRetrying(reason) == reason \in Retryable /\ call.attempt < AttemptsOf(call.kind)

(* The cap outranks the delivery failure once it has fallen due.            *)
RetryOrFail(t, reason) ==
  IF ~WorthRetrying(reason) THEN Fails(Failed(reason))
  ELSE IF Spent(t, call.expires) THEN Fails(Failed(Deadline))
  ELSE step' = "pausing" /\ UNCHANGED failure

Died(d) ==
  /\ Lands
  /\ d.reason = "token-reserve-cutoff" => call.kind = "plain"
  /\ d.reason = Deadline => call.expires > 0 /\ now' + 1 >= call.expires
  /\ Fail(d)
  /\ RetryOrFail(now', d.reason)
  /\ UNCHANGED <<learntVars, call, original, result>>

RungFor(names) ==
  IF "stream_options" \in names \ removed THEN "stream_options"
  ELSE IF "stream" \in names \ removed THEN "stream" ELSE "none"

Refused(r) ==
  LET rung == RungFor(r.names)
      reason == IF r.tooLarge THEN "request-too-large" ELSE "none"
  IN /\ Lands
     /\ IF rung # "none"
        THEN /\ PendUntilReplaced(rung)
             /\ removed' = removed \cup {rung}
             /\ call' = [call EXCEPT !.offers = Apply(rung, @)]
             /\ step' = "dispatching" /\ UNCHANGED failure
        ELSE /\ FailRefused
             /\ Fails([reason |-> reason, format |-> r.format, cap |-> r.cap])
             /\ UNCHANGED <<removed, call>>
     /\ UNCHANGED <<grammar, lowered, original, result>>

FullPause(t) == RetryDelay \* mutant: the whole delay, whatever is left

(* The pause is no longer than what is left of the cap.                     *)
PauseFor(t) ==
  IF call.expires > 0 /\ call.expires <= t + RetryDelay THEN call.expires - t ELSE RetryDelay

UnrefdDelay == step = "pausing" /\ UNCHANGED vars \* mutant: nothing keeps the process up for the retry

Resume ==
  /\ step = "pausing"
  /\ now' = now + PauseFor(now)
  /\ IF Spent(now', call.expires)
     THEN Fails(Failed(Deadline)) /\ UNCHANGED call
     ELSE /\ call' = [call EXCEPT !.attempt = @ + 1]
          /\ step' = "dispatching" /\ UNCHANGED failure
  /\ UNCHANGED <<ledgerVars, learntVars, original, result>>

-----------------------------------------------------------------------------
(* What the command makes of it. *)

Finish(kind, reason) == result' = [kind |-> kind, reason |-> reason] /\ step' = "over"

(* A grammar may leave the answer on the reasoning channel, and a task's    *)
(* report judges for itself; prose must answer on the content channel, and  *)
(* a follow-up must answer.                                                 *)
Usable(kind, content) ==
  /\ kind = "plain" => content # "reasoning-only"
  /\ kind \in Salvages => content = "answer"

Accept ==
  /\ step = "replied" /\ Usable(call.kind, call.content)
  /\ Finish(IF call.kind \in Salvages THEN "salvaged" ELSE "answer", "none")
  /\ UNCHANGED <<now, ledgerVars, learntVars, call, failure, original>>

Unanswered(content) == IF content = "empty" THEN "empty-answer" ELSE "reasoning-only"

LeavesAnswered == \* mutant: the rejected reply stays in the record as an answer
  /\ step = "replied" /\ ~Usable(call.kind, call.content)
  /\ Fails(Failed(Unanswered(call.content)))
  /\ UNCHANGED <<now, ledgerVars, learntVars, call, original, result>>

Discard ==
  /\ step = "replied" /\ ~Usable(call.kind, call.content)
  /\ MarkUnanswered
  /\ Fails(Failed(Unanswered(call.content)))
  /\ UNCHANGED <<now, learntVars, call, original, result>>

RetryWithoutFormat ==
  /\ step = "failed" /\ call.kind = "structured" /\ failure.format
  /\ PendUntilReplaced("response_format")
  /\ grammar' = "rejected"
  /\ Starts(NewCall("plain", removed, lowered))
  /\ UNCHANGED <<now, removed, lowered, original, result>>

(* Only a request whose messages were built, and enough reasoning.          *)
Salvage ==
  /\ step = "failed" /\ call.kind = "plain" /\ failure.reason \in SalvageReasons
  /\ original' = failure
  /\ Starts(NewCall("trimmed", removed, lowered))
  /\ UNCHANGED <<now, ledgerVars, learntVars, result>>

(* The follow-up ran under the review's deadline, and that is what ended it.*)
DeadlineSpent ==
  /\ call.kind \in Salvages /\ failure.reason = Deadline
  /\ Cap > 0 /\ call.expires = Cap

(* Once more untrimmed, when trimming had removed something.                *)
SalvageUntrimmed ==
  /\ step = "failed" /\ call.kind = "trimmed"
  /\ failure.reason # "request-too-large" /\ ~DeadlineSpent
  /\ Starts(NewCall("untrimmed", removed, lowered))
  /\ UNCHANGED <<now, ledgerVars, learntVars, original, result>>

OffersAgain == IF grammar = "off" THEN "plain" ELSE "structured" \* mutant: the refusal is forgotten
FirstKind == IF grammar = "on" THEN "structured" ELSE "plain"

CanLower ==
  /\ call.kind \in {"structured", "plain"} /\ failure.cap /\ ~lowered
  /\ ~Spent(now, Cap)

RetryAtStatedCap ==
  /\ step = "failed" /\ CanLower
  /\ PendUntilReplaced("budget")
  /\ lowered' = TRUE
  /\ Starts(NewCall(FirstKind, removed, TRUE))
  /\ UNCHANGED <<now, removed, grammar, original, result>>

Reported ==
  IF call.kind \notin Salvages THEN failure.reason
  ELSE IF DeadlineSpent THEN Deadline ELSE original.reason

GiveUp ==
  /\ step = "failed"
  /\ ~(call.kind = "structured" /\ failure.format) /\ ~CanLower
  /\ Finish("error", Reported)
  /\ UNCHANGED <<now, ledgerVars, learntVars, call, failure, original>>

Done == step = "over" /\ UNCHANGED vars

Next ==
  \/ Compose \/ Dispatch \/ Resume
  \/ \E content \in Contents : Answered(content)
  \/ \E d \in {x \in Deaths : x.reason \in DeathReasons} : Died(d)
  \/ \E r \in Refusals : Refused(r)
  \/ Accept \/ Discard \/ RetryWithoutFormat \/ Salvage \/ SalvageUntrimmed
  \/ RetryAtStatedCap \/ GiveUp \/ Done

Spec == Init /\ [][Next]_vars

(* Every request ends: each of its phases is under a budget (http-budgets).*)
FairSpec == Spec /\ WF_vars(Next)

-----------------------------------------------------------------------------
(* Properties. *)

EntryType ==
  [prompt: Kinds \X BOOLEAN, offers: SUBSET Capabilities, warm: BOOLEAN,
   outcome: {"open", "answered", "failed", "refused"}, responded: BOOLEAN,
   blamed: Capabilities \cup {"none"}, heard: BOOLEAN, read: BOOLEAN]

CallType ==
  [kind: Kinds, attempt: Nat \ {0}, content: Contents \cup {"none"}, expires: Nat,
   prompt: Kinds \X BOOLEAN, offers: SUBSET Capabilities]

FailureType == [reason: Reasons, format: BOOLEAN, cap: BOOLEAN]

TypeOK ==
  /\ now \in Nat
  /\ entries \in Seq(EntryType)
  /\ dispatched \subseteq Kinds \X BOOLEAN
  /\ awaiting \in {0, Last}
  /\ removed \subseteq Rungs /\ grammar \in {"off", "on", "rejected"} /\ lowered \in BOOLEAN
  /\ call \in CallType
  /\ step \in {"composing", "dispatching", "flying", "pausing", "replied", "failed", "over"}
  /\ failure \in FailureType /\ original \in FailureType
  /\ result \in [kind: {"none", "answer", "salvaged", "error"}, reason: Reasons]

(* A command has at most one answer on record, the reply it reports, and it *)
(* is the last request; a command that fails has none, and none is left     *)
(* open.  (answer-attempts.mjs attemptAnswer, closeHandle.markUnanswered)   *)
OneAnswer ==
  /\ \A i \in DOMAIN entries :
       /\ entries[i].outcome = "answered" => i = Last /\ step \in {"replied", "over"}
       /\ entries[i].outcome = "open" => i = Last /\ step = "flying"
  /\ step = "over" /\ result.kind # "error" => Last > 0 /\ entries[Last].outcome = "answered"
  /\ step = "over" /\ result.kind = "error" =>
       \A i \in DOMAIN entries : entries[i].outcome # "answered"

(* An entry counts as capability negotiation, not as unreliability, only    *)
(* when the request without that capability went out next.  (refusalSlot)   *)
RefusedWasReplaced ==
  \A i \in DOMAIN entries :
    entries[i].outcome = "refused" =>
      i < Last /\ entries[i].blamed \notin entries[i + 1].offers \cup {"none"}

(* What the server once refused, a rung, the grammar or the budget, no      *)
(* later request of the command offers again, whichever call it belongs to. *)
(* (createNegotiation, the shared `removed` and `format.rejected`)          *)
NeverReoffered ==
  \A i, j \in DOMAIN entries : i < j => entries[i].blamed \notin entries[j].offers

(* --max-seconds bounds everything the command asks of the model: retries,  *)
(* pauses, degraded requests, the second budget and the follow-ups, however *)
(* many there are.  (capBudgets, expiresAt minted once)                     *)
CapBoundsAll == Cap > 0 => now <= Cap

(* A prompt is marked as one a server may have cached only if an earlier    *)
(* request really brought it to the model; a record shows a response where  *)
(* one came, and only there.  (reachedTheModel, obtainedResponse)           *)
RecordIsTrue ==
  \A i \in DOMAIN entries :
    /\ entries[i].warm =>
         \E j \in 1 .. i - 1 : entries[j].prompt = entries[i].prompt /\ entries[j].read
    /\ entries[i].outcome # "open" => entries[i].responded = entries[i].heard

(* A failure of delivery is reported only when the attempts were used up: a *)
(* run the cap ended says so, and says so only of the caller's cap, never   *)
(* of a follow-up's own.  (answerWithRetry, attemptSalvage)                 *)
CauseIsNamed ==
  step = "over" /\ result.kind = "error" =>
    /\ result.reason \in Retryable => call.attempt = MaxAttempts
    /\ result.reason = Deadline => Cap > 0 /\ now + 1 >= Cap

(* The ladders are finite together: three calls may retry, two follow-ups   *)
(* may not, and each rung is climbed once.  (postWithDegrade, trySalvage)   *)
RequestsBounded == Len(entries) <= 3 * MaxAttempts + 4

-----------------------------------------------------------------------------
(* The inductive invariant behind them. *)

(* A pending refusal is the last request, named what it refused, and is     *)
(* closed as a failure; only a request in flight is open.                   *)
LedgerInv ==
  /\ awaiting # 0 => step # "flying" /\ entries[Last].blamed # "none"
  /\ step \in {"flying", "replied"} => Last > 0
  /\ step = "flying" => entries[Last].outcome = "open"
  /\ step = "replied" => entries[Last].outcome = "answered"
  /\ step = "failed" /\ (failure.format \/ failure.cap) => Last > 0
  /\ \A i \in DOMAIN entries : entries[i].outcome = "open" => ~entries[i].read
  /\ \A p \in dispatched : \E i \in DOMAIN entries : entries[i].prompt = p /\ entries[i].read

Gone ==
  removed \cup (IF grammar = "rejected" THEN {"response_format"} ELSE {})
          \cup (IF lowered THEN {"budget"} ELSE {})

(* What was refused is remembered, and what is remembered is not offered.   *)
OffersInv ==
  /\ grammar = "on" <=> call.kind = "structured"
  /\ call.offers \cap Gone = {}
  /\ \A i \in DOMAIN entries : entries[i].blamed \in Gone \cup {"none"}

(* Every deadline is the review's or lies before it, and an error names what*)
(* the clock and the attempts say.                                          *)
CauseInv ==
  /\ call.kind \notin Salvages => call.expires = Cap
  /\ Cap > 0 => call.expires \in 1 .. Cap
  /\ call.attempt <= AttemptsOf(call.kind)
  /\ step = "pausing" => call.attempt < AttemptsOf(call.kind)
  /\ call.kind \in Salvages => original.reason \in SalvageReasons
  /\ step = "failed" /\ failure.reason \in Retryable => call.attempt = AttemptsOf(call.kind)
  /\ step = "failed" /\ failure.reason = Deadline =>
       call.expires > 0 /\ now + 1 >= call.expires

AttemptsLeft ==
  CASE step \in {"composing", "dispatching"} -> AttemptsOf(call.kind) - call.attempt + 1
    [] step \in {"flying", "pausing", "replied"} -> AttemptsOf(call.kind) - call.attempt
    [] OTHER -> 0

CallsLeft ==
  CASE call.kind = "structured" -> IF lowered THEN MaxAttempts ELSE MaxAttempts + MaxAttempts
    [] call.kind = "plain" /\ ~lowered -> MaxAttempts
    [] OTHER -> 0

FollowUpsLeft ==
  CASE call.kind = "untrimmed" -> 0 [] call.kind = "trimmed" -> 1 [] OTHER -> 2

RungsLeft ==
  (IF "stream_options" \in removed THEN 0 ELSE 1) + (IF "stream" \in removed THEN 0 ELSE 1)

(* What has been sent and what may still be never exceeds the ladders.      *)
WorkInv ==
  Len(entries) + AttemptsLeft + CallsLeft + FollowUpsLeft + RungsLeft <= 3 * MaxAttempts + 4

(* Everything the ledger, the negotiation, the deadline and the attempts    *)
(* owe each other, at every step.                                           *)
IInv ==
  /\ TypeOK
  /\ LedgerInv /\ OneAnswer /\ RefusedWasReplaced /\ RecordIsTrue
  /\ OffersInv /\ NeverReoffered
  /\ CauseInv /\ CapBoundsAll /\ CauseIsNamed
  /\ WorkInv

(* Every command ends.                                                      *)
CommandEnds == <>(step = "over")
=============================================================================
