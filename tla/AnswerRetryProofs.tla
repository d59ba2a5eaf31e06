------------------------- MODULE AnswerRetryProofs -------------------------
(***************************************************************************)
(* AnswerRetry for every number of attempts, every cap and every duration. *)
(* The conjuncts of IInv are taken in five groups, each preserved by every *)
(* action: types, ledger, offers, causes, work.                            *)
(***************************************************************************)
EXTENDS AnswerRetry, TLAPS

(* The constants are naturals: everything below rests on these alone.      *)
LEMMA Bounds ==
  /\ MaxAttempts \in Nat /\ MaxAttempts > 0
  /\ Cap \in Nat /\ SalvageCap \in Nat /\ SalvageCap > 0 /\ RetryDelay \in Nat
  /\ \A d \in Durations : d \in Nat
BY AttemptsAssumption, TimeAssumption

(* A new call is a call: at most three kinds of field depend on the past.  *)
LEMMA NewCallType ==
  ASSUME now \in Nat, NEW kind \in Kinds, NEW gone \in SUBSET Rungs, NEW low \in BOOLEAN
  PROVE  NewCall(kind, gone, low) \in CallType
<1>1. ExpiryOf(kind) \in Nat
  BY Bounds DEF ExpiryOf
<1>2. PromptOf(kind, low) \in Kinds \X BOOLEAN
  BY DEF PromptOf
<1>3. Negotiated(kind, gone) \cup BudgetOf(kind, low) \in SUBSET Capabilities
  BY DEF Negotiated, BudgetOf, Apply, Body, Capabilities, Rungs
<1> QED
  BY <1>1, <1>2, <1>3 DEF NewCall, CallType

(* Closing the last entry leaves the others as they are.                   *)
LEMMA ReviseFacts ==
  ASSUME entries \in Seq(EntryType), Last > 0, NEW e \in EntryType, Revise(e)
  PROVE  /\ entries' \in Seq(EntryType)
         /\ Len(entries') = Len(entries)
         /\ entries'[Len(entries)] = e
         /\ \A i \in 1 .. Len(entries) : i # Len(entries) => entries'[i] = entries[i]
BY DEF Revise, Last

LEMMA LastEntry ==
  ASSUME entries \in Seq(EntryType), Last > 0
  PROVE  entries[Last] \in EntryType
BY DEF Last

(* A request appends its entry and settles the refusal it replaces.        *)
LEMMA BeginFacts ==
  ASSUME TypeOK, Begin
  PROVE  /\ Entry \in EntryType
         /\ entries' \in Seq(EntryType)
         /\ Len(entries') = Len(entries) + 1
         /\ entries'[Len(entries) + 1] = Entry
         /\ \A i \in 1 .. Len(entries) :
              entries'[i] = IF i = awaiting THEN [entries[i] EXCEPT !.outcome = "refused"]
                            ELSE entries[i]
<1> DEFINE log == Settled(entries, awaiting)
<1>1. Entry \in EntryType
  BY DEF Entry, EntryType, TypeOK, CallType
<1>2. /\ log \in Seq(EntryType) /\ Len(log) = Len(entries)
      /\ \A i \in 1 .. Len(entries) :
           log[i] = IF i = awaiting THEN [entries[i] EXCEPT !.outcome = "refused"] ELSE entries[i]
  <2>1. CASE awaiting = 0
    BY <2>1 DEF Settled, TypeOK
  <2>2. CASE awaiting # 0
    <3>1. awaiting = Len(entries) /\ Len(entries) > 0 /\ entries \in Seq(EntryType)
      BY <2>2 DEF TypeOK, Last
    <3>2. entries[awaiting] \in EntryType
      BY <3>1
    <3>3. [entries[awaiting] EXCEPT !.outcome = "refused"] \in EntryType
      BY <3>2 DEF EntryType
    <3>4. log = [entries EXCEPT ![awaiting] = [entries[awaiting] EXCEPT !.outcome = "refused"]]
      BY <2>2 DEF Settled
    <3> QED
      BY <3>1, <3>3, <3>4
  <2> QED
    BY <2>1, <2>2
<1> HIDE DEF log
<1>3. entries' = Append(log, Entry)
  BY DEF Begin, log
<1> QED
  BY <1>1, <1>2, <1>3

-----------------------------------------------------------------------------
(* Types. *)

LEMMA FailedType == ASSUME NEW reason \in Reasons PROVE Failed(reason) \in FailureType
BY DEF Failed, FailureType

LEMMA SomeReasons ==
  AllDeathReasons \cup {Deadline, "oversize", "none", "reasoning-only", "empty-answer"} \subseteq Reasons
BY DEF Reasons, SalvageReasons, AllDeathReasons

LEMMA InitType == Init => TypeOK
<1> SUFFICES ASSUME Init PROVE TypeOK
  OBVIOUS
<1>1. now \in Nat /\ removed \in SUBSET Rungs
  BY DEF Init
<1>2. call \in CallType
  BY <1>1, NewCallType DEF Init, Kinds
<1>3. failure \in FailureType /\ original \in FailureType
  BY SomeReasons, FailedType DEF Init, NoFailure
<1>4. result \in [kind: {"none", "answer", "salvaged", "error"}, reason: Reasons]
  BY SomeReasons DEF Init, NoResult
<1>5. entries \in Seq(EntryType) /\ awaiting \in {0, Last}
  BY DEF Init, Last
<1>6. /\ dispatched \subseteq Kinds \X BOOLEAN
      /\ grammar \in {"off", "on", "rejected"} /\ lowered \in BOOLEAN
      /\ step = "composing"
  BY DEF Init
<1> QED
  BY <1>1, <1>2, <1>3, <1>4, <1>5, <1>6 DEF TypeOK

(* A request lands at a moment of the clock. *)
LEMMA LandsType == ASSUME TypeOK, Lands PROVE now' \in Nat
BY Bounds DEF Lands, TypeOK, CallType

(* What closes the last entry keeps the ledger a ledger. *)
LEMMA CloseType ==
  ASSUME TypeOK, Last > 0, NEW e \in EntryType, Revise(e), awaiting' \in {awaiting, Last}
  PROVE  entries' \in Seq(EntryType) /\ Last' = Last /\ awaiting' \in {0, Last'}
<1>1. entries' \in Seq(EntryType) /\ Len(entries') = Len(entries)
  BY ReviseFacts DEF TypeOK
<1> QED
  BY <1>1 DEF TypeOK, Last

LEMMA ClosedType ==
  ASSUME TypeOK, Last > 0, NEW outcome \in {"failed", "refused"},
         NEW capability \in Capabilities \cup {"none"}
  PROVE  Closed(outcome, capability) \in EntryType
<1>1. entries[Last] \in EntryType
  BY LastEntry DEF TypeOK
<1> QED
  BY <1>1 DEF Closed, EntryType

LEMMA TypeStep == ASSUME TypeOK, LedgerInv, [Next]_vars PROVE TypeOK'
<1> USE DEF vars, ledgerVars, learntVars
<1>1. CASE Compose
  <2>1. failure' \in FailureType
    BY <1>1, SomeReasons, FailedType DEF Compose, Fails, TypeOK
  <2> QED
    BY <1>1, <2>1 DEF Compose, Fails, TypeOK, Last
<1>2. CASE Dispatch
  <2>1. failure' \in FailureType
    BY <1>2, SomeReasons, FailedType DEF Dispatch, Fails, TypeOK
  <2>2. entries' \in Seq(EntryType) /\ awaiting' \in {0, Last'}
        /\ dispatched' = dispatched /\ step' \in {"flying", "failed"}
    BY <1>2, BeginFacts DEF Dispatch, Begin, TypeOK, Last, Fails
  <2> QED
    BY <1>2, <2>1, <2>2 DEF Dispatch, TypeOK
<1>3. CASE Resume
  <2>1. now' \in Nat
    BY <1>3, Bounds DEF Resume, PauseFor, TypeOK, CallType
  <2>2. failure' \in FailureType
    BY <1>3, SomeReasons, FailedType DEF Resume, Fails, TypeOK
  <2>3. call' \in CallType
    BY <1>3 DEF Resume, TypeOK, CallType
  <2> QED
    BY <1>3, <2>1, <2>2, <2>3 DEF Resume, Fails, TypeOK, Last
<1>4. ASSUME NEW content \in Contents, Answered(content) PROVE TypeOK'
  <2>1. now' \in Nat /\ Last > 0
    BY <1>4, LandsType DEF Answered, Lands, LedgerInv
  <2>2. entries[Last] \in EntryType
    BY <2>1, LastEntry DEF TypeOK
  <2>3. [entries[Last] EXCEPT !.outcome = "answered", !.responded = TRUE,
                              !.heard = TRUE, !.read = TRUE] \in EntryType
    BY <2>2 DEF EntryType
  <2>4. entries' \in Seq(EntryType) /\ awaiting' \in {0, Last'}
    BY <1>4, <2>1, <2>3, CloseType DEF Answered, Settle
  <2>5. dispatched' \subseteq Kinds \X BOOLEAN
    BY <1>4, <2>2 DEF Answered, Settle, TypeOK, EntryType
  <2>6. call' \in CallType
    BY <1>4 DEF Answered, TypeOK, CallType
  <2> QED
    BY <1>4, <2>1, <2>4, <2>5, <2>6 DEF Answered, TypeOK
<1>5. ASSUME NEW d \in Deaths, Died(d) PROVE TypeOK'
  <2>1. now' \in Nat /\ Last > 0
    BY <1>5, LandsType DEF Died, Lands, LedgerInv
  <2>2. entries[Last] \in EntryType
    BY <2>1, LastEntry DEF TypeOK
  <2>3. /\ d.reason \in AllDeathReasons /\ d.text \in BOOLEAN
        /\ d.heard \in BOOLEAN /\ d.read \in BOOLEAN
    BY DEF Deaths
  <2>4. ObtainedResponse(d) \in BOOLEAN
    BY DEF ObtainedResponse, ReachedTheModel
  <2>5. [entries[Last] EXCEPT !.outcome = "failed", !.responded = ObtainedResponse(d),
                              !.heard = d.heard, !.read = d.read] \in EntryType
    BY <2>2, <2>3, <2>4 DEF EntryType
  <2>6. entries' \in Seq(EntryType) /\ awaiting' \in {0, Last'}
    BY <1>5, <2>1, <2>5, CloseType DEF Died, Fail
  <2>7. dispatched' \subseteq Kinds \X BOOLEAN
    BY <1>5, <2>2 DEF Died, Fail, TypeOK, EntryType
  <2>8. failure' \in FailureType /\ step' \in {"failed", "pausing"}
    BY <1>5, <2>3, SomeReasons, FailedType DEF Died, RetryOrFail, Fails, TypeOK
  <2> QED
    BY <1>5, <2>1, <2>6, <2>7, <2>8 DEF Died, TypeOK
<1>6. ASSUME NEW r \in Refusals, Refused(r) PROVE TypeOK'
  <2>1. now' \in Nat /\ Last > 0
    BY <1>6, LandsType DEF Refused, Lands, LedgerInv
  <2>2. RungFor(r.names) \in Rungs \cup {"none"}
    BY DEF RungFor, Rungs
  <2>3. r.format \in BOOLEAN /\ r.cap \in BOOLEAN
    BY DEF Refusals
  <2>4. CASE RungFor(r.names) # "none"
    <3> DEFINE rung == RungFor(r.names)
    <3>1. PendUntilReplaced(rung) /\ removed' = removed \cup {rung}
          /\ call' = [call EXCEPT !.offers = Apply(rung, @)]
          /\ step' = "dispatching" /\ failure' = failure
      BY <1>6, <2>4 DEF Refused
    <3>2. rung \in Rungs
      BY <2>2, <2>4
    <3>3. Closed("failed", rung) \in EntryType
      BY <2>1, <3>2, ClosedType DEF Capabilities
    <3>4. entries' \in Seq(EntryType) /\ awaiting' \in {0, Last'} /\ dispatched' = dispatched
      BY <2>1, <3>1, <3>3, CloseType DEF PendUntilReplaced
    <3>5. call' \in CallType
      BY <3>1 DEF TypeOK, CallType, Apply
    <3> QED
      BY <1>6, <2>1, <3>1, <3>2, <3>4, <3>5 DEF Refused, TypeOK
  <2>5. CASE RungFor(r.names) = "none"
    <3>1. FailRefused /\ step' = "failed" /\ UNCHANGED <<removed, call>>
      BY <1>6, <2>5 DEF Refused, Fails
    <3>2. failure' \in FailureType
      BY <1>6, <2>3, <2>5 DEF Refused, Fails, FailureType, Reasons
    <3>3. Closed("failed", "none") \in EntryType
      BY <2>1, ClosedType
    <3>4. entries' \in Seq(EntryType) /\ awaiting' \in {0, Last'} /\ dispatched' = dispatched
      BY <2>1, <3>1, <3>3, CloseType DEF FailRefused
    <3> QED
      BY <1>6, <2>1, <3>1, <3>2, <3>4 DEF Refused, TypeOK
  <2> QED
    BY <2>4, <2>5
<1>7. CASE Accept
  BY <1>7 DEF Accept, Finish, TypeOK, Last, Reasons
<1>8. CASE Discard
  <2>1. Last > 0
    BY <1>8 DEF Discard, LedgerInv
  <2>2. [entries[Last] EXCEPT !.outcome = "failed"] \in EntryType
    <3>1. entries[Last] \in EntryType
      BY <2>1, LastEntry DEF TypeOK
    <3> QED
      BY <3>1 DEF EntryType
  <2>3. entries' \in Seq(EntryType) /\ awaiting' \in {0, Last'} /\ dispatched' = dispatched
    BY <1>8, <2>1, <2>2, CloseType DEF Discard, MarkUnanswered
  <2>4. failure' \in FailureType
    BY <1>8 DEF Discard, Fails, Failed, Unanswered, FailureType, Reasons, SalvageReasons
  <2> QED
    BY <1>8, <2>3, <2>4 DEF Discard, Fails, TypeOK
<1>9. CASE RetryWithoutFormat
  <2>1. Last > 0
    BY <1>9 DEF RetryWithoutFormat, LedgerInv
  <2>2. Closed("failed", "response_format") \in EntryType
    BY <2>1, ClosedType DEF Capabilities
  <2>3. entries' \in Seq(EntryType) /\ awaiting' \in {0, Last'} /\ dispatched' = dispatched
    BY <1>9, <2>1, <2>2, CloseType DEF RetryWithoutFormat, PendUntilReplaced
  <2>4. call' \in CallType
    BY <1>9, NewCallType DEF RetryWithoutFormat, Starts, TypeOK, Kinds
  <2>5. failure' \in FailureType
    BY <1>9 DEF RetryWithoutFormat, Starts, NoFailure, Failed, FailureType, Reasons
  <2> QED
    BY <1>9, <2>3, <2>4, <2>5 DEF RetryWithoutFormat, Starts, TypeOK
<1>10. CASE Salvage
  <2>1. call' \in CallType
    BY <1>10, NewCallType DEF Salvage, Starts, TypeOK, Kinds, Salvages
  <2>2. failure' \in FailureType /\ original' \in FailureType
    BY <1>10 DEF Salvage, Starts, NoFailure, Failed, FailureType, Reasons, TypeOK
  <2> QED
    BY <1>10, <2>1, <2>2 DEF Salvage, Starts, TypeOK, Last
<1>11. CASE SalvageUntrimmed
  <2>1. call' \in CallType
    BY <1>11, NewCallType DEF SalvageUntrimmed, Starts, TypeOK, Kinds, Salvages
  <2>2. failure' \in FailureType
    BY <1>11 DEF SalvageUntrimmed, Starts, NoFailure, Failed, FailureType, Reasons
  <2> QED
    BY <1>11, <2>1, <2>2 DEF SalvageUntrimmed, Starts, TypeOK, Last
<1>12. CASE RetryAtStatedCap
  <2>1. Last > 0
    BY <1>12 DEF RetryAtStatedCap, CanLower, LedgerInv
  <2>2. Closed("failed", "budget") \in EntryType
    BY <2>1, ClosedType DEF Capabilities
  <2>3. entries' \in Seq(EntryType) /\ awaiting' \in {0, Last'} /\ dispatched' = dispatched
    BY <1>12, <2>1, <2>2, CloseType DEF RetryAtStatedCap, PendUntilReplaced
  <2>4. call' \in CallType
    BY <1>12, NewCallType DEF RetryAtStatedCap, Starts, TypeOK, Kinds, FirstKind
  <2>5. failure' \in FailureType
    BY <1>12 DEF RetryAtStatedCap, Starts, NoFailure, Failed, FailureType, Reasons
  <2> QED
    BY <1>12, <2>3, <2>4, <2>5 DEF RetryAtStatedCap, Starts, TypeOK
<1>13. CASE GiveUp
  <2>1. Reported \in Reasons
    BY SomeReasons DEF Reported, TypeOK, FailureType
  <2> QED
    BY <1>13, <2>1 DEF GiveUp, Finish, TypeOK, Last
<1>14. CASE Done \/ UNCHANGED vars
  BY <1>14 DEF Done, TypeOK, Last
<1> QED
  BY <1>1, <1>2, <1>3, <1>4, <1>5, <1>6, <1>7, <1>8, <1>9, <1>10, <1>11, <1>12, <1>13, <1>14
  DEF Next

-----------------------------------------------------------------------------
(* What each closing does to the ledger. *)

(* Only the last entry changes, and not what was asked in it.              *)
Rewritten ==
  /\ Last' = Last
  /\ \A i \in 1 .. Last : i # Last => entries'[i] = entries[i]
  /\ entries'[Last].prompt = entries[Last].prompt
  /\ entries'[Last].offers = entries[Last].offers
  /\ entries'[Last].warm = entries[Last].warm

LEMMA RevisedLast ==
  ASSUME TypeOK, Last > 0, NEW e \in EntryType, Revise(e),
         e.prompt = entries[Last].prompt, e.offers = entries[Last].offers,
         e.warm = entries[Last].warm
  PROVE  Rewritten /\ entries'[Last] = e
<1>1. /\ Len(entries') = Len(entries) /\ entries'[Len(entries)] = e
      /\ \A i \in 1 .. Len(entries) : i # Len(entries) => entries'[i] = entries[i]
  BY ReviseFacts DEF TypeOK
<1> QED
  BY <1>1 DEF Rewritten, Last

LEMMA SettleFacts ==
  ASSUME TypeOK, Last > 0, Settle
  PROVE  /\ Rewritten
         /\ entries'[Last].outcome = "answered"
         /\ entries'[Last].blamed = entries[Last].blamed
         /\ entries'[Last].read
         /\ entries'[Last].responded <=> entries'[Last].heard
<1> DEFINE e == [entries[Last] EXCEPT !.outcome = "answered", !.responded = TRUE,
                                      !.heard = TRUE, !.read = TRUE]
<1>1. entries[Last] \in EntryType
  BY LastEntry DEF TypeOK
<1>2. /\ e \in EntryType /\ e.prompt = entries[Last].prompt /\ e.offers = entries[Last].offers
      /\ e.warm = entries[Last].warm /\ e.outcome = "answered"
      /\ e.blamed = entries[Last].blamed /\ e.read /\ e.responded /\ e.heard
  BY <1>1 DEF EntryType
<1>3. Revise(e)
  BY DEF Settle
<1> HIDE DEF e
<1> QED
  BY <1>2, <1>3, RevisedLast

LEMMA FailFacts ==
  ASSUME TypeOK, Last > 0, NEW d \in Deaths, Fail(d)
  PROVE  /\ Rewritten
         /\ entries'[Last].outcome = "failed"
         /\ entries'[Last].blamed = entries[Last].blamed
         /\ entries'[Last].responded <=> entries'[Last].heard
         /\ entries'[Last].read <=> ReachedTheModel(d)
<1> DEFINE e == [entries[Last] EXCEPT !.outcome = "failed", !.responded = ObtainedResponse(d),
                                      !.heard = d.heard, !.read = d.read]
<1>1. entries[Last] \in EntryType
  BY LastEntry DEF TypeOK
<1>2. d.heard \in BOOLEAN /\ d.read \in BOOLEAN /\ ObtainedResponse(d) \in BOOLEAN
  BY DEF Deaths, ObtainedResponse
<1>3. (ObtainedResponse(d) <=> d.heard) /\ (d.read <=> ReachedTheModel(d))
  BY DEF Deaths, ObtainedResponse, ReachedTheModel
<1>4. /\ e \in EntryType /\ e.prompt = entries[Last].prompt /\ e.offers = entries[Last].offers
      /\ e.warm = entries[Last].warm /\ e.outcome = "failed"
      /\ e.blamed = entries[Last].blamed
      /\ (e.read <=> d.read) /\ (e.responded <=> ObtainedResponse(d)) /\ (e.heard <=> d.heard)
  BY <1>1, <1>2 DEF EntryType
<1>5. Revise(e)
  BY DEF Fail
<1> HIDE DEF e
<1> QED
  BY <1>3, <1>4, <1>5, RevisedLast

LEMMA ClosedFacts ==
  ASSUME TypeOK, Last > 0, NEW outcome \in {"failed", "refused"},
         NEW capability \in Capabilities \cup {"none"}, Revise(Closed(outcome, capability))
  PROVE  /\ Rewritten
         /\ entries'[Last].outcome = outcome
         /\ entries'[Last].blamed = capability
         /\ entries'[Last].responded <=> entries'[Last].heard
         /\ entries'[Last].read <=> entries[Last].read
<1> DEFINE e == Closed(outcome, capability)
<1>1. entries[Last] \in EntryType
  BY LastEntry DEF TypeOK
<1>2. /\ e \in EntryType /\ e.prompt = entries[Last].prompt /\ e.offers = entries[Last].offers
      /\ e.warm = entries[Last].warm /\ e.outcome = outcome /\ e.blamed = capability
      /\ (e.read <=> entries[Last].read) /\ e.responded /\ e.heard
  BY <1>1 DEF EntryType, Closed
<1>3. Revise(e)
  OBVIOUS
<1> HIDE DEF e
<1> QED
  BY <1>2, <1>3, RevisedLast

LEMMA UnansweredFacts ==
  ASSUME TypeOK, Last > 0, MarkUnanswered
  PROVE  /\ Rewritten
         /\ entries'[Last].outcome = "failed"
         /\ entries'[Last].blamed = entries[Last].blamed
         /\ entries'[Last].responded <=> entries[Last].responded
         /\ entries'[Last].heard <=> entries[Last].heard
         /\ entries'[Last].read <=> entries[Last].read
<1> DEFINE e == [entries[Last] EXCEPT !.outcome = "failed"]
<1>1. entries[Last] \in EntryType
  BY LastEntry DEF TypeOK
<1>2. /\ e \in EntryType /\ e.prompt = entries[Last].prompt /\ e.offers = entries[Last].offers
      /\ e.warm = entries[Last].warm /\ e.outcome = "failed"
      /\ e.blamed = entries[Last].blamed /\ (e.read <=> entries[Last].read)
      /\ (e.responded <=> entries[Last].responded) /\ (e.heard <=> entries[Last].heard)
  BY <1>1 DEF EntryType
<1>3. Revise(e)
  BY DEF MarkUnanswered
<1> HIDE DEF e
<1> QED
  BY <1>2, <1>3, RevisedLast

-----------------------------------------------------------------------------
(* Offers: what was refused is remembered and not offered again. *)

(* A call starts from what its predecessors had refused. *)
LEMMA NewOffers ==
  ASSUME NEW kind \in Kinds, NEW gone \in SUBSET Rungs, NEW low \in BOOLEAN
  PROVE  /\ NewCall(kind, gone, low).offers \cap gone = {}
         /\ kind # "structured" => "response_format" \notin NewCall(kind, gone, low).offers
         /\ low => "budget" \notin NewCall(kind, gone, low).offers
         /\ kind \in Salvages => "budget" \notin NewCall(kind, gone, low).offers
         /\ NewCall(kind, gone, low).kind = kind
<1>1. "budget" \notin gone /\ "response_format" \notin gone
  BY DEF Rungs
<1> QED
  BY <1>1 DEF NewCall, Negotiated, BudgetOf, Apply, Body, Rungs, Salvages

(* Closing the last entry re-offers nothing: no request follows it yet. *)
LEMMA ClosingOffers ==
  ASSUME TypeOK, Last > 0, OffersInv, NeverReoffered, Rewritten, Gone \subseteq Gone',
         entries'[Last].blamed \in Gone' \cup {"none"}
  PROVE  /\ NeverReoffered'
         /\ \A i \in DOMAIN entries' : entries'[i].blamed \in Gone' \cup {"none"}
<1>0. DOMAIN entries = 1 .. Last /\ Last \in Nat
  BY DEF TypeOK, Last
<1>1. DOMAIN entries' = 1 .. Last \/ Last' = 0
  BY <1>0 DEF Rewritten, Last
<1> QED
  BY <1>0, <1>1 DEF Rewritten, NeverReoffered, OffersInv

LEMMA OffersStep ==
  ASSUME TypeOK, LedgerInv, OffersInv, NeverReoffered, [Next]_vars
  PROVE  OffersInv' /\ NeverReoffered'
<1> USE DEF vars, ledgerVars, learntVars
<1>0. /\ removed \in SUBSET Rungs /\ lowered \in BOOLEAN /\ call \in CallType
      /\ entries \in Seq(EntryType) /\ DOMAIN entries = 1 .. Last /\ Last \in Nat
  BY DEF TypeOK, Last
<1>1. CASE Compose \/ Accept \/ GiveUp \/ Done \/ UNCHANGED vars
  BY <1>1 DEF Compose, Accept, GiveUp, Done, OffersInv, NeverReoffered, Gone
<1>2. CASE Dispatch
  <2>1. Gone' = Gone /\ call' = call /\ grammar' = grammar
    BY <1>2 DEF Dispatch, Gone
  <2>2. CASE UNCHANGED entries
    BY <2>1, <2>2 DEF OffersInv, NeverReoffered
  <2>3. CASE Begin
    <3>1. /\ entries' \in Seq(EntryType) /\ Len(entries') = Last + 1
          /\ entries'[Last + 1].offers = call.offers /\ entries'[Last + 1].blamed = "none"
          /\ \A i \in 1 .. Last : /\ entries'[i].offers = entries[i].offers
                                 /\ entries'[i].blamed = entries[i].blamed
      <4>1. /\ entries' \in Seq(EntryType) /\ Len(entries') = Last + 1
            /\ entries'[Last + 1] = Entry
            /\ \A i \in 1 .. Last :
                 entries'[i] = IF i = awaiting THEN [entries[i] EXCEPT !.outcome = "refused"]
                               ELSE entries[i]
        BY <2>3, BeginFacts DEF Last
      <4>2. \A i \in 1 .. Last : entries[i] \in EntryType
        BY <1>0
      <4>3. Entry.offers = call.offers /\ Entry.blamed = "none"
        BY DEF Entry
      <4>4. \A i \in 1 .. Last : LET e == [entries[i] EXCEPT !.outcome = "refused"]
                               IN e.offers = entries[i].offers /\ e.blamed = entries[i].blamed
        BY <4>2 DEF EntryType
      <4> QED
        BY <4>1, <4>3, <4>4
    <3>2. DOMAIN entries' = 1 .. Last + 1
      BY <3>1
    <3>3. \A i \in DOMAIN entries' : entries'[i].blamed \in Gone' \cup {"none"}
      BY <1>0, <2>1, <3>1, <3>2 DEF OffersInv
    <3>4. "none" \notin call.offers
      BY <1>0 DEF CallType, Capabilities, Rungs
    <3>5. ASSUME NEW i \in DOMAIN entries', NEW j \in DOMAIN entries', i < j
          PROVE  entries'[i].blamed \notin entries'[j].offers
      <4>1. i \in 1 .. Last /\ entries'[i].blamed = entries[i].blamed
        BY <1>0, <3>1, <3>2, <3>5
      <4>2. CASE j = Last + 1
        BY <1>0, <3>1, <3>4, <4>1, <4>2 DEF OffersInv
      <4>3. CASE j # Last + 1
        BY <1>0, <3>1, <3>2, <4>1, <4>3, <3>5 DEF NeverReoffered
      <4> QED
        BY <4>2, <4>3
    <3> QED
      BY <2>1, <3>3, <3>5 DEF OffersInv, NeverReoffered
  <2> QED
    BY <1>2, <2>2, <2>3 DEF Dispatch
<1>3. CASE Resume
  <2>1. Gone' = Gone /\ entries' = entries /\ call'.offers = call.offers /\ call'.kind = call.kind
        /\ grammar' = grammar
    BY <1>0, <1>3 DEF Resume, Gone, CallType
  <2> QED
    BY <2>1 DEF OffersInv, NeverReoffered
<1>4. ASSUME NEW content \in Contents, Answered(content) PROVE OffersInv' /\ NeverReoffered'
  <2>1. Last > 0 /\ Settle /\ Gone' = Gone /\ grammar' = grammar
    BY <1>4 DEF Answered, Lands, LedgerInv, Gone
  <2>2. call'.offers = call.offers /\ call'.kind = call.kind
    BY <1>0, <1>4 DEF Answered, CallType
  <2>3. Rewritten /\ entries'[Last].blamed \in Gone' \cup {"none"}
    BY <1>0, <2>1, SettleFacts DEF OffersInv
  <2> QED
    BY <2>1, <2>2, <2>3, ClosingOffers DEF OffersInv
<1>5. ASSUME NEW d \in Deaths, Died(d) PROVE OffersInv' /\ NeverReoffered'
  <2>1. Last > 0 /\ Fail(d) /\ Gone' = Gone /\ grammar' = grammar /\ call' = call
    BY <1>5 DEF Died, Lands, LedgerInv, Gone
  <2>2. Rewritten /\ entries'[Last].blamed \in Gone' \cup {"none"}
    BY <1>0, <2>1, FailFacts DEF OffersInv
  <2> QED
    BY <2>1, <2>2, ClosingOffers DEF OffersInv
<1>6. ASSUME NEW r \in Refusals, Refused(r) PROVE OffersInv' /\ NeverReoffered'
  <2>1. Last > 0 /\ grammar' = grammar /\ lowered' = lowered
    BY <1>6 DEF Refused, Lands, LedgerInv
  <2>2. CASE RungFor(r.names) # "none"
    <3> DEFINE rung == RungFor(r.names)
    <3>1. Revise(Closed("failed", rung)) /\ removed' = removed \cup {rung}
          /\ call' = [call EXCEPT !.offers = Apply(rung, call.offers)]
      BY <1>6, <2>2 DEF Refused, PendUntilReplaced
    <3>2. rung \in Rungs
      BY <2>2 DEF RungFor, Rungs
    <3>3. Gone \subseteq Gone' /\ rung \in Gone' /\ Gone' = Gone \cup {rung}
      BY <2>1, <3>1 DEF Gone
    <3>4. Rewritten /\ entries'[Last].blamed = rung
      BY <2>1, <3>1, <3>2, ClosedFacts DEF Capabilities
    <3>5. call'.kind = call.kind /\ call'.offers = Apply(rung, call.offers)
      BY <1>0, <3>1 DEF CallType
    <3>6. call'.offers \cap Gone' = {}
      BY <3>2, <3>3, <3>5 DEF Apply, OffersInv, Rungs
    <3> QED
      BY <2>1, <3>3, <3>4, <3>5, <3>6, ClosingOffers DEF OffersInv
  <2>3. CASE RungFor(r.names) = "none"
    <3>1. Revise(Closed("failed", "none")) /\ UNCHANGED <<removed, call>>
      BY <1>6, <2>3 DEF Refused, FailRefused
    <3>2. Gone' = Gone
      BY <2>1, <3>1 DEF Gone
    <3>3. Rewritten /\ entries'[Last].blamed = "none"
      BY <2>1, <3>1, ClosedFacts
    <3> QED
      BY <2>1, <3>1, <3>2, <3>3, ClosingOffers DEF OffersInv
  <2> QED
    BY <2>2, <2>3
<1>7. CASE Discard
  <2>1. Last > 0 /\ MarkUnanswered /\ Gone' = Gone /\ grammar' = grammar /\ call' = call
    BY <1>7 DEF Discard, LedgerInv, Gone
  <2>2. Rewritten /\ entries'[Last].blamed \in Gone' \cup {"none"}
    BY <1>0, <2>1, UnansweredFacts DEF OffersInv
  <2> QED
    BY <2>1, <2>2, ClosingOffers DEF OffersInv
<1>8. CASE RetryWithoutFormat
  <2>1. /\ Last > 0 /\ Revise(Closed("failed", "response_format"))
        /\ grammar' = "rejected" /\ call' = NewCall("plain", removed, lowered)
        /\ removed' = removed /\ lowered' = lowered
    BY <1>8 DEF RetryWithoutFormat, PendUntilReplaced, Starts, LedgerInv
  <2>2. Gone \subseteq Gone' /\ Gone' = removed \cup {"response_format"} \cup (IF lowered THEN {"budget"} ELSE {})
    BY <2>1 DEF Gone
  <2>3. Rewritten /\ entries'[Last].blamed = "response_format"
    BY <2>1, ClosedFacts DEF Capabilities
  <2>4. /\ call'.kind = "plain" /\ call'.offers \cap removed = {}
        /\ "response_format" \notin call'.offers /\ (lowered => "budget" \notin call'.offers)
    <3>1. "plain" \in Kinds /\ "plain" # "structured"
      BY DEF Kinds
    <3> QED
      BY <1>0, <2>1, <3>1, NewOffers
  <2>5. call'.offers \cap Gone' = {}
    BY <2>2, <2>4
  <2> QED
    BY <2>1, <2>2, <2>3, <2>4, <2>5, ClosingOffers DEF OffersInv
<1>9. CASE Salvage \/ SalvageUntrimmed
  <2>1. PICK kind \in Salvages : call' = NewCall(kind, removed, lowered)
    BY <1>9 DEF Salvage, SalvageUntrimmed, Starts, Salvages
  <2>2. grammar # "on" /\ UNCHANGED <<entries, removed, grammar, lowered>>
    BY <1>9 DEF Salvage, SalvageUntrimmed, OffersInv
  <2>3. Gone' = Gone
    BY <2>2 DEF Gone
  <2>4. kind \in Kinds /\ kind # "structured"
    BY DEF Kinds, Salvages
  <2>5. /\ call'.kind = kind /\ call'.offers \cap removed = {}
        /\ "response_format" \notin call'.offers /\ "budget" \notin call'.offers
    BY <1>0, <2>1, <2>4, NewOffers
  <2>6. call'.offers \cap Gone = {}
    BY <2>5 DEF Gone
  <2> QED
    BY <2>2, <2>3, <2>4, <2>5, <2>6 DEF OffersInv, NeverReoffered
<1>10. CASE RetryAtStatedCap
  <2>1. /\ Last > 0 /\ Revise(Closed("failed", "budget"))
        /\ lowered' = TRUE /\ call' = NewCall(FirstKind, removed, TRUE)
        /\ removed' = removed /\ grammar' = grammar
    BY <1>10 DEF RetryAtStatedCap, CanLower, PendUntilReplaced, Starts, LedgerInv
  <2>2. Gone \subseteq Gone' /\ Gone' = removed \cup {"budget"} \cup
          (IF grammar = "rejected" THEN {"response_format"} ELSE {})
    BY <2>1 DEF Gone
  <2>3. Rewritten /\ entries'[Last].blamed = "budget"
    BY <2>1, ClosedFacts DEF Capabilities
  <2>4. FirstKind \in Kinds /\ (FirstKind = "structured" <=> grammar = "on")
    BY DEF FirstKind, Kinds
  <2>5. /\ call'.kind = FirstKind /\ call'.offers \cap removed = {}
        /\ FirstKind # "structured" => "response_format" \notin call'.offers
        /\ "budget" \notin call'.offers
    BY <1>0, <2>1, <2>4, NewOffers
  <2>6. call'.offers \cap Gone' = {}
    BY <2>2, <2>4, <2>5
  <2> QED
    BY <2>1, <2>2, <2>3, <2>4, <2>5, <2>6, ClosingOffers DEF OffersInv
<1> QED
  BY <1>1, <1>2, <1>3, <1>4, <1>5, <1>6, <1>7, <1>8, <1>9, <1>10 DEF Next

-----------------------------------------------------------------------------
(* Causes: the clock, the attempts, and the error that names them. *)

LEMMA NewDeadline ==
  ASSUME TypeOK, NEW kind \in Kinds, NEW gone, NEW low
  PROVE  LET new == NewCall(kind, gone, low) IN
         /\ new.kind = kind /\ new.attempt = 1
         /\ kind \notin Salvages => new.expires = Cap
         /\ Cap > 0 => new.expires \in 1 .. Cap
         /\ new.attempt <= AttemptsOf(kind)
<1>1. now \in Nat
  BY DEF TypeOK
<1>2. kind \notin Salvages => ExpiryOf(kind) = Cap
  BY DEF ExpiryOf
<1>3. Cap > 0 => ExpiryOf(kind) \in 1 .. Cap
  BY <1>1, Bounds DEF ExpiryOf
<1>4. 1 <= AttemptsOf(kind)
  BY Bounds DEF AttemptsOf
<1> QED
  BY <1>2, <1>3, <1>4 DEF NewCall

(* A request that lands does so inside the deadline it was given. *)
LEMMA LandsInTime ==
  ASSUME TypeOK, CauseInv, CapBoundsAll, Lands
  PROVE  (Cap > 0 => now' <= Cap) /\ now' \in Nat
BY Bounds DEF Lands, TypeOK, CallType, CauseInv, CapBoundsAll

LEMMA RetryableIsNot ==
  /\ Deadline \notin Retryable
  /\ \A r \in SalvageReasons \cup {"oversize", "none", "request-too-large", "empty-answer"} :
       r \notin Retryable /\ r # Deadline
BY DEF Deadline, Retryable, Shapes, SalvageReasons

LEMMA CauseStep ==
  ASSUME TypeOK, CauseInv, CapBoundsAll, CauseIsNamed, [Next]_vars
  PROVE  CauseInv' /\ CapBoundsAll' /\ CauseIsNamed'
<1> USE DEF vars, ledgerVars, learntVars
<1>0. /\ call \in CallType /\ call.attempt \in Nat /\ call.expires \in Nat /\ now \in Nat
      /\ AttemptsOf(call.kind) \in Nat
  BY Bounds DEF TypeOK, CallType, AttemptsOf
<1>1. CASE Compose
  <2>1. /\ UNCHANGED <<now, call, original, result>>
        /\ step' \in {"dispatching", "failed"}
        /\ step' = "failed" => failure'.reason = "oversize"
    BY <1>1 DEF Compose, Fails, Failed
  <2> QED
    BY <2>1, RetryableIsNot DEF CauseInv, CapBoundsAll, CauseIsNamed
<1>2. CASE Dispatch
  <2>1. /\ UNCHANGED <<now, call, original, result>>
        /\ step' \in {"flying", "failed"}
        /\ step' = "failed" => failure'.reason = Deadline /\ Spent(now, call.expires)
    BY <1>2 DEF Dispatch, Fails, Failed
  <2> QED
    BY <1>0, <2>1, RetryableIsNot DEF CauseInv, CapBoundsAll, CauseIsNamed, Spent
<1>3. CASE Resume
  <2>1. now' \in Nat /\ (Cap > 0 => now' <= Cap)
    BY <1>0, <1>3, Bounds DEF Resume, PauseFor, CauseInv, CapBoundsAll
  <2>2. call.attempt < AttemptsOf(call.kind)
    BY <1>3 DEF Resume, CauseInv
  <2>3. CASE Spent(now', call.expires)
    <3>1. UNCHANGED <<call, original, result>> /\ step' = "failed" /\ failure'.reason = Deadline
      BY <1>3, <2>3 DEF Resume, Fails, Failed
    <3> QED
      BY <1>0, <2>1, <2>3, <3>1, RetryableIsNot DEF CauseInv, CapBoundsAll, CauseIsNamed, Spent
  <2>4. CASE ~Spent(now', call.expires)
    <3>1. /\ call'.kind = call.kind /\ call'.expires = call.expires
          /\ call'.attempt = call.attempt + 1
          /\ step' = "dispatching" /\ UNCHANGED <<original, result>>
      BY <1>0, <1>3, <2>4 DEF Resume, CallType
    <3> QED
      BY <1>0, <2>1, <2>2, <3>1 DEF CauseInv, CapBoundsAll, CauseIsNamed
  <2> QED
    BY <2>3, <2>4
<1>4. ASSUME NEW content \in Contents, Answered(content)
      PROVE  CauseInv' /\ CapBoundsAll' /\ CauseIsNamed'
  <2>1. now' \in Nat /\ (Cap > 0 => now' <= Cap)
    BY <1>4, LandsInTime DEF Answered
  <2>2. /\ call'.kind = call.kind /\ call'.expires = call.expires /\ call'.attempt = call.attempt
        /\ step' = "replied" /\ UNCHANGED <<original, result>>
    BY <1>0, <1>4 DEF Answered, CallType
  <2> QED
    BY <2>1, <2>2 DEF CauseInv, CapBoundsAll, CauseIsNamed
<1>5. ASSUME NEW d \in Deaths, Died(d) PROVE CauseInv' /\ CapBoundsAll' /\ CauseIsNamed'
  <2>1. now' \in Nat /\ (Cap > 0 => now' <= Cap) /\ UNCHANGED <<call, original, result>>
    BY <1>5, LandsInTime DEF Died
  <2>2. d.reason = Deadline => call.expires > 0 /\ now' + 1 >= call.expires
    BY <1>5 DEF Died
  <2>3. CASE ~WorthRetrying(d.reason)
    <3>1. step' = "failed" /\ failure'.reason = d.reason
      BY <1>5, <2>3 DEF Died, RetryOrFail, Fails, Failed
    <3>2. d.reason \in Retryable => call.attempt = AttemptsOf(call.kind)
      BY <1>0, <2>3 DEF WorthRetrying, CauseInv
    <3> QED
      BY <2>1, <2>2, <3>1, <3>2 DEF CauseInv, CapBoundsAll, CauseIsNamed
  <2>4. CASE WorthRetrying(d.reason)
    <3>1. /\ step' \in {"failed", "pausing"}
          /\ step' = "failed" => failure'.reason = Deadline /\ Spent(now', call.expires)
      BY <1>5, <2>4 DEF Died, RetryOrFail, Fails, Failed
    <3>2. call.attempt < AttemptsOf(call.kind)
      BY <2>4 DEF WorthRetrying
    <3> QED
      BY <1>0, <2>1, <3>1, <3>2, RetryableIsNot DEF CauseInv, CapBoundsAll, CauseIsNamed, Spent
  <2> QED
    BY <2>3, <2>4
<1>6. ASSUME NEW r \in Refusals, Refused(r) PROVE CauseInv' /\ CapBoundsAll' /\ CauseIsNamed'
  <2>1. now' \in Nat /\ (Cap > 0 => now' <= Cap) /\ UNCHANGED <<original, result>>
    BY <1>6, LandsInTime DEF Refused
  <2>2. call'.kind = call.kind /\ call'.expires = call.expires /\ call'.attempt = call.attempt
    BY <1>0, <1>6 DEF Refused, CallType
  <2>3. /\ step' \in {"dispatching", "failed"}
        /\ step' = "failed" => failure'.reason \in {"none", "request-too-large"}
    BY <1>6 DEF Refused, Fails
  <2> QED
    BY <2>1, <2>2, <2>3, RetryableIsNot DEF CauseInv, CapBoundsAll, CauseIsNamed
<1>7. CASE Accept
  <2>1. UNCHANGED <<now, call, original>> /\ step' = "over" /\ result'.kind # "error"
    BY <1>7 DEF Accept, Finish
  <2> QED
    BY <2>1 DEF CauseInv, CapBoundsAll, CauseIsNamed
<1>8. CASE Discard
  <2>1. /\ UNCHANGED <<now, call, original, result>> /\ step' = "failed"
        /\ failure'.reason \in {"empty-answer", "reasoning-only"}
    BY <1>8 DEF Discard, Fails, Failed, Unanswered
  <2> QED
    BY <2>1, RetryableIsNot DEF CauseInv, CapBoundsAll, CauseIsNamed, SalvageReasons
<1>9. CASE RetryWithoutFormat \/ RetryAtStatedCap
  <2>1. PICK kind \in {"structured", "plain"}, low \in {lowered, TRUE} :
          call' = NewCall(kind, removed, low)
    BY <1>9 DEF RetryWithoutFormat, RetryAtStatedCap, Starts, FirstKind
  <2>2. UNCHANGED <<now, original, result>> /\ step' = "composing"
    BY <1>9 DEF RetryWithoutFormat, RetryAtStatedCap, Starts
  <2>3. kind \in Kinds /\ kind \notin Salvages
    BY DEF Kinds, Salvages
  <2>4. /\ call'.kind = kind /\ call'.expires = Cap /\ (Cap > 0 => call'.expires \in 1 .. Cap)
        /\ call'.attempt <= AttemptsOf(kind)
    BY <2>1, <2>3, NewDeadline
  <2> QED
    BY <2>2, <2>3, <2>4 DEF CauseInv, CapBoundsAll, CauseIsNamed
<1>10. CASE Salvage \/ SalvageUntrimmed
  <2>1. PICK kind \in Salvages : call' = NewCall(kind, removed, lowered)
    BY <1>10 DEF Salvage, SalvageUntrimmed, Starts, Salvages
  <2>2. UNCHANGED <<now, result>> /\ step' = "composing" /\ original'.reason \in SalvageReasons
    BY <1>10 DEF Salvage, SalvageUntrimmed, Starts, CauseInv, Salvages
  <2>3. kind \in Kinds
    BY DEF Kinds, Salvages
  <2>4. /\ call'.kind = kind /\ (Cap > 0 => call'.expires \in 1 .. Cap)
        /\ call'.attempt <= AttemptsOf(kind)
    BY <2>1, <2>3, NewDeadline
  <2> QED
    BY <2>2, <2>4 DEF CauseInv, CapBoundsAll, CauseIsNamed
<1>11. CASE GiveUp
  <2>1. /\ UNCHANGED <<now, call, original>> /\ step' = "over"
        /\ result'.reason = Reported /\ step = "failed"
    BY <1>11 DEF GiveUp, Finish
  <2>2. CASE call.kind \notin Salvages
    <3>1. Reported = failure.reason /\ AttemptsOf(call.kind) = MaxAttempts /\ call.expires = Cap
      BY <2>2 DEF Reported, AttemptsOf, CauseInv
    <3> QED
      BY <2>1, <3>1 DEF CauseInv, CapBoundsAll, CauseIsNamed
  <2>3. CASE call.kind \in Salvages
    <3>1. CASE DeadlineSpent
      <4>1. Reported = Deadline /\ Cap > 0 /\ now + 1 >= Cap
        BY <2>1, <2>3, <3>1 DEF Reported, DeadlineSpent, CauseInv
      <4> QED
        BY <2>1, <4>1, RetryableIsNot DEF CauseInv, CapBoundsAll, CauseIsNamed
    <3>2. CASE ~DeadlineSpent
      <4>1. Reported = original.reason /\ original.reason \in SalvageReasons
        BY <2>3, <3>2 DEF Reported, CauseInv
      <4> QED
        BY <2>1, <4>1, RetryableIsNot DEF CauseInv, CapBoundsAll, CauseIsNamed
    <3> QED
      BY <3>1, <3>2
  <2> QED
    BY <2>2, <2>3
<1>12. CASE Done \/ UNCHANGED vars
  BY <1>12 DEF Done, CauseInv, CapBoundsAll, CauseIsNamed
<1> QED
  BY <1>1, <1>2, <1>3, <1>4, <1>5, <1>6, <1>7, <1>8, <1>9, <1>10, <1>11, <1>12 DEF Next

-----------------------------------------------------------------------------
(* The ledger: one answer, and refusals that were replaced. *)

StepInv ==
  /\ awaiting # 0 => step # "flying" /\ entries[Last].blamed # "none"
  /\ step \in {"flying", "replied"} => Last > 0
  /\ step = "flying" => entries[Last].outcome = "open"
  /\ step = "replied" => entries[Last].outcome = "answered"
  /\ step = "failed" /\ (failure.format \/ failure.cap) => Last > 0

ReadInv ==
  /\ \A i \in DOMAIN entries : entries[i].outcome = "open" => ~entries[i].read
  /\ \A p \in dispatched : \E i \in DOMAIN entries : entries[i].prompt = p /\ entries[i].read

LEMMA LedgerSplit == LedgerInv <=> StepInv /\ ReadInv
BY DEF LedgerInv, StepInv, ReadInv

(* Closing the last entry cannot turn an earlier one into an answer. *)
LEMMA ClosingOutcome ==
  ASSUME TypeOK, Last > 0, OneAnswer, RefusedWasReplaced, Rewritten,
         entries'[Last].outcome \in {"answered", "failed"}
  PROVE  /\ RefusedWasReplaced'
         /\ \A i \in DOMAIN entries' : i # Last => entries'[i].outcome \notin {"answered", "open"}
         /\ Last' = Last /\ DOMAIN entries' = 1 .. Last
<1>0. DOMAIN entries = 1 .. Last /\ Last \in Nat
  BY DEF TypeOK, Last
<1>1. DOMAIN entries' = 1 .. Last /\ Last' = Last
  BY <1>0 DEF Rewritten, Last
<1>2. ASSUME NEW i \in 1 .. Last, i # Last
      PROVE  entries'[i] = entries[i] /\ entries[i].outcome \notin {"answered", "open"}
  BY <1>0, <1>2 DEF Rewritten, OneAnswer
<1>3. RefusedWasReplaced'
  <2> SUFFICES ASSUME NEW i \in 1 .. Last, entries'[i].outcome = "refused"
               PROVE  i < Last /\ entries'[i].blamed \notin entries'[i + 1].offers \cup {"none"}
    BY <1>1 DEF RefusedWasReplaced
  <2>1. i # Last /\ entries'[i] = entries[i]
    BY <1>0 DEF Rewritten
  <2>2. i < Last /\ entries[i].blamed \notin entries[i + 1].offers \cup {"none"}
    BY <1>0, <2>1 DEF RefusedWasReplaced
  <2>3. i + 1 \in 1 .. Last /\ entries'[i + 1].offers = entries[i + 1].offers
    BY <1>0, <2>2 DEF Rewritten
  <2> QED
    BY <2>1, <2>2, <2>3
<1> QED
  BY <1>1, <1>2, <1>3

LEMMA LedgerStep ==
  ASSUME TypeOK, StepInv, OneAnswer, RefusedWasReplaced, OffersInv, [Next]_vars
  PROVE  StepInv' /\ OneAnswer' /\ RefusedWasReplaced'
<1> USE DEF vars, ledgerVars, learntVars
<1>0. DOMAIN entries = 1 .. Last /\ Last \in Nat
  BY DEF TypeOK, Last
<1>1. CASE Compose
  <2>1. /\ UNCHANGED <<entries, awaiting, result>> /\ step' \in {"dispatching", "failed"}
        /\ step = "composing"
        /\ step' = "failed" => ~failure'.format /\ ~failure'.cap
    BY <1>1 DEF Compose, Fails, Failed
  <2> QED
    BY <2>1 DEF StepInv, OneAnswer, RefusedWasReplaced, Last
<1>2. CASE Dispatch
  <2>1. CASE UNCHANGED ledgerVars /\ step' = "failed" /\ failure' = Failed(Deadline)
    <3>1. step = "dispatching" /\ ~failure'.format /\ ~failure'.cap
      BY <1>2, <2>1 DEF Dispatch, Failed
    <3> QED
      BY <2>1, <3>1 DEF StepInv, OneAnswer, RefusedWasReplaced, Last
  <2>2. CASE Begin /\ step' = "flying"
    <3>0. step = "dispatching" /\ awaiting' = 0
      BY <1>2, <2>2 DEF Dispatch, Begin
    <3>1. /\ entries' \in Seq(EntryType) /\ Last' = Last + 1
          /\ entries'[Last + 1] = Entry
          /\ \A i \in 1 .. Last :
               entries'[i] = IF i = awaiting THEN [entries[i] EXCEPT !.outcome = "refused"]
                             ELSE entries[i]
      BY <2>2, BeginFacts DEF Last
    <3>2. DOMAIN entries' = 1 .. Last + 1
      BY <3>1 DEF Last
    <3>3. Entry.outcome = "open" /\ Entry.offers = call.offers
      BY DEF Entry
    <3>4. ASSUME NEW i \in 1 .. Last
          PROVE  /\ entries'[i].blamed = entries[i].blamed /\ entries'[i].offers = entries[i].offers
                 /\ entries'[i].outcome = IF i = awaiting THEN "refused" ELSE entries[i].outcome
                 /\ entries[i].outcome \notin {"answered", "open"}
      <4>1. entries[i] \in EntryType
        BY <1>0 DEF TypeOK
      <4>2. LET e == [entries[i] EXCEPT !.outcome = "refused"]
            IN  e.blamed = entries[i].blamed /\ e.offers = entries[i].offers /\ e.outcome = "refused"
        BY <4>1 DEF EntryType
      <4>3. entries[i].outcome \notin {"answered", "open"}
        BY <1>0, <3>0 DEF OneAnswer
      <4> QED
        BY <3>1, <4>2, <4>3
    <3>5. StepInv'
      BY <1>0, <2>2, <3>0, <3>1, <3>3 DEF StepInv
    <3>6. OneAnswer'
      BY <1>0, <2>2, <3>1, <3>2, <3>3, <3>4 DEF OneAnswer
    <3>7. ASSUME NEW i \in 1 .. Last + 1, entries'[i].outcome = "refused"
          PROVE  i < Last + 1 /\ entries'[i].blamed \notin entries'[i + 1].offers \cup {"none"}
      <4>1. i \in 1 .. Last
        BY <1>0, <3>1, <3>3, <3>7
      <4>2. CASE i = awaiting
        <5>1. i = Last /\ entries[i].blamed # "none"
          BY <1>0, <4>1, <4>2 DEF TypeOK, StepInv
        <5>2. entries[i].blamed \in Gone /\ entries[i].blamed \notin call.offers
          BY <1>0, <4>1, <5>1 DEF OffersInv
        <5> QED
          BY <1>0, <3>1, <3>3, <3>4, <4>1, <5>1, <5>2
      <4>3. CASE i # awaiting
        <5>1. i < Last /\ entries[i].blamed \notin entries[i + 1].offers \cup {"none"}
          BY <1>0, <3>4, <3>7, <4>1, <4>3 DEF RefusedWasReplaced
        <5>2. i + 1 \in 1 .. Last
          BY <1>0, <4>1, <5>1
        <5> QED
          BY <1>0, <3>4, <4>1, <5>1, <5>2
      <4> QED
        BY <4>2, <4>3
    <3>8. RefusedWasReplaced'
      BY <3>1, <3>2, <3>7 DEF RefusedWasReplaced
    <3> QED
      BY <3>5, <3>6, <3>8
  <2> QED
    BY <1>2, <2>1, <2>2 DEF Dispatch, Fails
<1>3. CASE Resume
  <2>1. /\ UNCHANGED <<entries, awaiting, result>> /\ step' \in {"dispatching", "failed"}
        /\ step = "pausing"
        /\ step' = "failed" => ~failure'.format /\ ~failure'.cap
    BY <1>3 DEF Resume, Fails, Failed
  <2> QED
    BY <2>1 DEF StepInv, OneAnswer, RefusedWasReplaced, Last
<1>4. ASSUME NEW content \in Contents, Answered(content)
      PROVE  StepInv' /\ OneAnswer' /\ RefusedWasReplaced'
  <2>1. Last > 0 /\ Settle /\ step = "flying" /\ step' = "replied" /\ awaiting' = 0
    BY <1>4 DEF Answered, Lands, StepInv, Settle
  <2>2. Rewritten /\ entries'[Last].outcome = "answered"
    BY <2>1, SettleFacts
  <2> QED
    BY <1>0, <2>1, <2>2, ClosingOutcome DEF StepInv, OneAnswer
<1>5. ASSUME NEW d \in Deaths, Died(d) PROVE StepInv' /\ OneAnswer' /\ RefusedWasReplaced'
  <2>1. Last > 0 /\ Fail(d) /\ step = "flying" /\ awaiting' = 0
    BY <1>5 DEF Died, Lands, StepInv, Fail
  <2>2. step' \in {"failed", "pausing"} /\ (step' = "failed" => ~failure'.format /\ ~failure'.cap)
    BY <1>5 DEF Died, RetryOrFail, Fails, Failed
  <2>3. Rewritten /\ entries'[Last].outcome = "failed"
    BY <2>1, FailFacts
  <2> QED
    BY <1>0, <2>1, <2>2, <2>3, ClosingOutcome DEF StepInv, OneAnswer
<1>6. ASSUME NEW r \in Refusals, Refused(r) PROVE StepInv' /\ OneAnswer' /\ RefusedWasReplaced'
  <2>1. Last > 0 /\ step = "flying" /\ awaiting = 0
    BY <1>6 DEF Refused, Lands, StepInv
  <2>2. CASE RungFor(r.names) # "none"
    <3> DEFINE rung == RungFor(r.names)
    <3>1. Revise(Closed("failed", rung)) /\ awaiting' = Last /\ step' = "dispatching"
      BY <1>6, <2>2 DEF Refused, PendUntilReplaced
    <3>2. rung \in Capabilities
      BY <2>2 DEF RungFor, Rungs, Capabilities
    <3>3. Rewritten /\ entries'[Last].outcome = "failed" /\ entries'[Last].blamed = rung
      BY <2>1, <3>1, <3>2, ClosedFacts
    <3> QED
      BY <1>0, <2>1, <2>2, <3>1, <3>3, ClosingOutcome DEF StepInv, OneAnswer
  <2>3. CASE RungFor(r.names) = "none"
    <3>1. Revise(Closed("failed", "none")) /\ awaiting' = 0 /\ step' = "failed"
      BY <1>6, <2>1, <2>3 DEF Refused, FailRefused, Fails
    <3>2. Rewritten /\ entries'[Last].outcome = "failed"
      BY <2>1, <3>1, ClosedFacts
    <3> QED
      BY <1>0, <2>1, <3>1, <3>2, ClosingOutcome DEF StepInv, OneAnswer
  <2> QED
    BY <2>2, <2>3
<1>7. CASE Accept
  <2>1. UNCHANGED <<entries, awaiting>> /\ step = "replied" /\ step' = "over" /\ result'.kind # "error"
    BY <1>7 DEF Accept, Finish
  <2> QED
    BY <2>1 DEF StepInv, OneAnswer, RefusedWasReplaced, Last
<1>8. CASE Discard
  <2>1. /\ Last > 0 /\ MarkUnanswered /\ step = "replied" /\ step' = "failed" /\ awaiting' = awaiting
        /\ ~failure'.format /\ ~failure'.cap
    BY <1>8 DEF Discard, StepInv, Fails, Failed, MarkUnanswered
  <2>2. Rewritten /\ entries'[Last].outcome = "failed" /\ entries'[Last].blamed = entries[Last].blamed
    BY <2>1, UnansweredFacts
  <2> QED
    BY <1>0, <2>1, <2>2, ClosingOutcome DEF StepInv, OneAnswer
<1>9. CASE RetryWithoutFormat \/ RetryAtStatedCap
  <2>1. PICK capability \in {"response_format", "budget"} : PendUntilReplaced(capability)
    BY <1>9 DEF RetryWithoutFormat, RetryAtStatedCap
  <2>2. Last > 0 /\ step = "failed" /\ step' = "composing"
    BY <1>9 DEF RetryWithoutFormat, RetryAtStatedCap, CanLower, StepInv, Starts
  <2>3. awaiting' = Last /\ Revise(Closed("failed", capability)) /\ capability \in Capabilities
    BY <2>1 DEF PendUntilReplaced, Capabilities
  <2>4. Rewritten /\ entries'[Last].outcome = "failed" /\ entries'[Last].blamed = capability
    BY <2>2, <2>3, ClosedFacts
  <2> QED
    BY <1>0, <2>2, <2>3, <2>4, ClosingOutcome DEF StepInv, OneAnswer
<1>10. CASE Salvage \/ SalvageUntrimmed
  <2>1. UNCHANGED <<entries, awaiting, result>> /\ step = "failed" /\ step' = "composing"
    BY <1>10 DEF Salvage, SalvageUntrimmed, Starts
  <2> QED
    BY <2>1 DEF StepInv, OneAnswer, RefusedWasReplaced, Last
<1>11. CASE GiveUp
  <2>1. /\ UNCHANGED <<entries, awaiting>> /\ step = "failed" /\ step' = "over"
        /\ result'.kind = "error"
    BY <1>11 DEF GiveUp, Finish
  <2> QED
    BY <2>1 DEF StepInv, OneAnswer, RefusedWasReplaced, Last
<1>12. CASE Done \/ UNCHANGED vars
  BY <1>12 DEF Done, StepInv, OneAnswer, RefusedWasReplaced, Last
<1> QED
  BY <1>1, <1>2, <1>3, <1>4, <1>5, <1>6, <1>7, <1>8, <1>9, <1>10, <1>11, <1>12 DEF Next

-----------------------------------------------------------------------------
(* The record: what it says of a request is what happened to it. *)

LEMMA ClosingRecord ==
  ASSUME TypeOK, TypeOK', Last > 0, ReadInv, RecordIsTrue, Rewritten,
         entries'[Last].outcome # "open",
         entries[Last].read => entries'[Last].read,
         entries'[Last].responded <=> entries'[Last].heard,
         \A p \in dispatched' : p \in dispatched \/ (p = entries[Last].prompt /\ entries'[Last].read)
  PROVE  ReadInv' /\ RecordIsTrue'
<1>0. DOMAIN entries = 1 .. Last /\ Last \in Nat
  BY DEF TypeOK, Last
<1>1. DOMAIN entries' = 1 .. Last /\ Last' = Last
  BY <1>0 DEF Rewritten, Last
<1>2. \A i \in 1 .. Last : i # Last => entries'[i] = entries[i]
  BY DEF Rewritten
<1>3. ASSUME NEW i \in 1 .. Last
      PROVE  /\ entries'[i].prompt = entries[i].prompt
             /\ entries'[i].warm <=> entries[i].warm
             /\ entries[i].read => entries'[i].read
  <2>1. CASE i = Last
    BY <2>1 DEF Rewritten
  <2>2. CASE i # Last
    BY <1>2, <2>2
  <2> QED
    BY <2>1, <2>2
<1>4. \A i \in DOMAIN entries' : entries'[i].outcome = "open" => ~entries'[i].read
  BY <1>0, <1>1, <1>2 DEF ReadInv
<1>5. \A p \in dispatched' : \E i \in DOMAIN entries' : entries'[i].prompt = p /\ entries'[i].read
  <2> SUFFICES ASSUME NEW p \in dispatched'
               PROVE  \E i \in 1 .. Last : entries'[i].prompt = p /\ entries'[i].read
    BY <1>1
  <2>1. CASE p \in dispatched
    <3>1. PICK i \in 1 .. Last : entries[i].prompt = p /\ entries[i].read
      BY <1>0, <2>1 DEF ReadInv
    <3> QED
      BY <1>3, <3>1
  <2>2. CASE p = entries[Last].prompt /\ entries'[Last].read
    <3>1. Last \in 1 .. Last
      BY <1>0
    <3> QED
      BY <2>2, <3>1 DEF Rewritten
  <2> QED
    BY <2>1, <2>2
<1>6. ASSUME NEW i \in 1 .. Last, entries'[i].warm
      PROVE  \E j \in 1 .. i - 1 : entries'[j].prompt = entries'[i].prompt /\ entries'[j].read
  <2>1. entries[i].warm
    BY <1>3, <1>6
  <2>2. PICK j \in 1 .. i - 1 : entries[j].prompt = entries[i].prompt /\ entries[j].read
    BY <1>0, <2>1 DEF RecordIsTrue
  <2>3. j \in 1 .. Last
    BY <1>0
  <2> QED
    BY <1>3, <2>2, <2>3
<1>7. ASSUME NEW i \in 1 .. Last, entries'[i].outcome # "open"
      PROVE  entries'[i].responded = entries'[i].heard
  <2>1. CASE i = Last
    <3>1. entries' \in Seq(EntryType)
      BY DEF TypeOK
    <3>2. entries'[i] \in EntryType
      BY <1>1, <3>1 DEF Last
    <3> QED
      BY <2>1, <3>2 DEF EntryType
  <2>2. CASE i # Last
    BY <1>0, <1>2, <1>7, <2>2 DEF RecordIsTrue
  <2> QED
    BY <2>1, <2>2
<1> QED
  BY <1>1, <1>4, <1>5, <1>6, <1>7 DEF ReadInv, RecordIsTrue

LEMMA RecordStep ==
  ASSUME TypeOK, TypeOK', StepInv, OneAnswer, ReadInv, RecordIsTrue, [Next]_vars
  PROVE  ReadInv' /\ RecordIsTrue'
<1> USE DEF vars, ledgerVars, learntVars
<1>0. DOMAIN entries = 1 .. Last /\ Last \in Nat
  BY DEF TypeOK, Last
<1>1. CASE UNCHANGED <<entries, dispatched>>
  BY <1>1 DEF ReadInv, RecordIsTrue
<1>2. CASE step = "dispatching" /\ Begin
  <2>1. /\ Len(entries') = Last + 1 /\ entries' \in Seq(EntryType) /\ entries'[Last + 1] = Entry
        /\ \A i \in 1 .. Last :
             entries'[i] = IF i = awaiting THEN [entries[i] EXCEPT !.outcome = "refused"]
                           ELSE entries[i]
    BY <1>2, BeginFacts DEF Last
  <2>2. DOMAIN entries' = 1 .. Last + 1 /\ dispatched' = dispatched
    BY <1>2, <2>1 DEF Begin
  <2>3. Entry.outcome = "open" /\ ~Entry.read /\ (Entry.warm <=> Entry.prompt \in dispatched)
    BY DEF Entry
  <2>4. ASSUME NEW i \in 1 .. Last
        PROVE  /\ entries'[i].prompt = entries[i].prompt /\ entries'[i].warm = entries[i].warm
               /\ entries'[i].read = entries[i].read /\ entries'[i].heard = entries[i].heard
               /\ entries'[i].responded = entries[i].responded
               /\ entries'[i].outcome # "open" /\ entries[i].outcome # "open"
    <3>1. entries[i] \in EntryType
      BY <1>0 DEF TypeOK
    <3>2. LET e == [entries[i] EXCEPT !.outcome = "refused"]
          IN /\ e.prompt = entries[i].prompt /\ e.warm = entries[i].warm /\ e.read = entries[i].read
             /\ e.heard = entries[i].heard /\ e.responded = entries[i].responded
             /\ e.outcome = "refused"
      BY <3>1 DEF EntryType
    <3>3. entries[i].outcome # "open"
      BY <1>0, <1>2 DEF OneAnswer
    <3> QED
      BY <2>1, <3>2, <3>3
  <2>5. \A i \in DOMAIN entries' : entries'[i].outcome = "open" => ~entries'[i].read
    BY <1>0, <2>1, <2>2, <2>3, <2>4
  <2>6. ASSUME NEW p \in dispatched
        PROVE  \E i \in 1 .. Last : entries'[i].prompt = p /\ entries'[i].read
    <3>1. PICK i \in 1 .. Last : entries[i].prompt = p /\ entries[i].read
      BY <1>0 DEF ReadInv
    <3> QED
      BY <2>4, <3>1
  <2>7. ASSUME NEW i \in 1 .. Last + 1, entries'[i].warm
        PROVE  \E j \in 1 .. i - 1 : entries'[j].prompt = entries'[i].prompt /\ entries'[j].read
    <3>1. CASE i = Last + 1
      <4>1. PICK j \in 1 .. Last : entries'[j].prompt = Entry.prompt /\ entries'[j].read
        BY <2>1, <2>3, <2>6, <2>7, <3>1
      <4>2. j \in 1 .. i - 1
        BY <1>0, <3>1
      <4> QED
        BY <2>1, <3>1, <4>1, <4>2
    <3>2. CASE i \in 1 .. Last
      <4>1. PICK j \in 1 .. i - 1 : entries[j].prompt = entries[i].prompt /\ entries[j].read
        BY <1>0, <2>4, <2>7, <3>2 DEF RecordIsTrue
      <4>2. j \in 1 .. Last
        BY <1>0, <3>2
      <4> QED
        BY <2>4, <3>2, <4>1, <4>2
    <3> QED
      BY <1>0, <3>1, <3>2
  <2>8. ASSUME NEW i \in 1 .. Last + 1, entries'[i].outcome # "open"
        PROVE  entries'[i].responded = entries'[i].heard
    <3>1. i \in 1 .. Last
      BY <1>0, <2>1, <2>3, <2>8
    <3> QED
      BY <1>0, <2>4, <3>1 DEF RecordIsTrue
  <2>9. \A p \in dispatched' : \E i \in DOMAIN entries' : entries'[i].prompt = p /\ entries'[i].read
    <3> SUFFICES ASSUME NEW p \in dispatched
                 PROVE  \E i \in 1 .. Last + 1 : entries'[i].prompt = p /\ entries'[i].read
      BY <2>2
    <3>1. PICK i \in 1 .. Last : entries'[i].prompt = p /\ entries'[i].read
      BY <2>6
    <3> QED
      BY <1>0, <3>1
  <2> QED
    BY <2>2, <2>5, <2>7, <2>8, <2>9 DEF ReadInv, RecordIsTrue
<1>3. CASE Last > 0 /\ Settle
  <2>1. dispatched' = dispatched \cup {entries[Last].prompt}
    BY <1>3 DEF Settle
  <2> QED
    BY <1>3, <2>1, SettleFacts, ClosingRecord
<1>4. ASSUME NEW d \in Deaths, Last > 0, step = "flying", Fail(d)
      PROVE  ReadInv' /\ RecordIsTrue'
  <2>1. ~entries[Last].read
    BY <1>0, <1>4 DEF StepInv, ReadInv
  <2>2. \A p \in dispatched' : p \in dispatched \/ (p = entries[Last].prompt /\ ReachedTheModel(d))
    BY <1>4 DEF Fail
  <2> QED
    BY <1>4, <2>1, <2>2, FailFacts, ClosingRecord
<1>5. ASSUME NEW capability \in Capabilities \cup {"none"}, Last > 0,
             Revise(Closed("failed", capability)), dispatched' = dispatched
      PROVE  ReadInv' /\ RecordIsTrue'
  BY <1>5, ClosedFacts, ClosingRecord
<1>6. CASE Last > 0 /\ step = "replied" /\ MarkUnanswered
  <2>1. entries[Last].responded = entries[Last].heard
    BY <1>0, <1>6 DEF StepInv, RecordIsTrue
  <2> QED
    BY <1>6, <2>1, UnansweredFacts, ClosingRecord DEF MarkUnanswered
<1>7. CASE Dispatch
  BY <1>1, <1>2, <1>7 DEF Dispatch
<1>8. ASSUME NEW content \in Contents, Answered(content) PROVE ReadInv' /\ RecordIsTrue'
  BY <1>3, <1>8 DEF Answered, Lands, StepInv
<1>9. ASSUME NEW d \in Deaths, Died(d) PROVE ReadInv' /\ RecordIsTrue'
  BY <1>4, <1>9 DEF Died, Lands, StepInv
<1>10. ASSUME NEW r \in Refusals, Refused(r) PROVE ReadInv' /\ RecordIsTrue'
  <2>1. RungFor(r.names) \in Capabilities \cup {"none"} /\ Last > 0
    BY <1>10 DEF RungFor, Capabilities, Rungs, Refused, Lands, StepInv
  <2>2. PICK capability \in Capabilities \cup {"none"} :
          Revise(Closed("failed", capability)) /\ dispatched' = dispatched
    BY <1>10, <2>1 DEF Refused, PendUntilReplaced, FailRefused
  <2> QED
    BY <1>5, <2>1, <2>2
<1>11. CASE Discard
  BY <1>6, <1>11 DEF Discard, StepInv
<1>12. CASE RetryWithoutFormat \/ RetryAtStatedCap
  <2>1. PICK capability \in {"response_format", "budget"} : PendUntilReplaced(capability)
    BY <1>12 DEF RetryWithoutFormat, RetryAtStatedCap
  <2>2. Last > 0 /\ capability \in Capabilities
    BY <1>12 DEF RetryWithoutFormat, RetryAtStatedCap, CanLower, StepInv, Capabilities
  <2> QED
    BY <1>5, <2>1, <2>2 DEF PendUntilReplaced
<1>13. CASE \/ Compose \/ Resume \/ Accept \/ Salvage \/ SalvageUntrimmed \/ GiveUp \/ Done
            \/ UNCHANGED vars
  BY <1>1, <1>13 DEF Compose, Resume, Accept, Salvage, SalvageUntrimmed, GiveUp, Done
<1> QED
  BY <1>7, <1>8, <1>9, <1>10, <1>11, <1>12, <1>13 DEF Next

-----------------------------------------------------------------------------
(* Work: every request is paid for out of what the ladders allow. *)

(* Opening a later call costs no more than what it takes off the ladders.  *)
LEMMA NewWork ==
  ASSUME TypeOK, CauseInv, NEW kind \in Kinds, NEW gone, NEW low, call' = NewCall(kind, gone, low),
         step' = "composing"
  PROVE  AttemptsLeft' = AttemptsOf(kind) /\ call'.kind = kind
<1>1. call'.kind = kind /\ call'.attempt = 1
  BY DEF NewCall
<1>2. AttemptsOf(kind) \in Nat
  BY Bounds DEF AttemptsOf
<1> QED
  BY <1>1, <1>2 DEF AttemptsLeft

LEMMA WorkStep ==
  ASSUME TypeOK, CauseInv, OffersInv, StepInv, WorkInv, [Next]_vars
  PROVE  WorkInv'
<1> USE DEF vars, ledgerVars, learntVars
<1>0. /\ call \in CallType /\ call.attempt \in Nat /\ call.attempt <= AttemptsOf(call.kind)
      /\ AttemptsOf(call.kind) \in Nat /\ MaxAttempts \in Nat /\ Len(entries) \in Nat
  BY Bounds DEF TypeOK, CallType, AttemptsOf, CauseInv
<1>n. /\ AttemptsLeft \in Nat /\ CallsLeft \in Nat /\ FollowUpsLeft \in Nat /\ RungsLeft \in Nat
  BY <1>0 DEF AttemptsLeft, CallsLeft, FollowUpsLeft, RungsLeft
<1>a. ASSUME call'.kind = call.kind, lowered' = lowered
      PROVE  /\ CallsLeft' = CallsLeft /\ FollowUpsLeft' = FollowUpsLeft
             /\ CallsLeft' \in Nat /\ FollowUpsLeft' \in Nat
  BY <1>0, <1>a DEF CallsLeft, FollowUpsLeft
<1>b. removed' = removed => RungsLeft' = RungsLeft /\ RungsLeft' \in Nat
  BY DEF RungsLeft
<1>c. ASSUME Rewritten PROVE Len(entries') = Len(entries) /\ Len(entries') \in Nat
  BY <1>0, <1>c DEF Rewritten, Last
<1>1. CASE Compose
  <2>1. /\ UNCHANGED <<entries, removed, lowered, call>> /\ step = "composing"
        /\ step' \in {"dispatching", "failed"}
    BY <1>1 DEF Compose, Fails
  <2>2. AttemptsLeft' \in Nat /\ AttemptsLeft' <= AttemptsLeft
    BY <1>0, <2>1 DEF AttemptsLeft
  <2> QED
    BY <1>0, <1>n, <1>a, <1>b, <2>1, <2>2 DEF WorkInv
<1>2. CASE Dispatch
  <2>1. UNCHANGED <<removed, lowered, call>> /\ step = "dispatching"
    BY <1>2 DEF Dispatch
  <2>2. CASE UNCHANGED entries /\ step' = "failed"
    <3>1. AttemptsLeft' = 0
      BY <2>2 DEF AttemptsLeft
    <3> QED
      BY <1>0, <1>n, <1>a, <1>b, <2>1, <2>2, <3>1 DEF WorkInv
  <2>3. CASE Begin /\ step' = "flying"
    <3>1. Len(entries') = Len(entries) + 1 /\ Len(entries') \in Nat
      BY <1>0, <2>3, BeginFacts
    <3>2. AttemptsLeft' = AttemptsLeft - 1 /\ AttemptsLeft' \in Nat
      BY <1>0, <2>1, <2>3 DEF AttemptsLeft
    <3> QED
      BY <1>0, <1>n, <1>a, <1>b, <2>1, <3>1, <3>2 DEF WorkInv
  <2> QED
    BY <1>2, <2>2, <2>3 DEF Dispatch, Fails
<1>3. CASE Resume
  <2>1. UNCHANGED <<entries, removed, lowered>> /\ step = "pausing"
    BY <1>3 DEF Resume
  <2>2. call.attempt < AttemptsOf(call.kind) /\ call'.kind = call.kind
    BY <1>0, <1>3, <2>1 DEF CauseInv, Resume, CallType
  <2>3. \/ step' = "failed"
        \/ step' = "dispatching" /\ call'.attempt = call.attempt + 1
    BY <1>0, <1>3 DEF Resume, Fails, CallType
  <2>4. AttemptsLeft' \in Nat /\ AttemptsLeft' <= AttemptsLeft
    BY <1>0, <2>1, <2>2, <2>3 DEF AttemptsLeft
  <2> QED
    BY <1>0, <1>n, <1>a, <1>b, <2>1, <2>2, <2>4 DEF WorkInv
<1>4. ASSUME NEW content \in Contents, Answered(content) PROVE WorkInv'
  <2>1. UNCHANGED <<removed, lowered>> /\ step = "flying" /\ step' = "replied" /\ Last > 0 /\ Settle
    BY <1>4 DEF Answered, Lands, StepInv
  <2>2. call'.kind = call.kind /\ call'.attempt = call.attempt
    BY <1>0, <1>4 DEF Answered, CallType
  <2>3. AttemptsLeft' = AttemptsLeft
    BY <1>0, <2>1, <2>2 DEF AttemptsLeft
  <2> QED
    BY <1>0, <1>n, <1>a, <1>b, <1>c, <2>1, <2>2, <2>3, SettleFacts DEF WorkInv
<1>5. ASSUME NEW d \in Deaths, Died(d) PROVE WorkInv'
  <2>1. /\ UNCHANGED <<removed, lowered, call>> /\ step = "flying" /\ Last > 0 /\ Fail(d)
        /\ step' \in {"failed", "pausing"}
    BY <1>5 DEF Died, Lands, StepInv, RetryOrFail, Fails
  <2>2. AttemptsLeft' \in Nat /\ AttemptsLeft' <= AttemptsLeft
    BY <1>0, <2>1 DEF AttemptsLeft
  <2> QED
    BY <1>0, <1>n, <1>a, <1>b, <1>c, <2>1, <2>2, FailFacts DEF WorkInv
<1>6. ASSUME NEW r \in Refusals, Refused(r) PROVE WorkInv'
  <2>1. lowered' = lowered /\ step = "flying" /\ Last > 0
    BY <1>6 DEF Refused, Lands, StepInv
  <2>2. call'.kind = call.kind /\ call'.attempt = call.attempt
    BY <1>0, <1>6 DEF Refused, CallType
  <2>3. CASE RungFor(r.names) # "none"
    <3> DEFINE rung == RungFor(r.names)
    <3>1. Revise(Closed("failed", rung)) /\ removed' = removed \cup {rung} /\ step' = "dispatching"
      BY <1>6, <2>3 DEF Refused, PendUntilReplaced
    <3>2. rung \in Rungs \ removed /\ rung \in Capabilities
      BY <2>3 DEF RungFor, Rungs, Capabilities
    <3>3. RungsLeft' = RungsLeft - 1 /\ RungsLeft' \in Nat
      BY <3>1, <3>2 DEF RungsLeft, Rungs
    <3>4. AttemptsLeft' = AttemptsLeft + 1 /\ AttemptsLeft' \in Nat
      BY <1>0, <1>n, <2>1, <2>2, <3>1 DEF AttemptsLeft
    <3>5. Len(entries') = Len(entries) /\ Len(entries') \in Nat
      BY <1>c, <2>1, <3>1, <3>2, ClosedFacts
    <3>6. /\ CallsLeft' = CallsLeft /\ FollowUpsLeft' = FollowUpsLeft
          /\ CallsLeft' \in Nat /\ FollowUpsLeft' \in Nat
      BY <1>a, <2>1, <2>2
    <3> QED
      BY <1>0, <1>n, <3>3, <3>4, <3>5, <3>6 DEF WorkInv
  <2>4. CASE RungFor(r.names) = "none"
    <3>1. Revise(Closed("failed", "none")) /\ removed' = removed /\ step' = "failed"
      BY <1>6, <2>4 DEF Refused, FailRefused, Fails
    <3>2. AttemptsLeft' = 0
      BY <3>1 DEF AttemptsLeft
    <3>3. Len(entries') = Len(entries) /\ Len(entries') \in Nat
      BY <1>c, <2>1, <3>1, ClosedFacts
    <3>4. /\ CallsLeft' = CallsLeft /\ FollowUpsLeft' = FollowUpsLeft /\ RungsLeft' = RungsLeft
          /\ CallsLeft' \in Nat /\ FollowUpsLeft' \in Nat /\ RungsLeft' \in Nat
      BY <1>a, <1>b, <2>1, <2>2, <3>1
    <3> QED
      BY <1>0, <1>n, <3>2, <3>3, <3>4 DEF WorkInv
  <2> QED
    BY <2>3, <2>4
<1>7. CASE Accept \/ GiveUp
  <2>1. UNCHANGED <<entries, removed, lowered, call>> /\ step' = "over"
    BY <1>7 DEF Accept, GiveUp, Finish
  <2>2. AttemptsLeft' = 0
    BY <2>1 DEF AttemptsLeft
  <2> QED
    BY <1>0, <1>n, <1>a, <1>b, <2>1, <2>2 DEF WorkInv
<1>8. CASE Discard
  <2>1. UNCHANGED <<removed, lowered, call>> /\ step' = "failed" /\ Last > 0 /\ MarkUnanswered
    BY <1>8 DEF Discard, Fails, StepInv
  <2>2. AttemptsLeft' = 0
    BY <2>1 DEF AttemptsLeft
  <2> QED
    BY <1>0, <1>n, <1>a, <1>b, <1>c, <2>1, <2>2, UnansweredFacts DEF WorkInv
<1>9. CASE RetryWithoutFormat
  <2>1. /\ UNCHANGED <<removed, lowered>> /\ Last > 0 /\ step = "failed" /\ step' = "composing"
        /\ call.kind = "structured" /\ call' = NewCall("plain", removed, lowered)
        /\ Revise(Closed("failed", "response_format"))
    BY <1>9 DEF RetryWithoutFormat, Starts, StepInv, PendUntilReplaced
  <2>2. Len(entries') = Len(entries) /\ Len(entries') \in Nat
    BY <1>c, <2>1, ClosedFacts DEF Capabilities
  <2>3. AttemptsLeft' = MaxAttempts /\ call'.kind = "plain"
    BY <2>1, NewWork DEF Kinds, AttemptsOf, Salvages
  <2>4. /\ CallsLeft' = CallsLeft - MaxAttempts /\ CallsLeft' \in Nat
        /\ FollowUpsLeft' = FollowUpsLeft /\ FollowUpsLeft' \in Nat
    BY <1>0, <2>1, <2>3 DEF CallsLeft, FollowUpsLeft
  <2>5. AttemptsLeft = 0 /\ RungsLeft' = RungsLeft /\ RungsLeft' \in Nat
    BY <1>b, <2>1 DEF AttemptsLeft
  <2>6. AttemptsLeft' = MaxAttempts
    BY <2>3
  <2> QED
    BY <1>0, <1>n, <2>2, <2>4, <2>5, <2>6 DEF WorkInv
<1>10. CASE Salvage \/ SalvageUntrimmed
  <2>1. PICK kind \in Salvages :
          /\ call' = NewCall(kind, removed, lowered)
          /\ call.kind = IF kind = "trimmed" THEN "plain" ELSE "trimmed"
    BY <1>10 DEF Salvage, SalvageUntrimmed, Starts, Salvages
  <2>2. UNCHANGED <<entries, removed, lowered>> /\ step = "failed" /\ step' = "composing"
    BY <1>10 DEF Salvage, SalvageUntrimmed, Starts
  <2>3. AttemptsLeft' = 1 /\ call'.kind = kind
    BY <2>1, <2>2, NewWork DEF Kinds, AttemptsOf, Salvages
  <2>4. CallsLeft' = 0 /\ CallsLeft \in Nat /\ FollowUpsLeft' = FollowUpsLeft - 1 /\ FollowUpsLeft' \in Nat
    BY <1>n, <2>1, <2>3 DEF CallsLeft, FollowUpsLeft, Salvages
  <2>5. AttemptsLeft = 0 /\ RungsLeft' = RungsLeft /\ RungsLeft' \in Nat /\ Len(entries') = Len(entries) /\ Len(entries') \in Nat
    BY <1>0, <1>b, <2>2 DEF AttemptsLeft
  <2>6. AttemptsLeft' = 1
    BY <2>3
  <2> QED
    BY <1>0, <1>n, <2>4, <2>5, <2>6 DEF WorkInv
<1>11. CASE RetryAtStatedCap
  <2>1. /\ removed' = removed /\ lowered' = TRUE /\ ~lowered /\ Last > 0 /\ step = "failed"
        /\ step' = "composing" /\ call.kind \in {"structured", "plain"}
        /\ call' = NewCall(FirstKind, removed, TRUE) /\ Revise(Closed("failed", "budget"))
    BY <1>11 DEF RetryAtStatedCap, CanLower, Starts, StepInv, PendUntilReplaced
  <2>2. Len(entries') = Len(entries) /\ Len(entries') \in Nat
    BY <1>c, <2>1, ClosedFacts DEF Capabilities
  <2>3. FirstKind = call.kind \/ FirstKind = "plain"
    BY <2>1 DEF FirstKind, OffersInv
  <2>4. FirstKind \in Kinds /\ AttemptsOf(FirstKind) = MaxAttempts
    BY DEF FirstKind, Kinds, AttemptsOf, Salvages
  <2>5. AttemptsLeft' = MaxAttempts /\ call'.kind = FirstKind
    BY <2>1, <2>4, NewWork
  <2>6. /\ CallsLeft' <= CallsLeft - MaxAttempts /\ CallsLeft' \in Nat
        /\ FollowUpsLeft' = FollowUpsLeft /\ FollowUpsLeft' \in Nat
    <3>1. CASE FirstKind = "structured"
      <4>1. call.kind = "structured" /\ call'.kind = "structured"
        BY <2>1, <2>3, <2>5, <3>1
      <4>2. CallsLeft = MaxAttempts + MaxAttempts /\ CallsLeft' = MaxAttempts
        BY <2>1, <4>1 DEF CallsLeft
      <4>3. FollowUpsLeft' = 2 /\ FollowUpsLeft = 2
        BY <4>1 DEF FollowUpsLeft
      <4> QED
        BY <1>0, <4>2, <4>3
    <3>2. CASE FirstKind = "plain"
      <4>1. call'.kind = "plain"
        BY <2>5, <3>2
      <4>2. CallsLeft' = 0
        BY <2>1, <4>1 DEF CallsLeft
      <4>3. CallsLeft \in {MaxAttempts, MaxAttempts + MaxAttempts}
        BY <2>1 DEF CallsLeft
      <4>4. FollowUpsLeft' = 2
        BY <4>1 DEF FollowUpsLeft
      <4>5. FollowUpsLeft = 2
        BY <2>1 DEF FollowUpsLeft
      <4> QED
        BY <1>0, <4>2, <4>3, <4>4, <4>5
    <3> QED
      BY <3>1, <3>2 DEF FirstKind
  <2>7. AttemptsLeft = 0 /\ RungsLeft' = RungsLeft /\ RungsLeft' \in Nat
    BY <1>b, <2>1 DEF AttemptsLeft
  <2>8. AttemptsLeft' = MaxAttempts
    BY <2>5
  <2> QED
    BY <1>0, <1>n, <2>2, <2>6, <2>7, <2>8 DEF WorkInv
<1>12. CASE Done \/ UNCHANGED vars
  BY <1>12 DEF Done, WorkInv, AttemptsLeft, CallsLeft, FollowUpsLeft, RungsLeft
<1> QED
  BY <1>1, <1>2, <1>3, <1>4, <1>5, <1>6, <1>7, <1>8, <1>9, <1>10, <1>11, <1>12 DEF Next

-----------------------------------------------------------------------------
(* The theorems. *)

LEMMA InitInv == Init => IInv
<1> SUFFICES ASSUME Init PROVE IInv
  OBVIOUS
<1>1. TypeOK
  BY InitType
<1>2. /\ entries = <<>> /\ Last = 0 /\ DOMAIN entries = {} /\ dispatched = {} /\ awaiting = 0
      /\ step = "composing" /\ removed = {} /\ ~lowered /\ now = 0
  BY DEF Init, Last
<1>3. PICK kind \in {"task", "plain", "structured"} :
        call = NewCall(kind, {}, FALSE) /\ (grammar = IF kind = "structured" THEN "on" ELSE "off")
  BY DEF Init
<1>4. kind \in Kinds /\ kind \notin Salvages /\ {} \in SUBSET Rungs
  BY DEF Kinds, Salvages
<1>5. /\ call.kind = kind /\ call.attempt = 1 /\ call.expires = Cap
      /\ Cap > 0 => call.expires \in 1 .. Cap
      /\ call.attempt <= AttemptsOf(kind)
  <2>1. call.kind = kind /\ call.attempt = 1 /\ call.expires = ExpiryOf(kind)
    BY <1>3 DEF NewCall
  <2>2. ExpiryOf(kind) = Cap /\ 1 <= AttemptsOf(kind)
    BY <1>4, Bounds DEF ExpiryOf, AttemptsOf
  <2> QED
    BY <2>1, <2>2, Bounds
<1>6. LedgerInv /\ OneAnswer /\ RefusedWasReplaced /\ RecordIsTrue /\ NeverReoffered
  BY <1>2 DEF LedgerInv, OneAnswer, RefusedWasReplaced, RecordIsTrue, NeverReoffered
<1>7. OffersInv
  BY <1>2, <1>3, <1>5 DEF OffersInv, Gone
<1>8. CauseInv /\ CapBoundsAll /\ CauseIsNamed
  BY <1>2, <1>4, <1>5, Bounds DEF CauseInv, CapBoundsAll, CauseIsNamed
<1>9. WorkInv
  <2>1. AttemptsLeft = MaxAttempts /\ FollowUpsLeft = 2 /\ RungsLeft = 2 /\ Len(entries) = 0
    BY <1>2, <1>4, <1>5, Bounds
    DEF AttemptsLeft, AttemptsOf, FollowUpsLeft, RungsLeft, Salvages, Last
  <2>2. CallsLeft \in Nat /\ CallsLeft <= MaxAttempts + MaxAttempts
    BY Bounds DEF CallsLeft
  <2> QED
    BY <2>1, <2>2, Bounds DEF WorkInv
<1> QED
  BY <1>1, <1>6, <1>7, <1>8, <1>9 DEF IInv

(* What the ledger, the negotiation, the deadline and the attempts owe each *)
(* other holds at every step, whatever the constants.                       *)
THEOREM AnswerInvariant == Spec => []IInv
<1>1. IInv /\ [Next]_vars => IInv'
  <2> SUFFICES ASSUME IInv, [Next]_vars PROVE IInv'
    OBVIOUS
  <2>1. TypeOK /\ StepInv /\ ReadInv /\ LedgerInv
    BY LedgerSplit DEF IInv
  <2>2. TypeOK'
    BY <2>1, TypeStep
  <2>3. OffersInv' /\ NeverReoffered'
    BY <2>1, OffersStep DEF IInv
  <2>4. CauseInv' /\ CapBoundsAll' /\ CauseIsNamed'
    BY <2>1, CauseStep DEF IInv
  <2>5. StepInv' /\ OneAnswer' /\ RefusedWasReplaced'
    BY <2>1, LedgerStep DEF IInv
  <2>6. ReadInv' /\ RecordIsTrue'
    BY <2>1, <2>2, RecordStep DEF IInv
  <2>7. WorkInv'
    BY <2>1, WorkStep DEF IInv
  <2>8. LedgerInv'
    BY <2>5, <2>6 DEF LedgerInv, StepInv, ReadInv
  <2> QED
    BY <2>2, <2>3, <2>4, <2>5, <2>6, <2>7, <2>8 DEF IInv
<1> QED
  BY <1>1, InitInv, PTL DEF Spec

(* However many calls fail, are refused, degraded or followed up, they send *)
(* no more requests than three times the attempts and four. (trySalvage,    *)
(* postWithDegrade, answerWithRetry together)                               *)
THEOREM RequestsAreBounded == Spec => []RequestsBounded
<1>1. IInv => RequestsBounded
  <2> SUFFICES ASSUME IInv PROVE RequestsBounded
    OBVIOUS
  <2>1. /\ call.attempt \in Nat /\ call.attempt <= AttemptsOf(call.kind)
        /\ AttemptsOf(call.kind) \in Nat /\ Len(entries) \in Nat
    BY Bounds DEF IInv, TypeOK, CallType, CauseInv, AttemptsOf
  <2>2. AttemptsLeft \in Nat /\ CallsLeft \in Nat /\ FollowUpsLeft \in Nat /\ RungsLeft \in Nat
    BY <2>1, Bounds DEF AttemptsLeft, CallsLeft, FollowUpsLeft, RungsLeft
  <2> QED
    BY <2>1, <2>2, Bounds DEF IInv, WorkInv, RequestsBounded
<1> QED
  BY <1>1, AnswerInvariant, PTL

(* A cap, where there is one, is never overrun: by retries, their pauses,   *)
(* degraded requests, the second budget or the follow-ups.  (capBudgets)    *)
THEOREM CapIsKept == Spec => []CapBoundsAll
<1>1. IInv => CapBoundsAll
  BY DEF IInv
<1> QED
  BY <1>1, AnswerInvariant, PTL

(* The record holds one answer at most, a refusal only where the request    *)
(* that replaces it follows, and nothing is offered twice.  (createLedger,  *)
(* createNegotiation)                                                       *)
THEOREM LedgerIsTrue ==
  Spec => [](OneAnswer /\ RefusedWasReplaced /\ NeverReoffered /\ RecordIsTrue)
<1>1. IInv => OneAnswer /\ RefusedWasReplaced /\ NeverReoffered /\ RecordIsTrue
  BY DEF IInv
<1> QED
  BY <1>1, AnswerInvariant, PTL

(* Of these: one answer on record at most, whoever discards another above   *)
(* it.  (createLedger)                                                      *)
THEOREM OneAnswerStands == Spec => []OneAnswer
  BY LedgerIsTrue, PTL

(* What was refused once is not offered again.  (createNegotiation)         *)
THEOREM NothingIsReoffered == Spec => []NeverReoffered
  BY LedgerIsTrue, PTL

(* What an entry says of its request is what happened to it.                *)
(* (attempt-outcome.mjs reachedTheModel, obtainedResponse)                  *)
THEOREM RecordIsAlwaysTrue == Spec => []RecordIsTrue
  BY LedgerIsTrue, PTL

(* The error names the cause that ended the command.  (answerWithRetry)     *)
THEOREM CauseIsAlwaysNamed == Spec => []CauseIsNamed
<1>1. IInv => CauseIsNamed
  BY DEF IInv
<1> QED
  BY <1>1, AnswerInvariant, PTL
=============================================================================
